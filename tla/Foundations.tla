------------------------------ MODULE Foundations ------------------------------
(***************************************************************************)
(* Lemmas that the proofs about several components need: induction over    *)
(* natural numbers, functions defined by it, least elements, folds and     *)
(* sums over finite sets, and the laws of fractions in lowest terms.       *)
(***************************************************************************)
EXTENDS Fractions, FiniteSetTheorems, WellFoundedInduction, TLAPS

-----------------------------------------------------------------------------
(* Induction, and functions that are defined by it. The theorems of the    *)
(* library take a predicate as an operator; here it is a set.              *)

\* Every nonempty set of natural numbers has a least element.
LEMMA LeastOf ==
  ASSUME NEW U, U \subseteq Nat, U # {}
  PROVE  \E x \in U : \A y \in U : x <= y
  <1> DEFINE R == OpToRel(<, Nat)
  <1>1. PICK x \in U : \A y \in U : ~(<<y, x>> \in R)
    <2>1. IsWellFoundedOn(R, Nat)
      BY NatLessThanWellFounded, PTL
    <2> HIDE DEF R
    <2> QED BY <2>1, WFMin
  <1>2. ASSUME NEW y \in U PROVE x <= y
    <2>1. ~(y < x)
      BY <1>1 DEF OpToRel
    <2> QED BY <2>1
  <1> QED BY <1>2

LEMMA Induction ==
  ASSUME NEW U, 0 \in U, \A k \in Nat : k \in U => k + 1 \in U
  PROVE  Nat \subseteq U
  <1> SUFFICES ASSUME Nat \ U # {} PROVE FALSE
    OBVIOUS
  <1>1. PICK x \in Nat \ U : \A y \in Nat \ U : x <= y
    BY LeastOf
  <1>2. x # 0
    OBVIOUS
  <1>3. x - 1 \in Nat /\ ~(x <= x - 1)
    BY <1>2
  <1>4. x - 1 \in U
    BY <1>1, <1>3
  <1>5. (x - 1) + 1 \in U
    BY <1>3, <1>4
  <1> QED BY <1>5

Steps(m, R) == [(1..m) \X R -> R]

\* f goes from a on, each value made from the one before.
Follows(f, m, R, a, step) ==
    /\ f \in [0..m -> R]
    /\ f[0] = a
    /\ \A t \in 1..m : f[t] = step[<<t, f[t - 1]>>]

LEMMA Recursion ==
  ASSUME NEW R, NEW a, a \in R, NEW m \in Nat, NEW step, step \in Steps(m, R)
  PROVE  \E f : Follows(f, m, R, a, step)
  <1> DEFINE Good(k, f) == /\ f \in [0..k -> R]
                           /\ f[0] = a
                           /\ \A t \in 1..k : f[t] = step[<<t, f[t - 1]>>]
             U == {k \in Nat : k <= m => \E f : Good(k, f)}
  <1>0. step \in [(1..m) \X R -> R]
    BY DEF Steps
  <1>1. 0 \in U
    <2>1. Good(0, [t \in 0..0 |-> a])
      OBVIOUS
    <2> QED BY <2>1
  <1>2. ASSUME NEW k \in Nat, k \in U PROVE k + 1 \in U
    <2> SUFFICES ASSUME k + 1 <= m PROVE \E f : Good(k + 1, f)
      OBVIOUS
    <2>1. PICK f : Good(k, f)
      BY <1>2
    <2>2. f[k] \in R /\ step[<<k + 1, f[k]>>] \in R
      BY <1>0, <2>1
    <2> DEFINE g == [t \in 0..(k + 1) |-> IF t = k + 1 THEN step[<<k + 1, f[k]>>] ELSE f[t]]
    <2>3. g \in [0..(k + 1) -> R]
      <3>1. ASSUME NEW t \in 0..(k + 1) PROVE g[t] \in R
        <4>1. CASE t = k + 1
          BY <2>2, <4>1
        <4>2. CASE t # k + 1
          <5>1. t \in 0..k
            BY <4>2
          <5> QED BY <2>1, <4>2, <5>1
        <4> QED BY <4>1, <4>2
      <3> QED BY <3>1
    <2>4. g[0] = a
      BY <2>1
    <2>5. ASSUME NEW t \in 1..(k + 1) PROVE g[t] = step[<<t, g[t - 1]>>]
      <3>1. t - 1 \in 0..(k + 1) /\ t - 1 # k + 1 /\ g[t - 1] = f[t - 1]
        OBVIOUS
      <3>2. CASE t = k + 1
        <4>1. k + 1 \in 0..(k + 1) /\ t - 1 = k
          BY <3>2
        <4>2. g[k + 1] = step[<<k + 1, f[k]>>]
          BY <4>1
        <4> HIDE DEF g
        <4> QED BY <3>1, <3>2, <4>1, <4>2
      <3>3. CASE t # k + 1
        <4>1. t \in 1..k /\ g[t] = f[t]
          BY <3>3
        <4> QED BY <2>1, <3>1, <4>1
      <3> QED BY <3>2, <3>3
    <2>6. Good(k + 1, g)
      BY <2>3, <2>4, <2>5
    <2> HIDE DEF g, Good
    <2> QED BY <2>6
  <1> HIDE DEF Good
  <1>3. m \in U
    <2>1. Nat \subseteq U
      BY <1>1, <1>2, Induction
    <2> QED BY <2>1
  <1>4. PICK f : Good(m, f)
    BY <1>3
  <1> QED BY <1>4 DEF Good, Follows


\* The same from the last row to the first
Precedes(f, m, R, a, step) ==
    /\ f \in [0..m -> R]
    /\ f[m] = a
    /\ \A t \in 1..m : f[t - 1] = step[<<t, f[t]>>]

LEMMA BackRecursion ==
  ASSUME NEW R, NEW a, a \in R, NEW m \in Nat, NEW step, step \in Steps(m, R)
  PROVE  \E f : Precedes(f, m, R, a, step)
  <1> DEFINE turned == [p \in (1..m) \X R |-> step[<<(m + 1) - p[1], p[2]>>]]
  <1>1. turned \in Steps(m, R)
    <2>1. ASSUME NEW d \in 1..m, NEW r \in R PROVE step[<<(m + 1) - d, r>>] \in R
      <3>1. (m + 1) - d \in 1..m
        OBVIOUS
      <3> QED BY <3>1 DEF Steps
    <2> QED BY <2>1 DEF Steps
  <1>2. \A d \in 1..m : \A r \in R : turned[<<d, r>>] = step[<<(m + 1) - d, r>>]
    OBVIOUS
  <1> HIDE DEF turned
  <1>3. PICK g : Follows(g, m, R, a, turned)
    BY <1>1, Recursion
  <1> DEFINE f == [t \in 0..m |-> g[m - t]]
  <1>4. f \in [0..m -> R] /\ f[m] = a
    BY <1>3 DEF Follows
  <1>5. ASSUME NEW t \in 1..m PROVE f[t - 1] = step[<<t, f[t]>>]
    <2>1. /\ t - 1 \in 0..m /\ t \in 0..m
          /\ m - (t - 1) \in 1..m /\ (m - (t - 1)) - 1 = m - t /\ (m + 1) - (m - (t - 1)) = t
      OBVIOUS
    <2>2. PICK d \in 1..m : d = m - (t - 1)
      BY <2>1
    <2>3. f[t - 1] = g[d] /\ f[t] = g[d - 1] /\ (m + 1) - d = t /\ d - 1 \in 0..m
      BY <2>1, <2>2
    <2>4. g[d] = turned[<<d, g[d - 1]>>] /\ g[d - 1] \in R
      BY <1>3, <2>3 DEF Follows
    <2> HIDE DEF f
    <2> QED BY <1>2, <2>3, <2>4
  <1> HIDE DEF f
  <1> QED BY <1>4, <1>5 DEF Precedes

-----------------------------------------------------------------------------
(* Maxima and minima *)

LEMMA MaxIs ==
  ASSUME NEW S, NEW b \in S, \A y \in S : b >= y
  PROVE  Max(S) \in S /\ \A y \in S : Max(S) >= y
  BY DEF Max

LEMMA MinIs ==
  ASSUME NEW S, S \subseteq Nat, S # {}
  PROVE  Min(S) \in S /\ \A y \in S : Min(S) <= y
  <1>1. \E x \in S : \A y \in S : x <= y
    BY LeastOf
  <1> QED BY <1>1 DEF Min

-----------------------------------------------------------------------------
(* Division with remainder *)

LEMMA Division ==
  ASSUME NEW p \in Nat \ {0}, NEW a \in Nat
  PROVE  /\ a \div p \in Int
         /\ a % p \in 0..(p - 1)
         /\ a = p * (a \div p) + (a % p)
  OBVIOUS

LEMMA RemainderUnique ==
  ASSUME NEW p \in Nat \ {0}, NEW q1 \in Int, NEW q2 \in Int,
         NEW r1 \in 0..(p - 1), NEW r2 \in 0..(p - 1),
         p * q1 + r1 = p * q2 + r2
  PROVE  q1 = q2 /\ r1 = r2
  <1>1. ASSUME NEW k \in Int, k >= 1 PROVE p * k >= p
    BY <1>1
  <1>2. p * (q2 - q1) = r1 - r2 /\ p * (q1 - q2) = r2 - r1
    OBVIOUS
  <1>3. r1 - r2 < p /\ r2 - r1 < p
    OBVIOUS
  <1>4. ~(q2 - q1 >= 1)
    <2> SUFFICES ASSUME q2 - q1 >= 1 PROVE FALSE
      OBVIOUS
    <2>1. p * (q2 - q1) >= p
      BY <1>1
    <2>2. p * (q2 - q1) < p
      BY <1>2, <1>3
    <2> QED BY <2>1, <2>2
  <1>5. ~(q1 - q2 >= 1)
    <2> SUFFICES ASSUME q1 - q2 >= 1 PROVE FALSE
      OBVIOUS
    <2>1. p * (q1 - q2) >= p
      BY <1>1
    <2>2. p * (q1 - q2) < p
      BY <1>2, <1>3
    <2> QED BY <2>1, <2>2
  <1>6. q1 = q2
    BY <1>4, <1>5
  <1> QED BY <1>6

\* In a ring of p slots the entry p places on has the same slot, and within p
\* places slots differ.
LEMMA SlotRepeats ==
  ASSUME NEW p \in Nat \ {0}, NEW a \in Nat
  PROVE  (a + p) % p = a % p
  <1> DEFINE q1 == (a + p) \div p
             q2 == (a \div p) + 1
             r1 == (a + p) % p
             r2 == a % p
  <1>1. q1 \in Int /\ r1 \in 0..(p - 1) /\ a + p = p * q1 + r1
    <2>1. a + p \in Nat
      OBVIOUS
    <2> QED BY <2>1, Division
  <1>2. a \div p \in Int /\ r2 \in 0..(p - 1) /\ a = p * (a \div p) + r2
    BY Division
  <1>3. q2 \in Int /\ a + p = p * q2 + r2
    BY <1>2
  <1>4. p * q1 + r1 = p * q2 + r2
    BY <1>1, <1>3
  <1> HIDE DEF q1, q2, r1, r2
  <1>5. q1 = q2 /\ r1 = r2
    BY <1>1, <1>2, <1>3, <1>4, RemainderUnique
  <1> QED BY <1>5 DEF r1, r2

LEMMA SlotsDiffer ==
  ASSUME NEW p \in Nat \ {0}, NEW a \in Nat, NEW b \in Nat, a < b, b < a + p
  PROVE  a % p # b % p
  <1> SUFFICES ASSUME a % p = b % p PROVE FALSE
    OBVIOUS
  <1> DEFINE q1 == a \div p
             q2 == b \div p
             r == a % p
  <1>1. q1 \in Int /\ r \in 0..(p - 1) /\ a = p * q1 + r
    BY Division
  <1>2. q2 \in Int /\ b = p * q2 + r
    BY Division
  <1> HIDE DEF q1, q2, r
  <1>3. p * (q2 - q1) = b - a
    BY <1>1, <1>2
  <1>4. q2 - q1 >= 1
    <2> SUFFICES ASSUME q2 - q1 <= 0 PROVE FALSE
      BY <1>1, <1>2
    <2>1. p * (q2 - q1) <= 0
      BY <1>1, <1>2
    <2> QED BY <2>1, <1>3
  <1>5. p * (q2 - q1) >= p
    BY <1>1, <1>2, <1>4
  <1> QED BY <1>3, <1>5

-----------------------------------------------------------------------------
(* Finite sets, taken apart by a choice of an element of each *)

Picks(pick, S) == \A s \in SUBSET S : s # {} => pick[s] \in s

\* The number of elements, for induction
LEMMA Smaller ==
  ASSUME NEW s, IsFiniteSet(s), NEW x \in s
  PROVE  /\ IsFiniteSet(s \ {x})
         /\ Cardinality(s) \in Nat \ {0}
         /\ Cardinality(s \ {x}) = Cardinality(s) - 1
  <1>1. IsFiniteSet(s \ {x}) /\ Cardinality(s \ {x}) = Cardinality(s) - 1
    BY FS_RemoveElement
  <1>2. Cardinality(s) \in Nat /\ Cardinality(s) # 0
    BY FS_CardinalityType, FS_EmptySet
  <1> QED BY <1>1, <1>2

LEMMA SubsetInduction ==
  ASSUME NEW S, IsFiniteSet(S), NEW pick, Picks(pick, S),
         NEW P, {} \in P,
         \A s \in SUBSET S : s # {} /\ s \ {pick[s]} \in P => s \in P
  PROVE  SUBSET S \subseteq P
  <1> DEFINE U == {k \in Nat : \A s \in SUBSET S : Cardinality(s) = k => s \in P}
  <1>1. ASSUME NEW s \in SUBSET S PROVE IsFiniteSet(s) /\ Cardinality(s) \in Nat
    BY FS_Subset, FS_CardinalityType
  <1>2. 0 \in U
    <2>1. ASSUME NEW s \in SUBSET S, Cardinality(s) = 0 PROVE s \in P
      <3>1. s = {}
        BY <1>1, <2>1, FS_EmptySet
      <3> QED BY <3>1
    <2> QED BY <2>1
  <1>3. ASSUME NEW k \in Nat, k \in U PROVE k + 1 \in U
    <2>1. ASSUME NEW s \in SUBSET S, Cardinality(s) = k + 1 PROVE s \in P
      <3>1. s # {}
        <4>1. Cardinality({}) = 0
          BY FS_EmptySet
        <4> QED BY <2>1, <4>1
      <3>2. pick[s] \in s
        BY <3>1 DEF Picks
      <3>3. Cardinality(s \ {pick[s]}) = k
        <4>1. Cardinality(s \ {pick[s]}) = Cardinality(s) - 1
          BY <1>1, <3>2, Smaller
        <4> QED BY <2>1, <4>1
      <3>4. s \ {pick[s]} \in SUBSET S
        OBVIOUS
      <3>5. s \ {pick[s]} \in P
        BY <1>3, <3>3, <3>4
      <3> QED BY <3>1, <3>5
    <2> QED BY <2>1
  <1>4. Nat \subseteq U
    <2> HIDE DEF U
    <2> QED BY <1>2, <1>3, Induction
  <1>5. ASSUME NEW s \in SUBSET S PROVE s \in P
    BY <1>1, <1>4
  <1> QED BY <1>5

\* F gives for each subset of S what step makes of its elements, from base on.
FoldsOver(F, S, R, base, pick, step) ==
    /\ F \in [SUBSET S -> R]
    /\ F[{}] = base
    /\ \A s \in SUBSET S : s # {} => F[s] = step[<<pick[s], F[s \ {pick[s]}]>>]

LEMMA FoldsExist ==
  ASSUME NEW S, IsFiniteSet(S), NEW R, NEW base \in R, NEW pick, Picks(pick, S),
         NEW step, step \in [S \X R -> R]
  PROVE  \E F : FoldsOver(F, S, R, base, pick, step)
  <1> DEFINE Small(k) == {s \in SUBSET S : Cardinality(s) <= k}
             Good(k, F) == /\ F \in [Small(k) -> R]
                           /\ F[{}] = base
                           /\ \A s \in Small(k) :
                                s # {} => F[s] = step[<<pick[s], F[s \ {pick[s]}]>>]
             U == {k \in Nat : \E F : Good(k, F)}
  <1>0. /\ \A s \in SUBSET S : IsFiniteSet(s) /\ Cardinality(s) \in Nat
        /\ Cardinality({}) = 0
    BY FS_Subset, FS_CardinalityType, FS_EmptySet
  <1>1. 0 \in U
    <2>1. \A s \in Small(0) : s = {}
      BY <1>0, FS_EmptySet
    <2>2. {} \in Small(0)
      BY <1>0
    <2>3. Good(0, [s \in Small(0) |-> base])
      <3> HIDE DEF Small
      <3> QED BY <2>1, <2>2
    <2> QED BY <2>3
  <1>2. ASSUME NEW k \in Nat, k \in U PROVE k + 1 \in U
    <2>1. PICK F : Good(k, F)
      BY <1>2
    <2> DEFINE G == [s \in Small(k + 1) |->
                        IF Cardinality(s) <= k THEN F[s]
                        ELSE step[<<pick[s], F[s \ {pick[s]}]>>]]
    <2>2. ASSUME NEW s \in Small(k + 1), s # {}
          PROVE  /\ pick[s] \in S
                 /\ s \ {pick[s]} \in Small(k)
                 /\ s \ {pick[s]} \in Small(k + 1)
                 /\ Cardinality(s \ {pick[s]}) <= k
      <3>1. pick[s] \in s
        BY <2>2 DEF Picks
      <3>2. /\ Cardinality(s) \in Nat \ {0} /\ Cardinality(s) <= k + 1
            /\ Cardinality(s \ {pick[s]}) = Cardinality(s) - 1
        BY <1>0, <3>1, Smaller
      <3> QED BY <3>1, <3>2
    <2>3. \A s \in Small(k) : s \in Small(k + 1) /\ F[s] \in R
      BY <1>0, <2>1
    <2>4. ASSUME NEW s \in Small(k + 1) PROVE G[s] \in R
      <3>1. CASE Cardinality(s) <= k
        <4>1. s \in Small(k)
          BY <3>1
        <4> QED BY <2>3, <3>1, <4>1
      <3>2. CASE ~(Cardinality(s) <= k)
        <4>1. s # {}
          <5>1. 0 <= k /\ Cardinality({}) = 0
            BY <1>0
          <5> QED BY <3>2, <5>1
        <4>2. <<pick[s], F[s \ {pick[s]}]>> \in S \X R
          BY <2>2, <2>3, <4>1
        <4> QED BY <3>2, <4>2
      <3> QED BY <3>1, <3>2
    <2>5. {} \in Small(k + 1) /\ G[{}] = base
      BY <1>0, <2>1
    <2>6. ASSUME NEW s \in Small(k + 1), s # {}
          PROVE  G[s] = step[<<pick[s], G[s \ {pick[s]}]>>]
      <3>1. G[s \ {pick[s]}] = F[s \ {pick[s]}]
        BY <2>2, <2>6
      <3>2. G[s] = step[<<pick[s], F[s \ {pick[s]}]>>]
        <4>1. CASE Cardinality(s) <= k
          <5>1. s \in Small(k)
            BY <4>1
          <5> QED BY <2>1, <2>6, <4>1, <5>1
        <4>2. CASE ~(Cardinality(s) <= k)
          BY <4>2
        <4> QED BY <4>1, <4>2
      <3> QED BY <3>1, <3>2
    <2>7. Good(k + 1, G)
      <3> HIDE DEF Small
      <3>1. G \in [Small(k + 1) -> R]
        BY <2>4
      <3> HIDE DEF G
      <3> QED BY <2>5, <2>6, <3>1
    <2> HIDE DEF G, Good
    <2> QED BY <2>7
  <1>3. Cardinality(S) \in Nat /\ Nat \subseteq U
    <2>1. Nat \subseteq U
      <3> HIDE DEF Good
      <3> QED BY <1>1, <1>2, Induction
    <2> QED BY <1>0, <2>1
  <1>4. PICK F : Good(Cardinality(S), F)
    <2> HIDE DEF Good
    <2> QED BY <1>3
  <1>5. Small(Cardinality(S)) = SUBSET S
    BY FS_Subset
  <1> QED BY <1>4, <1>5 DEF FoldsOver

-----------------------------------------------------------------------------
(* Folds of a sequence from the left. FoldLeft() works on sets of indices  *)
(* and takes the greatest off each; lemmas give its value on 1..k.         *)

LEMMA GreatestIs ==
  ASSUME NEW n \in Nat, NEW s \in SUBSET (1..n), s # {}
  PROVE  Max(s) \in s
  <1> DEFINE U == {n - x : x \in s}
  <1>1. U \subseteq Nat /\ U # {}
    <2>1. \A x \in s : x \in 1..n /\ n - x \in Nat
      OBVIOUS
    <2>2. PICK x \in s : TRUE
      OBVIOUS
    <2> QED BY <2>1, <2>2
  <1>2. PICK u \in U : \A v \in U : u <= v
    BY <1>1, LeastOf
  <1>3. PICK x \in s : u = n - x
    BY <1>2
  <1>4. ASSUME NEW y \in s PROVE x >= y
    <2>1. u <= n - y
      BY <1>2
    <2> QED BY <1>3, <2>1
  <1> QED BY <1>4, MaxIs

\* What such a fold is for all sets of indices
LeftFolds(F, n, R, base, step) ==
    /\ F \in [SUBSET (1..n) -> R]
    /\ F[{}] = base
    /\ \A s \in SUBSET (1..n) : s # {} =>
         /\ Max(s) \in 1..n /\ s \ {Max(s)} \in SUBSET (1..n)
         /\ F[s] = step[<<Max(s), F[s \ {Max(s)}]>>]

LEMMA LeftFoldsExist ==
  ASSUME NEW n \in Nat, NEW R, NEW base \in R, NEW step, step \in Steps(n, R)
  PROVE  \E F : LeftFolds(F, n, R, base, step)
  <1> DEFINE pick == [s \in SUBSET (1..n) |-> Max(s)]
  <1>1. PICK I : I = 1..n
    OBVIOUS
  <1>2. \A s \in SUBSET (1..n) : s # {} => Max(s) \in s /\ pick[s] = Max(s)
    BY GreatestIs
  <1> HIDE DEF pick
  <1>3. IsFiniteSet(I) /\ Picks(pick, I) /\ step \in [I \X R -> R]
    BY <1>1, <1>2, FS_Interval DEF Picks, Steps
  <1>4. PICK F : FoldsOver(F, I, R, base, pick, step)
    BY <1>3, FoldsExist
  <1>5. ASSUME NEW s \in SUBSET (1..n), s # {}
        PROVE  /\ Max(s) \in 1..n /\ s \ {Max(s)} \in SUBSET (1..n)
               /\ F[s] = step[<<Max(s), F[s \ {Max(s)}]>>]
    BY <1>1, <1>2, <1>4, <1>5 DEF FoldsOver
  <1>6. F \in [SUBSET (1..n) -> R] /\ F[{}] = base
    BY <1>1, <1>4 DEF FoldsOver
  <1> QED BY <1>5, <1>6 DEF LeftFolds

\* What takes the greatest index off each set goes from left to right.
LEMMA LeftFoldIs ==
  ASSUME NEW n \in Nat, NEW R, NEW base \in R, NEW step, step \in Steps(n, R),
         NEW it, it[{}] = base,
         \A s \in SUBSET (1..n) : s # {} /\ it[s \ {Max(s)}] \in R =>
            it[s] = step[<<Max(s), it[s \ {Max(s)}]>>]
  PROVE  Follows([k \in 0..n |-> it[1..k]], n, R, base, step)
  <1> DEFINE U == {k \in Nat : k <= n => it[1..k] \in R}
             g == [k \in 0..n |-> it[1..k]]
  <1>1. ASSUME NEW k \in 1..n
        PROVE  /\ 1..k \in SUBSET (1..n) /\ 1..k # {}
               /\ Max(1..k) = k /\ (1..k) \ {k} = 1..(k - 1)
    <2>1. k \in 1..k /\ \A y \in 1..k : k >= y
      OBVIOUS
    <2>2. PICK I : I = 1..k
      OBVIOUS
    <2>3. Max(I) \in I /\ \A y \in I : Max(I) >= y
      BY <2>1, <2>2, MaxIs
    <2>4. Max(1..k) = k
      BY <2>1, <2>2, <2>3
    <2> QED BY <2>1, <2>4
  <1>2. ASSUME NEW k \in 1..n, it[1..(k - 1)] \in R
        PROVE  it[1..k] = step[<<k, it[1..(k - 1)]>>]
    <2>1. PICK I : I = 1..k
      OBVIOUS
    <2>2. I \in SUBSET (1..n) /\ I # {} /\ Max(I) = k /\ I \ {Max(I)} = 1..(k - 1)
      BY <1>1, <2>1
    <2>3. it[I] = step[<<Max(I), it[I \ {Max(I)}]>>]
      BY <1>2, <2>2
    <2> QED BY <2>1, <2>2, <2>3
  <1>3. 0 \in U
    <2>1. 1..0 = {}
      OBVIOUS
    <2> QED BY <2>1
  <1>4. ASSUME NEW k \in Nat, k \in U PROVE k + 1 \in U
    <2>1. ASSUME k + 1 <= n PROVE it[1..(k + 1)] \in R
      <3>1. k + 1 \in 1..n /\ (k + 1) - 1 = k /\ it[1..k] \in R
        BY <1>4, <2>1
      <3>2. it[1..(k + 1)] = step[<<k + 1, it[1..k]>>]
        BY <1>2, <3>1
      <3> QED BY <3>1, <3>2 DEF Steps
    <2> QED BY <2>1
  <1>5. Nat \subseteq U
    <2> HIDE DEF U
    <2> QED BY <1>3, <1>4, Induction
  <1>6. \A k \in 0..n : it[1..k] \in R /\ g[k] = it[1..k]
    BY <1>5
  <1>7. g \in [0..n -> R]
    BY <1>6
  <1>8. g[0] = base
    <2>1. 1..0 = {}
      OBVIOUS
    <2> QED BY <1>6, <2>1
  <1>9. ASSUME NEW k \in 1..n PROVE g[k] = step[<<k, g[k - 1]>>]
    <2>1. k - 1 \in 0..n /\ k \in 0..n
      OBVIOUS
    <2> HIDE DEF g
    <2> QED BY <1>2, <1>6, <2>1
  <1> QED BY <1>7, <1>8, <1>9 DEF Follows

-----------------------------------------------------------------------------
(* Sums over finite sets, which do not depend on the order of the fold *)

Some(s) == CHOOSE x \in s : TRUE

\* What MapThenSumSet computes for all subsets of S
SumsOf(h, S, F) ==
    /\ F \in [SUBSET S -> Int]
    /\ F[{}] = 0
    /\ \A s \in SUBSET S : s # {} => F[s] = h[Some(s)] + F[s \ {Some(s)}]

LEMMA SomeIs == ASSUME NEW s, s # {} PROVE Some(s) \in s
  BY DEF Some

LEMMA SumsExist ==
  ASSUME NEW S, IsFiniteSet(S), NEW h, \A x \in S : h[x] \in Int
  PROVE  \E F : SumsOf(h, S, F)
  <1> DEFINE pick == [s \in SUBSET S |-> Some(s)]
             step == [p \in S \X Int |-> h[p[1]] + p[2]]
  <1>1. Picks(pick, S)
    BY SomeIs DEF Picks
  <1>2. step \in [S \X Int -> Int]
    OBVIOUS
  <1>3. /\ \A s \in SUBSET S : pick[s] = Some(s)
        /\ \A x \in S, r \in Int : step[<<x, r>>] = h[x] + r
    OBVIOUS
  <1> HIDE DEF pick, step
  <1>4. PICK F : FoldsOver(F, S, Int, 0, pick, step)
    BY <1>1, <1>2, FoldsExist
  <1>5. ASSUME NEW s \in SUBSET S, s # {}
        PROVE  F[s] = h[Some(s)] + F[s \ {Some(s)}]
    <2>1. Some(s) \in S /\ s \ {Some(s)} \in SUBSET S
      BY <1>5, SomeIs
    <2>2. F[s \ {Some(s)}] \in Int
      BY <1>4, <2>1 DEF FoldsOver
    <2> QED BY <1>3, <1>4, <1>5, <2>1, <2>2 DEF FoldsOver
  <1> QED BY <1>4, <1>5 DEF SumsOf, FoldsOver

SumOver(h, S) == MapThenSumSet(LAMBDA x : h[x], S)

\* The fold takes the elements in one order; its values are those sums.
LEMMA SumIsFold ==
  ASSUME NEW S, IsFiniteSet(S), NEW h, \A x \in S : h[x] \in Int,
         NEW F, SumsOf(h, S, F), NEW T0 \in SUBSET S
  PROVE  SumOver(h, T0) = F[T0]
  <1> DEFINE Body(iter) == [s \in SUBSET T0 |-> IF s = {} THEN 0
                                ELSE h[Some(s)] + iter[s \ {Some(s)}]]
             it == CHOOSE iter : iter = Body(iter)
             here == [s \in SUBSET T0 |-> F[s]]
  <1>1. SumOver(h, T0) = it[T0]
    BY DEF SumOver, MapThenSumSet, MapThenFoldSet, Some
  <1>2. here = Body(here)
    <2>1. ASSUME NEW s \in SUBSET T0, s # {}
          PROVE  s \ {Some(s)} \in SUBSET T0
      OBVIOUS
    <2>2. ASSUME NEW s \in SUBSET T0
          PROVE  here[s] = IF s = {} THEN 0 ELSE h[Some(s)] + here[s \ {Some(s)}]
      <3>1. s \in SUBSET S
        OBVIOUS
      <3>2. CASE s = {}
        BY <3>2 DEF SumsOf
      <3>3. CASE s # {}
        <4>1. F[s] = h[Some(s)] + F[s \ {Some(s)}]
          BY <3>1, <3>3 DEF SumsOf
        <4>2. here[s] = F[s] /\ here[s \ {Some(s)}] = F[s \ {Some(s)}]
          BY <2>1, <3>3
        <4> QED BY <3>3, <4>1, <4>2
      <3> QED BY <3>2, <3>3
    <2> QED BY <2>2
  <1>3. it = Body(it)
    <2> HIDE DEF here, Body
    <2> QED BY <1>2
  <1>4. /\ \A s \in SUBSET T0 : s # {} => it[s] = h[Some(s)] + it[s \ {Some(s)}]
        /\ it[{}] = 0
    <2> HIDE DEF it
    <2> QED BY <1>3
  <1> HIDE DEF it, here, Body
  <1> DEFINE U == {k \in Nat : \A s \in SUBSET T0 : Cardinality(s) = k => it[s] = F[s]}
  <1>5. ASSUME NEW s \in SUBSET T0
        PROVE  IsFiniteSet(s) /\ Cardinality(s) \in Nat /\ s \in SUBSET S
    <2>1. s \in SUBSET S
      OBVIOUS
    <2> QED BY <2>1, FS_Subset, FS_CardinalityType
  <1>6. 0 \in U
    <2>1. ASSUME NEW s \in SUBSET T0, Cardinality(s) = 0 PROVE it[s] = F[s]
      <3>1. s = {}
        BY <1>5, <2>1, FS_EmptySet
      <3> QED BY <1>4, <3>1 DEF SumsOf
    <2> QED BY <2>1
  <1>7. ASSUME NEW k \in Nat, k \in U PROVE k + 1 \in U
    <2>1. ASSUME NEW s \in SUBSET T0, Cardinality(s) = k + 1 PROVE it[s] = F[s]
      <3>1. s # {}
        <4>1. Cardinality({}) = 0
          BY FS_EmptySet
        <4> QED BY <2>1, <4>1
      <3>2. Some(s) \in s /\ s \ {Some(s)} \in SUBSET T0
        BY <3>1, SomeIs
      <3>3. Cardinality(s \ {Some(s)}) = k
        <4>1. Cardinality(s \ {Some(s)}) = Cardinality(s) - 1
          BY <1>5, <3>2, Smaller
        <4> QED BY <2>1, <4>1
      <3>4. it[s \ {Some(s)}] = F[s \ {Some(s)}]
        BY <1>7, <3>2, <3>3
      <3>5. s \in SUBSET S
        BY <1>5
      <3> QED BY <1>4, <3>1, <3>4, <3>5 DEF SumsOf
    <2> QED BY <2>1
  <1>8. T0 \in SUBSET T0 /\ Cardinality(T0) \in U
    <2>1. Nat \subseteq U
      BY <1>6, <1>7, Induction
    <2> HIDE DEF U
    <2> QED BY <1>5, <2>1
  <1>9. it[T0] = F[T0]
    BY <1>8
  <1> QED BY <1>1, <1>9

\* Any element may be taken out of a sum, not only that the fold would take.
LEMMA SumsCommute ==
  ASSUME NEW S, IsFiniteSet(S), NEW h, \A x \in S : h[x] \in Int,
         NEW F, SumsOf(h, S, F)
  PROVE  \A s \in SUBSET S : \A x \in s : F[s] = F[s \ {x}] + h[x]
  <1> DEFINE Fine(s) == \A x \in s : F[s] = F[s \ {x}] + h[x]
             U == {k \in Nat : \A s \in SUBSET S : Cardinality(s) = k => Fine(s)}
  <1>0. ASSUME NEW s \in SUBSET S PROVE IsFiniteSet(s) /\ Cardinality(s) \in Nat
    BY FS_Subset, FS_CardinalityType
  <1>1. 0 \in U
    <2>1. ASSUME NEW s \in SUBSET S, Cardinality(s) = 0 PROVE Fine(s)
      <3>1. s = {}
        BY <1>0, <2>1, FS_EmptySet
      <3> QED BY <3>1
    <2> HIDE DEF Fine
    <2> QED BY <2>1
  <1>2. ASSUME NEW k \in Nat, k \in U PROVE k + 1 \in U
    <2>1. ASSUME NEW s \in SUBSET S, Cardinality(s) = k + 1, NEW x \in s
          PROVE  F[s] = F[s \ {x}] + h[x]
      <3> DEFINE c == Some(s)
      <3>1. c \in s
        BY SomeIs
      <3> HIDE DEF c
      <3>2. F[s] = h[c] + F[s \ {c}]
        BY DEF SumsOf, c
      <3>3. /\ s \ {c} \in SUBSET S /\ s \ {x} \in SUBSET S /\ (s \ {c}) \ {x} \in SUBSET S
            /\ x \in S /\ c \in S
        BY <3>1
      <3>4. /\ h[x] \in Int /\ h[c] \in Int /\ F[s] \in Int
            /\ F[s \ {c}] \in Int /\ F[s \ {x}] \in Int /\ F[(s \ {c}) \ {x}] \in Int
        BY <3>3 DEF SumsOf
      <3>5. CASE x = c
        BY <3>2, <3>4, <3>5
      <3>6. CASE x # c
        <4>1. x \in s \ {c} /\ c \in s \ {x}
          BY <3>1, <3>6
        <4>2. Cardinality(s \ {c}) = k /\ Cardinality(s \ {x}) = k
          <5>1. Cardinality(s \ {c}) = Cardinality(s) - 1
            BY <1>0, <3>1, Smaller
          <5>2. Cardinality(s \ {x}) = Cardinality(s) - 1
            BY <1>0, Smaller
          <5> QED BY <2>1, <5>1, <5>2
        <4>3. F[s \ {c}] = F[(s \ {c}) \ {x}] + h[x]
          BY <1>2, <3>3, <4>1, <4>2
        <4>4. F[s \ {x}] = F[(s \ {x}) \ {c}] + h[c]
          BY <1>2, <3>3, <4>1, <4>2
        <4>5. F[s \ {x}] = F[(s \ {c}) \ {x}] + h[c]
          <5>1. (s \ {x}) \ {c} = (s \ {c}) \ {x}
            OBVIOUS
          <5> QED BY <4>4, <5>1
        <4> QED BY <3>2, <3>4, <4>3, <4>5
      <3> QED BY <3>5, <3>6
    <2> QED BY <2>1
  <1>3. ASSUME NEW s \in SUBSET S PROVE Fine(s)
    <2>1. Nat \subseteq U
      <3> HIDE DEF Fine
      <3> QED BY <1>1, <1>2, Induction
    <2>2. Cardinality(s) \in U
      <3> HIDE DEF U
      <3> QED BY <1>0, <2>1
    <2> HIDE DEF Fine
    <2> QED BY <2>2
  <1> QED BY <1>3

\* The sum over a finite set is a number, none over the empty set, and what
\* the others sum up to and any one of its elements.
LEMMA SumRemove ==
  ASSUME NEW S, IsFiniteSet(S), NEW h, \A x \in S : h[x] \in Int
  PROVE  /\ SumOver(h, S) \in Int
         /\ S = {} => SumOver(h, S) = 0
         /\ \A y \in S : SumOver(h, S) = SumOver(h, S \ {y}) + h[y]
  <1>1. PICK F : SumsOf(h, S, F)
    BY SumsExist
  <1>2. S \in SUBSET S /\ SumOver(h, S) = F[S]
    BY <1>1, SumIsFold
  <1>3. ASSUME NEW y \in S
        PROVE  SumOver(h, S \ {y}) = F[S \ {y}]
    <2>1. S \ {y} \in SUBSET S
      OBVIOUS
    <2> QED BY <1>1, <2>1, SumIsFold
  <1>4. \A y \in S : F[S] = F[S \ {y}] + h[y]
    BY <1>1, <1>2, SumsCommute
  <1>5. F[S] \in Int /\ F[{}] = 0
    BY <1>1, <1>2 DEF SumsOf
  <1> QED BY <1>2, <1>3, <1>4, <1>5

LEMMA SumSame ==
  ASSUME NEW S, NEW g, NEW h, \A x \in S : g[x] = h[x]
  PROVE  SumOver(g, S) = SumOver(h, S)
  <1> DEFINE Body(e, iter) == [s \in SUBSET S |-> IF s = {} THEN 0
                                  ELSE e[Some(s)] + iter[s \ {Some(s)}]]
  <1>1. /\ SumOver(g, S) = (CHOOSE iter : iter = Body(g, iter))[S]
        /\ SumOver(h, S) = (CHOOSE iter : iter = Body(h, iter))[S]
    BY DEF SumOver, MapThenSumSet, MapThenFoldSet, Some
  <1>2. ASSUME NEW iter PROVE Body(g, iter) = Body(h, iter)
    <2>1. \A s \in SUBSET S : s # {} => g[Some(s)] = h[Some(s)]
      BY SomeIs
    <2> QED BY <2>1
  <1> HIDE DEF Body
  <1> QED BY <1>1, <1>2

LEMMA SumOfZeros ==
  ASSUME NEW S, IsFiniteSet(S), NEW h, \A x \in S : h[x] = 0
  PROVE  SumOver(h, S) = 0
  <1>1. PICK F : SumsOf(h, S, F)
    BY SumsExist
  <1>2. PICK pick : pick = [s \in SUBSET S |-> Some(s)]
    OBVIOUS
  <1>3. Picks(pick, S)
    BY <1>2, SomeIs DEF Picks
  <1> DEFINE P == {s \in SUBSET S : F[s] = 0}
  <1>4. {} \in P
    BY <1>1 DEF SumsOf
  <1>5. ASSUME NEW s \in SUBSET S, s # {}, s \ {pick[s]} \in P PROVE s \in P
    <2>1. F[s] = h[Some(s)] + F[s \ {Some(s)}] /\ pick[s] = Some(s) /\ Some(s) \in S
      BY <1>1, <1>2, <1>5, SomeIs DEF SumsOf
    <2> QED BY <1>5, <2>1
  <1>6. SUBSET S \subseteq P
    <2> HIDE DEF P
    <2> QED BY <1>3, <1>4, <1>5, SubsetInduction
  <1>7. SumOver(h, S) = F[S]
    BY <1>1, SumIsFold
  <1> QED BY <1>6, <1>7

-----------------------------------------------------------------------------
(* The greatest common divisor *)

Divides(c, n) == \E k \in Int : n = c * k
CommonDivisors(a, b) == {c \in Nat \ {0} : Divides(c, a) /\ Divides(c, b)}
Greatest(S) == CHOOSE c \in S : \A e \in S : e <= c

\* Euclid's step loses no common divisor and adds none.
LEMMA RemainderDivisors ==
  ASSUME NEW a \in Nat, NEW b \in Nat \ {0}
  PROVE  /\ a % b \in 0..(b - 1)
         /\ CommonDivisors(a, b) = CommonDivisors(b, a % b)
  <1> DEFINE q == a \div b
             r == a % b
  <1>1. q \in Int /\ r \in 0..(b - 1) /\ a = b * q + r
    OBVIOUS
  <1> HIDE DEF q, r
  <1>2. ASSUME NEW c \in Nat \ {0}, Divides(c, b)
        PROVE  Divides(c, a) <=> Divides(c, r)
    <2>1. PICK k \in Int : b = c * k
      BY <1>2 DEF Divides
    <2>2. ASSUME NEW m \in Int, a = c * m PROVE Divides(c, r)
      <3>1. r = c * (m - k * q)
        <4>1. r = c * m - (c * k) * q
          BY <1>1, <2>1, <2>2
        <4> QED BY <1>1, <4>1
      <3>2. m - k * q \in Int
        BY <1>1
      <3> QED BY <3>1, <3>2 DEF Divides
    <2>3. ASSUME NEW m \in Int, r = c * m PROVE Divides(c, a)
      <3>1. a = c * (k * q + m)
        <4>1. a = (c * k) * q + c * m
          BY <1>1, <2>1, <2>3
        <4> QED BY <1>1, <4>1
      <3>2. k * q + m \in Int
        BY <1>1
      <3> QED BY <3>1, <3>2 DEF Divides
    <2> QED BY <2>2, <2>3 DEF Divides
  <1>3. CommonDivisors(a, b) = CommonDivisors(b, r)
    BY <1>2 DEF CommonDivisors
  <1> QED BY <1>1, <1>3 DEF r

LEMMA DivisorIsSmaller ==
  ASSUME NEW c \in Nat \ {0}, NEW a \in Nat \ {0}, Divides(c, a)
  PROVE  c <= a
  <1>1. PICK k \in Int : a = c * k
    BY DEF Divides
  <1>2. k >= 1
    <2> SUFFICES ASSUME k <= 0 PROVE FALSE
      OBVIOUS
    <2>1. c * k <= 0
      OBVIOUS
    <2> QED BY <1>1, <2>1
  <1>3. c * k >= c
    BY <1>2
  <1> QED BY <1>1, <1>3

LEMMA DividesItself ==
  ASSUME NEW a \in Nat
  PROVE  Divides(a, a) /\ Divides(a, 0)
  <1>1. a = a * 1 /\ 0 = a * 0
    OBVIOUS
  <1> QED BY <1>1 DEF Divides

\* The recursive function exists, and is Euclid's algorithm.
LEMMA GcdStep ==
  ASSUME NEW a \in Nat, NEW b \in Nat
  PROVE  Gcd[<<a, b>>] = IF b = 0 THEN a ELSE Gcd[<<b, a % b>>]
  <1> DEFINE Body(f) == [p \in Nat \X Nat |->
                           IF p[2] = 0 THEN p[1] ELSE f[<<p[2], p[1] % p[2]>>]]
             it == CHOOSE f : f = Body(f)
             great == [p \in Nat \X Nat |->
                         IF p[2] = 0 THEN p[1] ELSE Greatest(CommonDivisors(p[1], p[2]))]
  <1>1. Gcd = it
    BY DEF Gcd
  <1>2. ASSUME NEW p \in Nat \X Nat, p[2] # 0
        PROVE  great[p] = great[<<p[2], p[1] % p[2]>>]
    <2>1. PICK c \in Nat, d \in Nat \ {0} : c = p[1] /\ d = p[2]
      BY <1>2
    <2>2. c % d \in 0..(d - 1) /\ CommonDivisors(c, d) = CommonDivisors(d, c % d)
      BY RemainderDivisors
    <2>3. great[p] = Greatest(CommonDivisors(c, d)) /\ <<d, c % d>> \in Nat \X Nat
      BY <2>1, <2>2
    <2>4. CASE c % d # 0
      BY <2>1, <2>2, <2>3, <2>4
    <2>5. CASE c % d = 0
      <3>1. great[<<d, c % d>>] = d
        BY <2>3, <2>5
      <3>2. d \in CommonDivisors(d, 0)
        BY DividesItself DEF CommonDivisors
      <3>3. \A e \in CommonDivisors(d, 0) : e <= d /\ e \in Nat
        BY DivisorIsSmaller DEF CommonDivisors
      <3>4. Greatest(CommonDivisors(d, 0)) = d
        BY <3>2, <3>3 DEF Greatest
      <3> QED BY <2>1, <2>2, <2>3, <2>5, <3>1, <3>4
    <2> QED BY <2>4, <2>5
  <1>3. great = Body(great)
    <2>1. \A p \in Nat \X Nat : p[2] = 0 => great[p] = p[1]
      OBVIOUS
    <2>2. great = [p \in Nat \X Nat |-> great[p]]
      OBVIOUS
    <2>3. \A p \in Nat \X Nat :
            great[p] = IF p[2] = 0 THEN p[1] ELSE great[<<p[2], p[1] % p[2]>>]
      BY <1>2, <2>1
    <2> HIDE DEF great
    <2> QED BY <2>2, <2>3
  <1>4. it = Body(it)
    <2> HIDE DEF great, Body
    <2> QED BY <1>3
  <1>5. it = [p \in Nat \X Nat |->
                IF p[2] = 0 THEN p[1] ELSE it[<<p[2], p[1] % p[2]>>]]
    BY <1>4
  <1> HIDE DEF it, Body
  <1>6. <<a, b>> \in Nat \X Nat
    OBVIOUS
  <1> QED BY <1>1, <1>5, <1>6

LEMMA GcdIsGreatest ==
  ASSUME NEW a \in Nat, NEW b \in Nat, a # 0 \/ b # 0
  PROVE  /\ Gcd[<<a, b>>] \in CommonDivisors(a, b)
         /\ \A c \in CommonDivisors(a, b) : c <= Gcd[<<a, b>>]
  <1> DEFINE Fine(x, y) == /\ Gcd[<<x, y>>] \in CommonDivisors(x, y)
                           /\ \A c \in CommonDivisors(x, y) : c <= Gcd[<<x, y>>]
             U == {k \in Nat : \A x \in Nat, y \in 0..k : x # 0 \/ y # 0 => Fine(x, y)}
  <1>1. ASSUME NEW x \in Nat \ {0} PROVE Fine(x, 0)
    <2>1. Gcd[<<x, 0>>] = x
      BY GcdStep
    <2>2. x \in CommonDivisors(x, 0)
      BY DividesItself DEF CommonDivisors
    <2>3. \A c \in CommonDivisors(x, 0) : c <= x
      BY DivisorIsSmaller DEF CommonDivisors
    <2> QED BY <2>1, <2>2, <2>3
  <1>2. 0 \in U
    <2>1. \A y \in 0..0 : y = 0
      OBVIOUS
    <2> HIDE DEF Fine
    <2> QED BY <1>1, <2>1
  <1>3. ASSUME NEW k \in Nat, k \in U PROVE k + 1 \in U
    <2>1. ASSUME NEW x \in Nat, NEW y \in 0..(k + 1), x # 0 \/ y # 0
          PROVE  Fine(x, y)
      <3>1. CASE y = 0
        <4> HIDE DEF Fine
        <4> QED BY <1>1, <2>1, <3>1
      <3>2. CASE y # 0
        <4>1. y \in Nat \ {0} /\ Gcd[<<x, y>>] = Gcd[<<y, x % y>>]
          BY <3>2, GcdStep
        <4>2. x % y \in 0..(y - 1) /\ CommonDivisors(x, y) = CommonDivisors(y, x % y)
          BY <4>1, RemainderDivisors
        <4>3. x % y \in 0..k
          BY <4>1, <4>2
        <4>4. Fine(y, x % y)
          <5> HIDE DEF Fine
          <5> QED BY <1>3, <4>1, <4>3
        <4> QED BY <4>1, <4>2, <4>4
      <3> QED BY <3>1, <3>2
    <2> HIDE DEF Fine
    <2> QED BY <2>1
  <1>4. b \in U
    <2> HIDE DEF Fine
    <2>1. Nat \subseteq U
      BY <1>2, <1>3, Induction
    <2> QED BY <2>1
  <1>5. Fine(a, b)
    <2>1. b \in 0..b
      OBVIOUS
    <2> HIDE DEF Fine
    <2> QED BY <1>4, <2>1
  <1> QED BY <1>5

-----------------------------------------------------------------------------
(* Fractions in lowest terms. Two are equal if they stand for the same     *)
(* ratio, so an identity of fractions is one of integers.                  *)

LEMMA Cancel ==
  ASSUME NEW c \in Int, c # 0, NEW x \in Int, NEW y \in Int, c * x = c * y
  PROVE  x = y
  OBVIOUS

LEMMA ExactQuotient ==
  ASSUME NEW g \in Nat \ {0}, NEW k \in Int
  PROVE  (g * k) \div g = k
  OBVIOUS

\* Of the pairs of one ratio Frac() is the one with the least denominator.
LowestTerms(x, n, d) ==
    /\ x \in Int \X (Nat \ {0})
    /\ x[1] * d = n * x[2]
    /\ \A p \in Int, q \in Nat \ {0} : p * d = n * q => x[2] <= q

LEMMA FracIsLowest ==
  ASSUME NEW n \in Int, NEW d \in Int \ {0}
  PROVE  LowestTerms(Frac(n, d), n, d)
  <1> DEFINE sn == (IF d < 0 THEN -1 ELSE 1) * n
             g == Gcd[<<Abs(n), Abs(d)>>]
  <1>1. /\ Abs(n) \in Nat /\ Abs(d) \in Nat \ {0}
        /\ sn \in Int
        /\ sn = Abs(n) \/ sn = -Abs(n)
        /\ \/ sn = n /\ Abs(d) = d
           \/ sn = -n /\ Abs(d) = -d
    BY DEF Abs
  <1>2. PICK a \in Nat, b \in Nat \ {0} : a = Abs(n) /\ b = Abs(d)
    BY <1>1
  <1>3. g \in CommonDivisors(a, b) /\ \A c \in CommonDivisors(a, b) : c <= g
    BY <1>2, GcdIsGreatest
  <1>4. Frac(n, d) = <<sn \div g, b \div g>>
    BY <1>2 DEF Frac
  <1> HIDE DEF sn, g
  <1>5. PICK k \in Int, q \in Int : g \in Nat \ {0} /\ a = g * k /\ b = g * q
    BY <1>3 DEF CommonDivisors, Divides
  <1>6. PICK p \in Int : sn = g * p /\ (p = k \/ p = -k)
    <2>1. CASE sn = a
      BY <1>5, <2>1
    <2>2. CASE sn = -a
      <3>1. -a = g * (-k)
        BY <1>5
      <3> QED BY <2>2, <3>1
    <2> QED BY <1>1, <1>2, <2>1, <2>2
  <1>7. Frac(n, d) = <<p, q>>
    BY <1>4, <1>5, <1>6, ExactQuotient
  <1>8. q \in Nat \ {0}
    <2>1. ~(q <= 0)
      <3> SUFFICES ASSUME q <= 0 PROVE FALSE
        OBVIOUS
      <3>1. g * q <= 0
        BY <1>5
      <3> QED BY <1>5, <3>1
    <2> QED BY <2>1
  <1>9. p * b = sn * q
    <2>1. p * (g * q) = (g * p) * q
      BY <1>5
    <2> QED BY <1>5, <1>6, <2>1
  <1>10. \A m \in Int, e \in Int : m * d = n * e <=> m * b = sn * e
    BY <1>1, <1>2
  <1>11. p * d = n * q
    BY <1>9, <1>10
  <1> DEFINE D == {e \in Nat \ {0} : \E m \in Int : m * b = sn * e}
  <1>12. PICK q0 \in D : \A e \in D : q0 <= e
    <2>1. q \in D
      BY <1>8, <1>9
    <2> HIDE DEF D
    <2>2. D \subseteq Nat
      BY DEF D
    <2> QED BY <2>1, <2>2, LeastOf
  <1>13. PICK p0 \in Int : p0 * b = sn * q0
    BY <1>12
  <1>14. q0 \in Nat \ {0}
    BY <1>12
  <1>15. p0 * q = p * q0
    <2>1. g * (p0 * q) = g * (p * q0)
      <3>1. p0 * (g * q) = (g * p) * q0
        BY <1>5, <1>6, <1>13
      <3> QED BY <1>5, <1>14, <3>1
    <2>2. p0 * q \in Int /\ p * q0 \in Int
      BY <1>14
    <2> HIDE DEF D
    <2> QED BY <1>5, <2>1, <2>2, Cancel
  <1>16. PICK m \in Int, r \in 0..(q0 - 1) : q = q0 * m + r
    BY <1>8, <1>14, Division
  <1>17. r = 0
    <2> SUFFICES ASSUME r # 0 PROVE FALSE
      OBVIOUS
    <2>1. (p - p0 * m) * b = sn * r
      <3>1. p0 * b * m = sn * q0 * m
        BY <1>13
      <3>2. (p - p0 * m) * b = p * b - p0 * b * m
        BY <1>2
      <3>3. sn * r = sn * q - sn * q0 * m
        BY <1>1, <1>14, <1>16
      <3> QED BY <1>9, <3>1, <3>2, <3>3
    <2>2. r \in D
      BY <1>14, <1>16, <2>1
    <2> HIDE DEF D
    <2>3. q0 <= r
      BY <1>12, <2>2
    <2> QED BY <1>14, <1>16, <2>3
  <1>18. q = q0 * m
    BY <1>14, <1>16, <1>17
  <1>19. p = p0 * m
    <2>1. q0 * p = q0 * (p0 * m)
      <3>1. p0 * (q0 * m) = p * q0
        BY <1>15, <1>18
      <3> QED BY <1>14, <3>1
    <2> HIDE DEF D
    <2>2. p0 * m \in Int
      OBVIOUS
    <2> QED BY <1>14, <2>1, <2>2, Cancel
  <1>20. m >= 1
    <2> SUFFICES ASSUME m <= 0 PROVE FALSE
      OBVIOUS
    <2>1. q0 * m <= 0
      BY <1>14
    <2> QED BY <1>8, <1>18, <2>1
  <1>21. g * m \in CommonDivisors(a, b)
    <2>1. g * m \in Nat \ {0}
      BY <1>5, <1>20
    <2>2. b = (g * m) * q0
      BY <1>5, <1>14, <1>18
    <2>3. sn = (g * m) * p0
      BY <1>5, <1>6, <1>19
    <2>4. -sn = (g * m) * (-p0)
      BY <2>1, <2>3
    <2>5. a = sn \/ a = -sn
      BY <1>1, <1>2
    <2>6. \E c \in Int : a = (g * m) * c
      BY <2>3, <2>4, <2>5
    <2> QED BY <1>14, <2>1, <2>2, <2>6 DEF CommonDivisors, Divides
  <1>22. m = 1
    <2>1. g * m <= g
      BY <1>3, <1>21
    <2> SUFFICES ASSUME m >= 2 PROVE FALSE
      BY <1>20
    <2>2. g * m >= g * 2
      BY <1>5
    <2> QED BY <1>5, <2>1, <2>2
  <1>23. q = q0
    BY <1>14, <1>18, <1>22
  <1>24. ASSUME NEW m2 \in Int, NEW e \in Nat \ {0}, m2 * d = n * e PROVE q <= e
    <2>1. m2 * b = sn * e
      <3>1. e \in Int
        OBVIOUS
      <3> HIDE DEF D
      <3> QED BY <1>10, <1>24, <3>1
    <2>2. e \in D
      BY <2>1
    <2> HIDE DEF D
    <2> QED BY <1>12, <1>23, <2>2
  <1> HIDE DEF D
  <1>25. LowestTerms(<<p, q>>, n, d)
    <2>1. <<p, q>>[1] = p /\ <<p, q>>[2] = q
      OBVIOUS
    <2>2. \A m2 \in Int, e \in Nat \ {0} : m2 * d = n * e => q <= e
      BY <1>24
    <2> QED BY <1>8, <1>11, <2>1, <2>2 DEF LowestTerms
  <1> QED BY <1>7, <1>25

LEMMA LowestIs ==
  ASSUME NEW x, NEW n, NEW d, LowestTerms(x, n, d)
  PROVE  \E p \in Int, q \in Nat \ {0} :
            x = <<p, q>> /\ p * d = n * q
  <1>1. /\ x[1] \in Int /\ x[2] \in Nat \ {0} /\ x = <<x[1], x[2]>>
        /\ x[1] * d = n * x[2]
    BY DEF LowestTerms
  <1> QED BY <1>1

\* Pairs of one ratio have the same lowest terms.
LEMMA LowestIsUnique ==
  ASSUME NEW n \in Int, NEW d \in Int \ {0}, NEW m \in Int, NEW e \in Int \ {0},
         n * e = m * d,
         NEW x, LowestTerms(x, n, d), NEW y, LowestTerms(y, m, e)
  PROVE  x = y
  <1>1. PICK p1 \in Int, q1 \in Nat \ {0} : x = <<p1, q1>> /\ p1 * d = n * q1
    BY LowestIs
  <1>2. PICK p2 \in Int, q2 \in Nat \ {0} : y = <<p2, q2>> /\ p2 * e = m * q2
    BY LowestIs
  <1>3. p2 * d = n * q2
    <2>1. e * (p2 * d) = e * (n * q2)
      <3>1. (p2 * e) * d = (m * q2) * d
        BY <1>2
      <3>2. (m * d) * q2 = (n * e) * q2
        OBVIOUS
      <3> QED BY <3>1, <3>2
    <2>2. p2 * d \in Int /\ n * q2 \in Int
      OBVIOUS
    <2> QED BY <2>1, <2>2, Cancel
  <1>4. p1 * e = m * q1
    <2>1. d * (p1 * e) = d * (m * q1)
      <3>1. (p1 * d) * e = (n * q1) * e
        BY <1>1
      <3>2. (n * e) * q1 = (m * d) * q1
        OBVIOUS
      <3> QED BY <3>1, <3>2
    <2>2. p1 * e \in Int /\ m * q1 \in Int
      OBVIOUS
    <2> QED BY <2>1, <2>2, Cancel
  <1>5. q1 = q2
    <2>1. x[2] = q1 /\ y[2] = q2
      BY <1>1, <1>2
    <2>2. q1 <= q2
      BY <1>3, <2>1 DEF LowestTerms
    <2>3. q2 <= q1
      BY <1>4, <2>1 DEF LowestTerms
    <2> QED BY <2>2, <2>3
  <1>6. p1 = p2
    <2>1. d * p1 = d * p2
      BY <1>1, <1>3, <1>5
    <2> QED BY <2>1, Cancel
  <1> QED BY <1>1, <1>2, <1>5, <1>6

\* The fractions, and those above zero
Rationals == {Frac(n, d) : n \in Int, d \in Int \ {0}}
Positive == {x \in Rationals : x[1] > 0}

\* x stands for n divided by d.
Ratio(x, n, d) == x \in Rationals /\ n \in Int /\ d \in Int \ {0} /\ x[1] * d = n * x[2]

LEMMA RationalIs ==
  ASSUME NEW x \in Rationals
  PROVE  /\ x \in Int \X (Nat \ {0})
         /\ x[1] \in Int /\ x[2] \in Nat \ {0} /\ x[2] \in Int \ {0}
         /\ x = <<x[1], x[2]>>
         /\ Ratio(x, x[1], x[2])
  <1>1. PICK n \in Int, d \in Int \ {0} : x = Frac(n, d)
    BY DEF Rationals
  <1>2. LowestTerms(x, n, d)
    BY <1>1, FracIsLowest
  <1>3. x \in Int \X (Nat \ {0})
    BY <1>2 DEF LowestTerms
  <1> QED BY <1>3 DEF Ratio

LEMMA FracRatio ==
  ASSUME NEW n \in Int, NEW d \in Int \ {0}
  PROVE  Ratio(Frac(n, d), n, d)
  <1>1. Frac(n, d) \in Rationals
    BY DEF Rationals
  <1>2. LowestTerms(Frac(n, d), n, d)
    BY FracIsLowest
  <1> QED BY <1>1, <1>2 DEF LowestTerms, Ratio

\* Fractions are equal if their ratios are.
LEMMA SameRatio ==
  ASSUME NEW x, NEW n, NEW d, Ratio(x, n, d), NEW y, NEW m, NEW e, Ratio(y, m, e),
         n * e = m * d
  PROVE  x = y
  <1>1. PICK n1 \in Int, d1 \in Int \ {0} : x = Frac(n1, d1)
    BY DEF Rationals, Ratio
  <1>2. PICK n2 \in Int, d2 \in Int \ {0} : y = Frac(n2, d2)
    BY DEF Rationals, Ratio
  <1>3. LowestTerms(x, n1, d1) /\ LowestTerms(y, n2, d2)
    BY <1>1, <1>2, FracIsLowest
  <1>4. PICK a \in Int, b \in Nat \ {0}, r \in Int, s \in Nat \ {0} :
          /\ x = <<a, b>> /\ a * d1 = n1 * b
          /\ y = <<r, s>> /\ r * d2 = n2 * s
    BY <1>3 DEF LowestTerms
  <1>5. /\ n \in Int /\ m \in Int /\ d \in Int \ {0} /\ e \in Int \ {0}
        /\ a * d = n * b /\ r * e = m * s
    BY <1>4 DEF Ratio
  <1>6. a * s = r * b
    <2>1. (d * e) * (a * s) = (d * e) * (r * b)
      <3>1. (a * d) * (e * s) = (n * b) * (e * s)
        BY <1>5
      <3>2. (r * e) * (d * b) = (m * s) * (d * b)
        BY <1>5
      <3>3. (n * e) * (b * s) = (m * d) * (b * s)
        BY <1>5
      <3> QED BY <1>5, <3>1, <3>2, <3>3
    <2>2. d * e \in Int /\ d * e # 0 /\ a * s \in Int /\ r * b \in Int
      BY <1>5
    <2> QED BY <2>1, <2>2, Cancel
  <1>7. n1 * d2 = n2 * d1
    <2>1. (b * s) * (n1 * d2) = (b * s) * (n2 * d1)
      <3>1. (a * d1) * (s * d2) = (n1 * b) * (s * d2)
        BY <1>4
      <3>2. (r * d2) * (b * d1) = (n2 * s) * (b * d1)
        BY <1>4
      <3>3. (a * s) * (d1 * d2) = (r * b) * (d1 * d2)
        BY <1>6
      <3> QED BY <3>1, <3>2, <3>3
    <2>2. b * s \in Int /\ b * s # 0 /\ n1 * d2 \in Int /\ n2 * d1 \in Int
      OBVIOUS
    <2> QED BY <2>1, <2>2, Cancel
  <1> QED BY <1>3, <1>7, LowestIsUnique

LEMMA WholeRatio ==
  ASSUME NEW n \in Int
  PROVE  Ratio(Whole(n), n, 1)
  <1>1. LowestTerms(Frac(n, 1), n, 1)
    BY FracIsLowest
  <1>2. PICK p \in Int, q \in Nat \ {0} : Frac(n, 1) = <<p, q>> /\ p * 1 = n * q /\ q <= 1
    BY <1>1 DEF LowestTerms
  <1>3. q = 1 /\ p = n
    BY <1>2
  <1>4. Whole(n) = Frac(n, 1)
    BY <1>2, <1>3 DEF Whole
  <1> QED BY <1>4, FracRatio

LEMMA PlusRatio ==
  ASSUME NEW x \in Rationals, NEW y \in Rationals
  PROVE  /\ Ratio(Plus(x, y), x[1] * y[2] + y[1] * x[2], x[2] * y[2])
         /\ Plus(x, y) \in Rationals
  <1>1. /\ x[1] * y[2] + y[1] * x[2] \in Int
        /\ x[2] * y[2] \in Int \ {0}
    BY RationalIs
  <1> QED BY <1>1, FracRatio DEF Plus, Ratio

LEMMA TimesRatio ==
  ASSUME NEW x \in Rationals, NEW y \in Rationals
  PROVE  /\ Ratio(Times(x, y), x[1] * y[1], x[2] * y[2])
         /\ Times(x, y) \in Rationals
  <1>1. x[1] * y[1] \in Int /\ x[2] * y[2] \in Int \ {0}
    BY RationalIs
  <1> QED BY <1>1, FracRatio DEF Times, Ratio

LEMMA OverRatio ==
  ASSUME NEW x \in Rationals, NEW y \in Rationals, y[1] # 0
  PROVE  /\ Ratio(Over(x, y), x[1] * y[2], x[2] * y[1])
         /\ Over(x, y) \in Rationals
  <1>1. x[1] * y[2] \in Int /\ x[2] * y[1] \in Int \ {0}
    BY RationalIs
  <1> QED BY <1>1, FracRatio DEF Over, Ratio

\* The same with any pairs of the ratios of x and y.
LEMMA PlusOf ==
  ASSUME NEW x, NEW n, NEW d, Ratio(x, n, d), NEW y, NEW m, NEW e, Ratio(y, m, e)
  PROVE  Ratio(Plus(x, y), n * e + m * d, d * e)
  <1>1. PICK p1 \in Int, q1 \in Nat \ {0} : p1 = x[1] /\ q1 = x[2] /\ p1 * d = n * q1
    BY RationalIs DEF Ratio
  <1>2. PICK p2 \in Int, q2 \in Nat \ {0} : p2 = y[1] /\ q2 = y[2] /\ p2 * e = m * q2
    BY RationalIs DEF Ratio
  <1>3. n \in Int /\ d \in Int \ {0} /\ m \in Int /\ e \in Int \ {0}
    BY DEF Ratio
  <1>4. Ratio(Plus(x, y), p1 * q2 + p2 * q1, q1 * q2)
    BY <1>1, <1>2, PlusRatio DEF Ratio
  <1>5. PICK p \in Int, q \in Nat \ {0} :
          p = Plus(x, y)[1] /\ q = Plus(x, y)[2] /\ p * (q1 * q2) = (p1 * q2 + p2 * q1) * q
    BY <1>4, RationalIs DEF Ratio
  <1>6. p * (d * e) = (n * e + m * d) * q
    <2>1. (q1 * q2) * (p * (d * e)) = (q1 * q2) * ((n * e + m * d) * q)
      <3>1. (q1 * q2) * (p * (d * e)) = (p * (q1 * q2)) * (d * e)
        BY <1>3
      <3>2. (p * (q1 * q2)) * (d * e) = ((p1 * d) * (q2 * e) + (p2 * e) * (q1 * d)) * q
        <4>1. (p * (q1 * q2)) * (d * e) = ((p1 * q2 + p2 * q1) * q) * (d * e)
          BY <1>5
        <4>2. ((p1 * q2 + p2 * q1) * q) * (d * e)
                = ((p1 * d) * (q2 * e) + (p2 * e) * (q1 * d)) * q
          BY <1>3
        <4> QED BY <4>1, <4>2
      <3>3. ((p1 * d) * (q2 * e) + (p2 * e) * (q1 * d)) * q
              = ((n * q1) * (q2 * e) + (m * q2) * (q1 * d)) * q
        BY <1>1, <1>2
      <3>4. ((n * q1) * (q2 * e) + (m * q2) * (q1 * d)) * q
              = (q1 * q2) * ((n * e + m * d) * q)
        BY <1>3
      <3> QED BY <3>1, <3>2, <3>3, <3>4
    <2>2. /\ q1 * q2 \in Int /\ q1 * q2 # 0
          /\ p * (d * e) \in Int /\ (n * e + m * d) * q \in Int
      BY <1>3
    <2> QED BY <2>1, <2>2, Cancel
  <1>7. n * e + m * d \in Int /\ d * e \in Int \ {0}
    BY <1>3
  <1> QED BY <1>4, <1>5, <1>6, <1>7 DEF Ratio

LEMMA TimesOf ==
  ASSUME NEW x, NEW n, NEW d, Ratio(x, n, d), NEW y, NEW m, NEW e, Ratio(y, m, e)
  PROVE  Ratio(Times(x, y), n * m, d * e)
  <1>1. PICK p1 \in Int, q1 \in Nat \ {0} : p1 = x[1] /\ q1 = x[2] /\ p1 * d = n * q1
    BY RationalIs DEF Ratio
  <1>2. PICK p2 \in Int, q2 \in Nat \ {0} : p2 = y[1] /\ q2 = y[2] /\ p2 * e = m * q2
    BY RationalIs DEF Ratio
  <1>3. n \in Int /\ d \in Int \ {0} /\ m \in Int /\ e \in Int \ {0}
    BY DEF Ratio
  <1>4. Ratio(Times(x, y), p1 * p2, q1 * q2)
    BY <1>1, <1>2, TimesRatio DEF Ratio
  <1>5. PICK p \in Int, q \in Nat \ {0} :
          p = Times(x, y)[1] /\ q = Times(x, y)[2] /\ p * (q1 * q2) = (p1 * p2) * q
    BY <1>4, RationalIs DEF Ratio
  <1>6. p * (d * e) = (n * m) * q
    <2>1. (q1 * q2) * (p * (d * e)) = (q1 * q2) * ((n * m) * q)
      <3>1. (p * (q1 * q2)) * (d * e) = ((p1 * p2) * q) * (d * e)
        BY <1>5
      <3>2. ((p1 * d) * (p2 * e)) * q = ((n * q1) * (m * q2)) * q
        BY <1>1, <1>2
      <3>3. (q1 * q2) * (p * (d * e)) = (p * (q1 * q2)) * (d * e)
        BY <1>3
      <3>4. ((p1 * p2) * q) * (d * e) = ((p1 * d) * (p2 * e)) * q
        BY <1>3
      <3>5. ((n * q1) * (m * q2)) * q = (q1 * q2) * ((n * m) * q)
        BY <1>3
      <3> QED BY <3>1, <3>2, <3>3, <3>4, <3>5
    <2>2. /\ q1 * q2 \in Int /\ q1 * q2 # 0
          /\ p * (d * e) \in Int /\ (n * m) * q \in Int
      BY <1>3
    <2> QED BY <2>1, <2>2, Cancel
  <1>7. n * m \in Int /\ d * e \in Int \ {0}
    BY <1>3
  <1> QED BY <1>4, <1>5, <1>6, <1>7 DEF Ratio

LEMMA ZeroIs ==
  ASSUME NEW x \in Rationals
  PROVE  x[1] = 0 <=> x = Whole(0)
  <1>1. Ratio(x, x[1], x[2]) /\ Ratio(Whole(0), 0, 1) /\ x[2] \in Int
    BY RationalIs, WholeRatio
  <1>2. ASSUME x[1] = 0 PROVE x = Whole(0)
    <2>1. x[1] * 1 = 0 * x[2]
      BY <1>1, <1>2
    <2> QED BY <1>1, <2>1, SameRatio
  <1>3. Whole(0)[1] = 0
    BY DEF Whole
  <1> QED BY <1>2, <1>3

\* Times() is associative and commutative and distributes over Plus().
LEMMA TimesLaws ==
  ASSUME NEW x \in Rationals, NEW y \in Rationals, NEW z \in Rationals
  PROVE  /\ Times(x, y) \in Rationals
         /\ Times(x, y) = Times(y, x)
         /\ Times(Times(x, y), z) = Times(x, Times(y, z))
         /\ Times(x, Plus(y, z)) = Plus(Times(x, y), Times(x, z))
         /\ Times(Whole(1), x) = x
         /\ Times(x, Whole(0)) = Whole(0)
  <1>1. PICK a \in Int, b \in Int \ {0} : Ratio(x, a, b)
    BY RationalIs
  <1>2. PICK c \in Int, d \in Int \ {0} : Ratio(y, c, d)
    BY RationalIs
  <1>3. PICK e \in Int, f \in Int \ {0} : Ratio(z, e, f)
    BY RationalIs
  <1>4. Ratio(Times(x, y), a * c, b * d) /\ Ratio(Times(y, x), c * a, d * b)
    BY <1>1, <1>2, TimesOf
  <1>5. Ratio(Times(y, z), c * e, d * f) /\ Ratio(Times(x, z), a * e, b * f)
    BY <1>1, <1>2, <1>3, TimesOf
  <1>6. Times(x, y) = Times(y, x)
    <2>1. (a * c) * (d * b) = (c * a) * (b * d)
      OBVIOUS
    <2> QED BY <1>4, <2>1, SameRatio
  <1>7. Times(Times(x, y), z) = Times(x, Times(y, z))
    <2>1. Ratio(Times(Times(x, y), z), (a * c) * e, (b * d) * f)
      BY <1>3, <1>4, TimesOf
    <2>2. Ratio(Times(x, Times(y, z)), a * (c * e), b * (d * f))
      BY <1>1, <1>5, TimesOf
    <2>3. ((a * c) * e) * (b * (d * f)) = (a * (c * e)) * ((b * d) * f)
      OBVIOUS
    <2> QED BY <2>1, <2>2, <2>3, SameRatio
  <1>8. Times(x, Plus(y, z)) = Plus(Times(x, y), Times(x, z))
    <2>1. Ratio(Plus(y, z), c * f + e * d, d * f)
      BY <1>2, <1>3, PlusOf
    <2>2. Ratio(Times(x, Plus(y, z)), a * (c * f + e * d), b * (d * f))
      BY <1>1, <2>1, TimesOf
    <2>3. Ratio(Plus(Times(x, y), Times(x, z)),
                (a * c) * (b * f) + (a * e) * (b * d), (b * d) * (b * f))
      BY <1>4, <1>5, PlusOf
    <2>4. (a * (c * f + e * d)) * ((b * d) * (b * f))
            = ((a * c) * (b * f) + (a * e) * (b * d)) * (b * (d * f))
      OBVIOUS
    <2> QED BY <2>2, <2>3, <2>4, SameRatio
  <1>9. Times(Whole(1), x) = x
    <2>1. Ratio(Times(Whole(1), x), 1 * a, 1 * b)
      BY <1>1, WholeRatio, TimesOf
    <2>2. (1 * a) * b = a * (1 * b)
      OBVIOUS
    <2> QED BY <1>1, <2>1, <2>2, SameRatio
  <1>10. Times(x, Whole(0)) = Whole(0)
    <2>1. Ratio(Times(x, Whole(0)), a * 0, b * 1) /\ Ratio(Whole(0), 0, 1)
      BY <1>1, WholeRatio, TimesOf
    <2>2. (a * 0) * 1 = 0 * (b * 1)
      OBVIOUS
    <2> QED BY <2>1, <2>2, SameRatio
  <1>11. Times(x, y) \in Rationals
    BY <1>4 DEF Ratio
  <1> QED BY <1>6, <1>7, <1>8, <1>9, <1>10, <1>11

\* Division undoes multiplication, and the other way round.
LEMMA OverUndoes ==
  ASSUME NEW x \in Rationals, NEW y \in Rationals, y # Whole(0)
  PROVE  /\ Over(x, y) \in Rationals
         /\ Times(y, Over(x, y)) = x
         /\ Times(Over(x, y), y) = x
         /\ Over(Times(x, y), y) = x
  <1>1. PICK a \in Int, b \in Nat \ {0} : a = x[1] /\ b = x[2] /\ Ratio(x, a, b)
    BY RationalIs
  <1>2. PICK c \in Int, d \in Nat \ {0} : c = y[1] /\ d = y[2] /\ Ratio(y, c, d)
    BY RationalIs
  <1>3. c # 0
    BY <1>2, ZeroIs
  <1>4. Ratio(Over(x, y), a * d, b * c) /\ Over(x, y) \in Rationals
    BY <1>1, <1>2, <1>3, OverRatio
  <1>5. Times(y, Over(x, y)) = x
    <2>1. Ratio(Times(y, Over(x, y)), c * (a * d), d * (b * c))
      BY <1>2, <1>4, TimesOf
    <2>2. (c * (a * d)) * b = a * (d * (b * c))
      OBVIOUS
    <2> QED BY <1>1, <2>1, <2>2, SameRatio
  <1>6. Times(Over(x, y), y) = x
    BY <1>4, <1>5, TimesLaws
  <1>7. Over(Times(x, y), y) = x
    <2>1. Ratio(Times(x, y), a * c, b * d) /\ Times(x, y) \in Rationals
      BY <1>1, <1>2, TimesRatio
    <2>2. PICK p \in Int, q \in Nat \ {0} :
            p = Times(x, y)[1] /\ q = Times(x, y)[2] /\ p * (b * d) = (a * c) * q
      BY <2>1, RationalIs DEF Ratio
    <2>3. Ratio(Over(Times(x, y), y), p * d, q * c)
      BY <1>2, <1>3, <2>1, <2>2, OverRatio
    <2>4. (p * d) * b = a * (q * c)
      BY <2>2
    <2> QED BY <1>1, <2>3, <2>4, SameRatio
  <1> QED BY <1>4, <1>5, <1>6, <1>7

LEMMA SignOf ==
  ASSUME NEW x, NEW n \in Int, NEW d \in Nat \ {0}, Ratio(x, n, d)
  PROVE  x[1] > 0 <=> n > 0
  <1>1. PICK p \in Int, q \in Nat \ {0} : p = x[1] /\ q = x[2] /\ p * d = n * q
    BY RationalIs DEF Ratio
  <1>2. ASSUME p > 0 PROVE n > 0
    <2> SUFFICES ASSUME n <= 0 PROVE FALSE
      OBVIOUS
    <2>1. n * q <= 0 /\ p * d > 0
      BY <1>2
    <2> QED BY <1>1, <2>1
  <1>3. ASSUME n > 0 PROVE p > 0
    <2> SUFFICES ASSUME p <= 0 PROVE FALSE
      OBVIOUS
    <2>1. n * q > 0 /\ p * d <= 0
      BY <1>3
    <2> QED BY <1>1, <2>1
  <1> QED BY <1>1, <1>2, <1>3

\* Positive fractions are closed under what the code does with them.
LEMMA PositiveLaws ==
  ASSUME NEW x \in Positive, NEW y \in Positive
  PROVE  /\ x \in Rationals /\ x # Whole(0)
         /\ Times(x, y) \in Positive
         /\ Over(x, y) \in Positive
         /\ \A n \in Nat : Plus(x, Whole(n)) \in Positive
  <1>1. PICK a \in Nat \ {0}, b \in Nat \ {0} : a = x[1] /\ b = x[2] /\ Ratio(x, a, b)
    BY RationalIs DEF Positive
  <1>2. PICK c \in Nat \ {0}, d \in Nat \ {0} : c = y[1] /\ d = y[2] /\ Ratio(y, c, d)
    BY RationalIs DEF Positive
  <1>3. x \in Rationals /\ y \in Rationals
    BY DEF Positive
  <1>4. Times(x, y) \in Positive
    <2>1. Ratio(Times(x, y), a * c, b * d) /\ Times(x, y) \in Rationals
      BY <1>1, <1>2, <1>3, TimesRatio
    <2>2. a * c \in Int /\ a * c > 0 /\ b * d \in Nat \ {0}
      OBVIOUS
    <2> QED BY <2>1, <2>2, SignOf DEF Positive
  <1>5. Over(x, y) \in Positive
    <2>1. Ratio(Over(x, y), a * d, b * c) /\ Over(x, y) \in Rationals
      BY <1>1, <1>2, <1>3, OverRatio
    <2>2. a * d \in Int /\ a * d > 0 /\ b * c \in Nat \ {0}
      OBVIOUS
    <2> QED BY <2>1, <2>2, SignOf DEF Positive
  <1>6. ASSUME NEW n \in Nat PROVE Plus(x, Whole(n)) \in Positive
    <2>1. Ratio(Plus(x, Whole(n)), a * 1 + n * b, b * 1)
      BY <1>1, WholeRatio, PlusOf
    <2>2. a * 1 + n * b \in Int /\ b * 1 \in Nat \ {0}
      OBVIOUS
    <2>3. a * 1 + n * b > 0
      <3>1. n * b >= 0
        OBVIOUS
      <3> QED BY <3>1
    <2> QED BY <2>1, <2>2, <2>3, SignOf DEF Positive, Ratio
  <1>7. x # Whole(0)
    BY <1>1 DEF Whole
  <1> QED BY <1>3, <1>4, <1>5, <1>6, <1>7

-----------------------------------------------------------------------------
(* Sums and products of fractions over finite sets *)

\* op adds or multiplies the elements of R; e leaves them as they are.
Monoid(R, op, e) ==
    /\ op \in [R \X R -> R] /\ e \in R
    /\ \A x \in R : op[<<x, e>>] = x
    /\ \A x, y \in R : op[<<x, y>>] = op[<<y, x>>]
    /\ \A x, y, z \in R : op[<<op[<<x, y>>], z>>] = op[<<x, op[<<y, z>>]>>]

\* F gives for each subset of S what op makes of the values of its elements.
Totals(F, h, S, R, op, e) ==
    /\ F \in [SUBSET S -> R] /\ F[{}] = e
    /\ \A s \in SUBSET S : s # {} => F[s] = op[<<h[Some(s)], F[s \ {Some(s)}]>>]

\* The order does not matter, so there are totals.
LEMMA TotalsExist ==
  ASSUME NEW S, IsFiniteSet(S), NEW R, NEW op, NEW e, Monoid(R, op, e),
         NEW h, \A x \in S : h[x] \in R
  PROVE  \E F : Totals(F, h, S, R, op, e)
  <1> DEFINE pick == [s \in SUBSET S |-> Some(s)]
             step == [p \in S \X R |-> op[<<h[p[1]], p[2]>>]]
  <1>1. Picks(pick, S)
    BY SomeIs DEF Picks
  <1>2. step \in [S \X R -> R]
    BY DEF Monoid
  <1>3. /\ \A s \in SUBSET S : pick[s] = Some(s)
        /\ \A x \in S, r \in R : step[<<x, r>>] = op[<<h[x], r>>]
    OBVIOUS
  <1> HIDE DEF pick, step
  <1>4. PICK F : FoldsOver(F, S, R, e, pick, step)
    BY <1>1, <1>2, FoldsExist DEF Monoid
  <1>5. ASSUME NEW s \in SUBSET S, s # {}
        PROVE  F[s] = op[<<h[Some(s)], F[s \ {Some(s)}]>>]
    <2>1. Some(s) \in S /\ s \ {Some(s)} \in SUBSET S
      BY <1>5, SomeIs
    <2>2. F[s \ {Some(s)}] \in R
      BY <1>4, <2>1 DEF FoldsOver
    <2> QED BY <1>3, <1>4, <1>5, <2>1, <2>2 DEF FoldsOver
  <1> QED BY <1>4, <1>5 DEF Totals, FoldsOver

\* Any element may be taken out, not only that the fold would take.
LEMMA TotalsCommute ==
  ASSUME NEW S, IsFiniteSet(S), NEW R, NEW op, NEW e, Monoid(R, op, e),
         NEW h, \A x \in S : h[x] \in R,
         NEW F, Totals(F, h, S, R, op, e)
  PROVE  \A s \in SUBSET S : \A x \in s : F[s] = op[<<h[x], F[s \ {x}]>>]
  <1> DEFINE Fine(s) == \A x \in s : F[s] = op[<<h[x], F[s \ {x}]>>]
             U == {k \in Nat : \A s \in SUBSET S : Cardinality(s) = k => Fine(s)}
  <1>0. ASSUME NEW s \in SUBSET S PROVE IsFiniteSet(s) /\ Cardinality(s) \in Nat
    BY FS_Subset, FS_CardinalityType
  <1>1. 0 \in U
    <2>1. ASSUME NEW s \in SUBSET S, Cardinality(s) = 0 PROVE Fine(s)
      <3>1. s = {}
        BY <1>0, <2>1, FS_EmptySet
      <3> QED BY <3>1
    <2> HIDE DEF Fine
    <2> QED BY <2>1
  <1>2. ASSUME NEW k \in Nat, k \in U PROVE k + 1 \in U
    <2>1. ASSUME NEW s \in SUBSET S, Cardinality(s) = k + 1, NEW x \in s
          PROVE  F[s] = op[<<h[x], F[s \ {x}]>>]
      <3> DEFINE c == Some(s)
      <3>1. c \in s
        BY SomeIs
      <3>2. F[s] = op[<<h[c], F[s \ {c}]>>]
        BY DEF Totals
      <3> HIDE DEF c
      <3>3. /\ s \ {c} \in SUBSET S /\ s \ {x} \in SUBSET S /\ (s \ {c}) \ {x} \in SUBSET S
            /\ x \in S /\ c \in S
        BY <3>1
      <3>4. CASE x = c
        BY <3>2, <3>4
      <3>5. CASE x # c
        <4>1. x \in s \ {c} /\ c \in s \ {x}
          BY <3>1, <3>5
        <4>2. Cardinality(s \ {c}) = k /\ Cardinality(s \ {x}) = k
          <5>1. Cardinality(s \ {c}) = Cardinality(s) - 1
            BY <1>0, <3>1, Smaller
          <5>2. Cardinality(s \ {x}) = Cardinality(s) - 1
            BY <1>0, Smaller
          <5> QED BY <2>1, <5>1, <5>2
        <4>3. PICK r \in R : r = F[(s \ {c}) \ {x}] /\ r = F[(s \ {x}) \ {c}]
          <5>1. (s \ {x}) \ {c} = (s \ {c}) \ {x}
            OBVIOUS
          <5> QED BY <3>3, <5>1 DEF Totals
        <4>4. F[s \ {c}] = op[<<h[x], r>>]
          BY <1>2, <3>3, <4>1, <4>2, <4>3
        <4>5. F[s \ {x}] = op[<<h[c], r>>]
          BY <1>2, <3>3, <4>1, <4>2, <4>3
        <4>6. PICK a \in R, b \in R : a = h[x] /\ b = h[c]
          BY <3>3
        <4>7. op[<<b, op[<<a, r>>]>>] = op[<<a, op[<<b, r>>]>>]
          <5>1. /\ \A p, q \in R : op[<<p, q>>] = op[<<q, p>>]
                /\ \A p, q, t \in R : op[<<op[<<p, q>>], t>>] = op[<<p, op[<<q, t>>]>>]
            BY DEF Monoid
          <5>2. op[<<b, op[<<a, r>>]>>] = op[<<op[<<b, a>>], r>>]
            BY <5>1, Zenon
          <5>3. op[<<a, op[<<b, r>>]>>] = op[<<op[<<a, b>>], r>>]
            BY <5>1, Zenon
          <5>4. op[<<a, b>>] = op[<<b, a>>]
            BY <5>1, Zenon
          <5> QED BY <5>2, <5>3, <5>4
        <4> QED BY <3>2, <4>4, <4>5, <4>6, <4>7
      <3> QED BY <3>4, <3>5
    <2> QED BY <2>1
  <1>3. ASSUME NEW s \in SUBSET S PROVE Fine(s)
    <2>1. Nat \subseteq U
      <3> HIDE DEF Fine
      <3> QED BY <1>1, <1>2, Induction
    <2>2. Cardinality(s) \in U
      <3> HIDE DEF U
      <3> QED BY <1>0, <2>1
    <2> HIDE DEF Fine
    <2> QED BY <2>2
  <1> QED BY <1>3

\* it takes the elements in the order of the fold, if what it takes is in R.
TakesInOrder(it, h, S, R, op, e) ==
    /\ it[{}] = e
    /\ \A s \in SUBSET S : s # {} /\ it[s \ {Some(s)}] \in R =>
            it[s] = op[<<h[Some(s)], it[s \ {Some(s)}]>>]

\* The fold computes those totals.
LEMMA TotalsAre ==
  ASSUME NEW S, IsFiniteSet(S), NEW R, NEW op, NEW e, Monoid(R, op, e),
         NEW h, \A x \in S : h[x] \in R,
         NEW F, Totals(F, h, S, R, op, e),
         NEW it, TakesInOrder(it, h, S, R, op, e)
  PROVE  it[S] = F[S]
  <1> DEFINE P == {s \in SUBSET S : it[s] = F[s]}
  <1>1. PICK pick : pick = [s \in SUBSET S |-> Some(s)]
    OBVIOUS
  <1>2. Picks(pick, S)
    BY <1>1, SomeIs DEF Picks
  <1>3. {} \in P
    BY DEF Totals, TakesInOrder
  <1>4. ASSUME NEW s \in SUBSET S, s # {}, s \ {pick[s]} \in P PROVE s \in P
    <2>1. pick[s] = Some(s) /\ s \ {Some(s)} \in SUBSET S
      BY <1>1
    <2>2. it[s \ {Some(s)}] = F[s \ {Some(s)}] /\ F[s \ {Some(s)}] \in R
      BY <1>4, <2>1 DEF Totals
    <2> QED BY <1>4, <2>1, <2>2 DEF Totals, TakesInOrder
  <1>5. SUBSET S \subseteq P
    <2> HIDE DEF P
    <2> QED BY <1>2, <1>3, <1>4, SubsetInduction
  <1> QED BY <1>5

plus == [p \in Rationals \X Rationals |-> Plus(p[1], p[2])]
times == [p \in Rationals \X Rationals |-> Times(p[1], p[2])]

\* Plus() is associative and commutative.
LEMMA PlusLaws ==
  ASSUME NEW x \in Rationals, NEW y \in Rationals, NEW z \in Rationals
  PROVE  /\ Plus(x, y) \in Rationals
         /\ Plus(x, y) = Plus(y, x)
         /\ Plus(Plus(x, y), z) = Plus(x, Plus(y, z))
         /\ Plus(x, Whole(0)) = x
  <1>1. PICK a \in Int, b \in Int \ {0} : Ratio(x, a, b)
    BY RationalIs
  <1>2. PICK c \in Int, d \in Int \ {0} : Ratio(y, c, d)
    BY RationalIs
  <1>3. PICK e \in Int, f \in Int \ {0} : Ratio(z, e, f)
    BY RationalIs
  <1>4. Ratio(Plus(x, y), a * d + c * b, b * d) /\ Ratio(Plus(y, x), c * b + a * d, d * b)
    BY <1>1, <1>2, PlusOf
  <1>5. Ratio(Plus(y, z), c * f + e * d, d * f)
    BY <1>2, <1>3, PlusOf
  <1>6. Plus(x, y) = Plus(y, x)
    <2>1. (a * d + c * b) * (d * b) = (c * b + a * d) * (b * d)
      OBVIOUS
    <2> QED BY <1>4, <2>1, SameRatio
  <1>7. Plus(Plus(x, y), z) = Plus(x, Plus(y, z))
    <2>1. Ratio(Plus(Plus(x, y), z), (a * d + c * b) * f + e * (b * d), (b * d) * f)
      BY <1>3, <1>4, PlusOf
    <2>2. Ratio(Plus(x, Plus(y, z)), a * (d * f) + (c * f + e * d) * b, b * (d * f))
      BY <1>1, <1>5, PlusOf
    <2>3. ((a * d + c * b) * f + e * (b * d)) * (b * (d * f))
            = (a * (d * f) + (c * f + e * d) * b) * ((b * d) * f)
      <3>1. b * (d * f) = (b * d) * f
        OBVIOUS
      <3>2. (a * d + c * b) * f + e * (b * d) = a * (d * f) + (c * f + e * d) * b
        OBVIOUS
      <3> QED BY <3>1, <3>2
    <2> QED BY <2>1, <2>2, <2>3, SameRatio
  <1>8. Plus(x, Whole(0)) = x
    <2>1. Ratio(Plus(x, Whole(0)), a * 1 + 0 * b, b * 1)
      <3>1. Ratio(Whole(0), 0, 1)
        BY WholeRatio
      <3> QED BY <1>1, <3>1, PlusOf
    <2>2. (a * 1 + 0 * b) * b = a * (b * 1)
      OBVIOUS
    <2> QED BY <1>1, <2>1, <2>2, SameRatio
  <1>9. Plus(x, y) \in Rationals
    BY <1>4 DEF Ratio
  <1> QED BY <1>6, <1>7, <1>8, <1>9

LEMMA WholeIn == \A n \in Int : Whole(n) \in Rationals
  BY WholeRatio DEF Ratio

LEMMA SummedMonoid == Monoid(Rationals, plus, Whole(0))
  <1>1. \A x, y \in Rationals : plus[<<x, y>>] = Plus(x, y) /\ plus[<<x, y>>] \in Rationals
    BY PlusLaws DEF plus
  <1>2. plus \in [Rationals \X Rationals -> Rationals]
    BY PlusLaws DEF plus
  <1>3. Whole(0) \in Rationals
    BY WholeIn
  <1>4. ASSUME NEW x \in Rationals PROVE plus[<<x, Whole(0)>>] = x
    <2>1. plus[<<x, Whole(0)>>] = Plus(x, Whole(0)) /\ Plus(x, Whole(0)) = Plus(Whole(0), x)
      BY <1>1, <1>3, PlusLaws
    <2>2. Plus(x, Whole(0)) = x
      BY <1>3, <2>1, PlusLaws
    <2> QED BY <2>1, <2>2
  <1>5. ASSUME NEW x \in Rationals, NEW y \in Rationals PROVE plus[<<x, y>>] = plus[<<y, x>>]
    <2>1. plus[<<x, y>>] = Plus(x, y) /\ plus[<<y, x>>] = Plus(y, x)
      BY <1>1
    <2> QED BY <2>1, PlusLaws
  <1>6. ASSUME NEW x \in Rationals, NEW y \in Rationals, NEW z \in Rationals
        PROVE  plus[<<plus[<<x, y>>], z>>] = plus[<<x, plus[<<y, z>>]>>]
    <2>1. plus[<<x, y>>] = Plus(x, y) /\ plus[<<y, z>>] = Plus(y, z)
      BY <1>1
    <2>2. Plus(x, y) \in Rationals /\ Plus(y, z) \in Rationals
      BY PlusLaws
    <2>3. /\ plus[<<Plus(x, y), z>>] = Plus(Plus(x, y), z)
          /\ plus[<<x, Plus(y, z)>>] = Plus(x, Plus(y, z))
      BY <1>1, <2>2
    <2> QED BY <2>1, <2>3, PlusLaws
  <1> QED BY <1>2, <1>3, <1>4, <1>5, <1>6 DEF Monoid

LEMMA MultipliedMonoid == Monoid(Rationals, times, Whole(1))
  <1>1. \A x, y \in Rationals : times[<<x, y>>] = Times(x, y) /\ times[<<x, y>>] \in Rationals
    BY TimesLaws DEF times
  <1>2. times \in [Rationals \X Rationals -> Rationals]
    BY TimesLaws DEF times
  <1>3. Whole(1) \in Rationals
    BY WholeIn
  <1>4. ASSUME NEW x \in Rationals PROVE times[<<x, Whole(1)>>] = x
    <2>1. times[<<x, Whole(1)>>] = Times(x, Whole(1)) /\ Times(x, Whole(1)) = Times(Whole(1), x)
      BY <1>1, <1>3, TimesLaws
    <2>2. Times(x, Whole(1)) = x
      BY <1>3, <2>1, TimesLaws
    <2> QED BY <2>1, <2>2
  <1>5. ASSUME NEW x \in Rationals, NEW y \in Rationals PROVE times[<<x, y>>] = times[<<y, x>>]
    <2>1. times[<<x, y>>] = Times(x, y) /\ times[<<y, x>>] = Times(y, x)
      BY <1>1
    <2> QED BY <2>1, TimesLaws
  <1>6. ASSUME NEW x \in Rationals, NEW y \in Rationals, NEW z \in Rationals
        PROVE  times[<<times[<<x, y>>], z>>] = times[<<x, times[<<y, z>>]>>]
    <2>1. times[<<x, y>>] = Times(x, y) /\ times[<<y, z>>] = Times(y, z)
      BY <1>1
    <2>2. Times(x, y) \in Rationals /\ Times(y, z) \in Rationals
      BY TimesLaws
    <2>3. /\ times[<<Times(x, y), z>>] = Times(Times(x, y), z)
          /\ times[<<x, Times(y, z)>>] = Times(x, Times(y, z))
      BY <1>1, <2>2
    <2> QED BY <2>1, <2>3, TimesLaws
  <1> QED BY <1>2, <1>3, <1>4, <1>5, <1>6 DEF Monoid

\* Sums and products of a function's values
Summed(h, S) == SumBy(S, LAMBDA x : h[x])

LEMMA SummedFold ==
  ASSUME NEW S, IsFiniteSet(S), NEW h, \A x \in S : h[x] \in Rationals,
         NEW F, Totals(F, h, S, Rationals, plus, Whole(0))
  PROVE  Summed(h, S) = F[S]
  <1> DEFINE Body(iter) == [s \in SUBSET S |-> IF s = {} THEN Whole(0)
                                ELSE Plus(h[Some(s)], iter[s \ {Some(s)}])]
             it == CHOOSE iter : iter = Body(iter)
  <1>1. Summed(h, S) = it[S]
    BY DEF Summed, SumBy, MapThenFoldSet, Some
  <1>2. \A x, y \in Rationals : plus[<<x, y>>] = Plus(x, y)
    BY DEF plus
  <1>3. F = Body(F)
    <2>1. ASSUME NEW s \in SUBSET S, s # {}
          PROVE  F[s] = Plus(h[Some(s)], F[s \ {Some(s)}])
      <3>1. Some(s) \in S /\ s \ {Some(s)} \in SUBSET S
        BY <2>1, SomeIs
      <3>2. h[Some(s)] \in Rationals /\ F[s \ {Some(s)}] \in Rationals
        BY <3>1 DEF Totals
      <3> QED BY <1>2, <2>1, <3>2 DEF Totals
    <2> QED BY <2>1 DEF Totals
  <1>4. it = Body(it)
    <2> HIDE DEF Body
    <2> QED BY <1>3
  <1> HIDE DEF it
  <1>5. /\ it[{}] = Whole(0)
        /\ \A s \in SUBSET S : s # {} => it[s] = Plus(h[Some(s)], it[s \ {Some(s)}])
    BY <1>4
  <1>6. ASSUME NEW s \in SUBSET S, s # {}, it[s \ {Some(s)}] \in Rationals
        PROVE  it[s] = plus[<<h[Some(s)], it[s \ {Some(s)}]>>]
    <2>1. h[Some(s)] \in Rationals
      BY <1>6, SomeIs
    <2> QED BY <1>2, <1>5, <1>6, <2>1
  <1> HIDE DEF Body
  <1>7. it[S] = F[S]
    <2>1. TakesInOrder(it, h, S, Rationals, plus, Whole(0))
      BY <1>5, <1>6 DEF TakesInOrder
    <2> QED BY <2>1, SummedMonoid, TotalsAre
  <1> QED BY <1>1, <1>7

\* Any element can be taken off first.
LEMMA SummedTakes ==
  ASSUME NEW S, IsFiniteSet(S), NEW h, \A x \in S : h[x] \in Rationals
  PROVE  /\ Summed(h, S) \in Rationals
         /\ S = {} => Summed(h, S) = Whole(0)
         /\ \A y \in S : Summed(h, S) = Plus(h[y], Summed(h, S \ {y}))
  <1>1. PICK F : Totals(F, h, S, Rationals, plus, Whole(0))
    BY SummedMonoid, TotalsExist
  <1>2. Summed(h, S) = F[S]
    BY <1>1, SummedFold
  <1>3. F[S] \in Rationals /\ F[{}] = Whole(0)
    BY <1>1 DEF Totals
  <1>4. ASSUME NEW y \in S PROVE Summed(h, S) = Plus(h[y], Summed(h, S \ {y}))
    <2>1. PICK T0 \in SUBSET S : T0 = S \ {y}
      OBVIOUS
    <2>2. IsFiniteSet(T0) /\ \A x \in T0 : h[x] \in Rationals
      BY FS_Subset
    <2>3. PICK G : Totals(G, h, T0, Rationals, plus, Whole(0))
      BY <2>2, SummedMonoid, TotalsExist
    <2>4. Summed(h, T0) = G[T0]
      BY <2>2, <2>3, SummedFold
    <2>5. G[T0] = F[T0]
      <3>1. TakesInOrder(F, h, T0, Rationals, plus, Whole(0))
        BY <1>1 DEF Totals, TakesInOrder
      <3> QED BY <2>2, <2>3, <3>1, SummedMonoid, TotalsAre
    <2>6. F[S] = plus[<<h[y], F[T0]>>]
      <3>1. \A s \in SUBSET S : \A x \in s : F[s] = plus[<<h[x], F[s \ {x}]>>]
        BY <1>1, SummedMonoid, TotalsCommute
      <3> QED BY <2>1, <3>1
    <2>7. h[y] \in Rationals /\ F[T0] \in Rationals
      BY <1>1 DEF Totals
    <2>8. plus[<<h[y], F[T0]>>] = Plus(h[y], F[T0])
      BY <2>7 DEF plus
    <2> QED BY <1>2, <2>1, <2>4, <2>5, <2>6, <2>8
  <1> QED BY <1>2, <1>3, <1>4

Multiplied(h, S) == Product(S, LAMBDA x : h[x])

LEMMA MultipliedFold ==
  ASSUME NEW S, IsFiniteSet(S), NEW h, \A x \in S : h[x] \in Rationals,
         NEW F, Totals(F, h, S, Rationals, times, Whole(1))
  PROVE  Multiplied(h, S) = F[S]
  <1> DEFINE Body(iter) == [s \in SUBSET S |-> IF s = {} THEN Whole(1)
                                ELSE Times(h[Some(s)], iter[s \ {Some(s)}])]
             it == CHOOSE iter : iter = Body(iter)
  <1>1. Multiplied(h, S) = it[S]
    BY DEF Multiplied, Product, MapThenFoldSet, Some
  <1>2. \A x, y \in Rationals : times[<<x, y>>] = Times(x, y)
    BY DEF times
  <1>3. F = Body(F)
    <2>1. ASSUME NEW s \in SUBSET S, s # {}
          PROVE  F[s] = Times(h[Some(s)], F[s \ {Some(s)}])
      <3>1. Some(s) \in S /\ s \ {Some(s)} \in SUBSET S
        BY <2>1, SomeIs
      <3>2. h[Some(s)] \in Rationals /\ F[s \ {Some(s)}] \in Rationals
        BY <3>1 DEF Totals
      <3> QED BY <1>2, <2>1, <3>2 DEF Totals
    <2> QED BY <2>1 DEF Totals
  <1>4. it = Body(it)
    <2> HIDE DEF Body
    <2> QED BY <1>3
  <1> HIDE DEF it
  <1>5. /\ it[{}] = Whole(1)
        /\ \A s \in SUBSET S : s # {} => it[s] = Times(h[Some(s)], it[s \ {Some(s)}])
    BY <1>4
  <1>6. ASSUME NEW s \in SUBSET S, s # {}, it[s \ {Some(s)}] \in Rationals
        PROVE  it[s] = times[<<h[Some(s)], it[s \ {Some(s)}]>>]
    <2>1. h[Some(s)] \in Rationals
      BY <1>6, SomeIs
    <2> QED BY <1>2, <1>5, <1>6, <2>1
  <1> HIDE DEF Body
  <1>7. it[S] = F[S]
    <2>1. TakesInOrder(it, h, S, Rationals, times, Whole(1))
      BY <1>5, <1>6 DEF TakesInOrder
    <2> QED BY <2>1, MultipliedMonoid, TotalsAre
  <1> QED BY <1>1, <1>7

LEMMA MultipliedTakes ==
  ASSUME NEW S, IsFiniteSet(S), NEW h, \A x \in S : h[x] \in Rationals
  PROVE  /\ Multiplied(h, S) \in Rationals
         /\ S = {} => Multiplied(h, S) = Whole(1)
         /\ \A y \in S : Multiplied(h, S) = Times(h[y], Multiplied(h, S \ {y}))
  <1>1. PICK F : Totals(F, h, S, Rationals, times, Whole(1))
    BY MultipliedMonoid, TotalsExist
  <1>2. Multiplied(h, S) = F[S]
    BY <1>1, MultipliedFold
  <1>3. F[S] \in Rationals /\ F[{}] = Whole(1)
    BY <1>1 DEF Totals
  <1>4. ASSUME NEW y \in S PROVE Multiplied(h, S) = Times(h[y], Multiplied(h, S \ {y}))
    <2>1. PICK T0 \in SUBSET S : T0 = S \ {y}
      OBVIOUS
    <2>2. IsFiniteSet(T0) /\ \A x \in T0 : h[x] \in Rationals
      BY FS_Subset
    <2>3. PICK G : Totals(G, h, T0, Rationals, times, Whole(1))
      BY <2>2, MultipliedMonoid, TotalsExist
    <2>4. Multiplied(h, T0) = G[T0]
      BY <2>2, <2>3, MultipliedFold
    <2>5. G[T0] = F[T0]
      <3>1. TakesInOrder(F, h, T0, Rationals, times, Whole(1))
        BY <1>1 DEF Totals, TakesInOrder
      <3> QED BY <2>2, <2>3, <3>1, MultipliedMonoid, TotalsAre
    <2>6. F[S] = times[<<h[y], F[T0]>>]
      <3>1. \A s \in SUBSET S : \A x \in s : F[s] = times[<<h[x], F[s \ {x}]>>]
        BY <1>1, MultipliedMonoid, TotalsCommute
      <3> QED BY <2>1, <3>1
    <2>7. h[y] \in Rationals /\ F[T0] \in Rationals
      BY <1>1 DEF Totals
    <2>8. times[<<h[y], F[T0]>>] = Times(h[y], F[T0])
      BY <2>7 DEF times
    <2> QED BY <1>2, <2>1, <2>4, <2>5, <2>6, <2>8
  <1> QED BY <1>2, <1>3, <1>4

LEMMA FiniteInduction ==
  ASSUME NEW S, IsFiniteSet(S), NEW P, {} \in P,
         \A s \in SUBSET S : \A x \in s : s \ {x} \in P => s \in P
  PROVE  S \in P
  <1>1. PICK pick : pick = [s \in SUBSET S |-> Some(s)]
    OBVIOUS
  <1>2. Picks(pick, S)
    BY <1>1, SomeIs DEF Picks
  <1> DEFINE Q == {s \in SUBSET S : s \in P}
  <1>3. ASSUME NEW s \in SUBSET S, s # {}, s \ {pick[s]} \in Q PROVE s \in Q
    BY <1>2, <1>3 DEF Picks
  <1>4. {} \in Q
    OBVIOUS
  <1>5. SUBSET S \subseteq Q
    <2> HIDE DEF Q
    <2> QED BY <1>2, <1>3, <1>4, SubsetInduction
  <1> QED BY <1>5

LEMMA SummedSame ==
  ASSUME NEW S, NEW g, NEW h, \A x \in S : g[x] = h[x]
  PROVE  Summed(g, S) = Summed(h, S)
  <1> DEFINE Body(e, iter) == [s \in SUBSET S |-> IF s = {} THEN Whole(0)
                                  ELSE Plus(e[Some(s)], iter[s \ {Some(s)}])]
  <1>1. /\ Summed(g, S) = (CHOOSE iter : iter = Body(g, iter))[S]
        /\ Summed(h, S) = (CHOOSE iter : iter = Body(h, iter))[S]
    BY DEF Summed, SumBy, MapThenFoldSet, Some
  <1>2. ASSUME NEW iter PROVE Body(g, iter) = Body(h, iter)
    <2>1. \A s \in SUBSET S : s # {} => g[Some(s)] = h[Some(s)]
      BY SomeIs
    <2> QED BY <2>1
  <1> HIDE DEF Body
  <1> QED BY <1>1, <1>2

LEMMA MultipliedSame ==
  ASSUME NEW S, NEW g, NEW h, \A x \in S : g[x] = h[x]
  PROVE  Multiplied(g, S) = Multiplied(h, S)
  <1> DEFINE Body(e, iter) == [s \in SUBSET S |-> IF s = {} THEN Whole(1)
                                  ELSE Times(e[Some(s)], iter[s \ {Some(s)}])]
  <1>1. /\ Multiplied(g, S) = (CHOOSE iter : iter = Body(g, iter))[S]
        /\ Multiplied(h, S) = (CHOOSE iter : iter = Body(h, iter))[S]
    BY DEF Multiplied, Product, MapThenFoldSet, Some
  <1>2. ASSUME NEW iter PROVE Body(g, iter) = Body(h, iter)
    <2>1. \A s \in SUBSET S : s # {} => g[Some(s)] = h[Some(s)]
      BY SomeIs
    <2> QED BY <2>1
  <1> HIDE DEF Body
  <1> QED BY <1>1, <1>2

\* A common factor, and the sum of two sums
LEMMA SummedScale ==
  ASSUME NEW S, IsFiniteSet(S), NEW h, \A x \in S : h[x] \in Rationals,
         NEW c \in Rationals, NEW g, \A x \in S : g[x] = Times(c, h[x])
  PROVE  Summed(g, S) = Times(c, Summed(h, S))
  <1> DEFINE P == {s \in SUBSET S : Summed(g, s) = Times(c, Summed(h, s))}
  <1>1. ASSUME NEW s \in SUBSET S
        PROVE  /\ IsFiniteSet(s) /\ \A x \in s : h[x] \in Rationals /\ g[x] \in Rationals
               /\ Summed(h, s) \in Rationals /\ Summed(g, s) \in Rationals
    <2>1. IsFiniteSet(s)
      BY FS_Subset
    <2>2. \A x \in s : h[x] \in Rationals /\ g[x] \in Rationals
      BY TimesLaws
    <2>3. Summed(h, s) \in Rationals
      BY <2>1, <2>2, SummedTakes
    <2>4. Summed(g, s) \in Rationals
      BY <2>1, <2>2, SummedTakes
    <2> QED BY <2>1, <2>2, <2>3, <2>4
  <1>2. {} \in P
    <2>1. {} \in SUBSET S
      OBVIOUS
    <2>2. Summed(h, {}) = Whole(0)
      BY <1>1, <2>1, SummedTakes
    <2>3. Summed(g, {}) = Whole(0)
      BY <1>1, <2>1, SummedTakes
    <2>4. Times(c, Whole(0)) = Whole(0)
      BY TimesLaws
    <2> QED BY <2>2, <2>3, <2>4
  <1>3. ASSUME NEW s \in SUBSET S, NEW x \in s, s \ {x} \in P PROVE s \in P
    <2>1. s \ {x} \in SUBSET S
      OBVIOUS
    <2>2. Summed(h, s) = Plus(h[x], Summed(h, s \ {x}))
      BY <1>1, SummedTakes
    <2>3. Summed(g, s) = Plus(g[x], Summed(g, s \ {x}))
      BY <1>1, SummedTakes
    <2>4. PICK a \in Rationals, b \in Rationals : a = h[x] /\ b = Summed(h, s \ {x})
      BY <1>1, <2>1
    <2>5. g[x] = Times(c, a) /\ Summed(g, s \ {x}) = Times(c, b)
      BY <1>3, <2>4
    <2>6. Times(c, Plus(a, b)) = Plus(Times(c, a), Times(c, b))
      BY TimesLaws
    <2> QED BY <2>2, <2>3, <2>4, <2>5, <2>6
  <1>4. S \in P
    <2> HIDE DEF P
    <2> QED BY <1>2, <1>3, FiniteInduction
  <1> QED BY <1>4

\* A sum of sums is the sum of both.
LEMMA SummedPlus ==
  ASSUME NEW S, IsFiniteSet(S),
         NEW g, \A x \in S : g[x] \in Rationals,
         NEW h, \A x \in S : h[x] \in Rationals,
         NEW f, \A x \in S : f[x] = Plus(g[x], h[x])
  PROVE  Summed(f, S) = Plus(Summed(g, S), Summed(h, S))
  <1> DEFINE P == {s \in SUBSET S : Summed(f, s) = Plus(Summed(g, s), Summed(h, s))}
  <1>1. ASSUME NEW s \in SUBSET S
        PROVE  /\ IsFiniteSet(s)
               /\ \A x \in s : h[x] \in Rationals /\ g[x] \in Rationals /\ f[x] \in Rationals
               /\ Summed(h, s) \in Rationals /\ Summed(g, s) \in Rationals
    <2>1. IsFiniteSet(s)
      BY FS_Subset
    <2>2. \A x \in s : h[x] \in Rationals /\ g[x] \in Rationals /\ f[x] \in Rationals
      BY PlusLaws
    <2>3. Summed(h, s) \in Rationals
      BY <2>1, <2>2, SummedTakes
    <2>4. Summed(g, s) \in Rationals
      BY <2>1, <2>2, SummedTakes
    <2> QED BY <2>1, <2>2, <2>3, <2>4
  <1>2. {} \in P
    <2>1. {} \in SUBSET S
      OBVIOUS
    <2>2. Summed(h, {}) = Whole(0) /\ Summed(g, {}) = Whole(0)
      BY <1>1, <2>1, SummedTakes
    <2>3. Summed(f, {}) = Whole(0)
      BY <1>1, <2>1, SummedTakes
    <2>4. Plus(Whole(0), Whole(0)) = Whole(0)
      BY WholeIn, PlusLaws
    <2> QED BY <2>2, <2>3, <2>4
  <1>3. ASSUME NEW s \in SUBSET S, NEW x \in s, s \ {x} \in P PROVE s \in P
    <2>1. s \ {x} \in SUBSET S
      OBVIOUS
    <2>2. Summed(h, s) = Plus(h[x], Summed(h, s \ {x}))
      BY <1>1, SummedTakes
    <2>3. Summed(g, s) = Plus(g[x], Summed(g, s \ {x}))
      BY <1>1, SummedTakes
    <2>4. Summed(f, s) = Plus(f[x], Summed(f, s \ {x}))
      BY <1>1, SummedTakes
    <2>5. PICK a \in Rationals, b \in Rationals : a = h[x] /\ b = Summed(h, s \ {x})
      BY <1>1, <2>1
    <2>6. PICK d \in Rationals, e \in Rationals : d = g[x] /\ e = Summed(g, s \ {x})
      BY <1>1, <2>1
    <2>7. f[x] = Plus(d, a) /\ Summed(f, s \ {x}) = Plus(e, b)
      BY <1>3, <2>5, <2>6
    <2>8. Plus(Plus(d, a), Plus(e, b)) = Plus(Plus(d, e), Plus(a, b))
      <3>1. Plus(Plus(d, a), Plus(e, b)) = Plus(d, Plus(a, Plus(e, b)))
        BY PlusLaws
      <3>2. Plus(a, Plus(e, b)) = Plus(Plus(a, e), b) /\ Plus(a, e) = Plus(e, a)
        BY PlusLaws
      <3>3. Plus(Plus(e, a), b) = Plus(e, Plus(a, b)) /\ Plus(a, b) \in Rationals
        BY PlusLaws
      <3>4. Plus(d, Plus(e, Plus(a, b))) = Plus(Plus(d, e), Plus(a, b))
        BY <3>3, PlusLaws
      <3> QED BY <3>1, <3>2, <3>3, <3>4
    <2> QED BY <2>2, <2>3, <2>4, <2>5, <2>6, <2>7, <2>8
  <1>4. S \in P
    <2> HIDE DEF P
    <2> QED BY <1>2, <1>3, FiniteInduction
  <1> QED BY <1>4

\* The sums of the parts of S that g tells apart
PartSums(h, S, g, K) == [k \in K |-> Summed(h, {x \in S : g[x] = k})]

\* A sum can be taken group by group, g giving the groups.
LEMMA SummedParts ==
  ASSUME NEW S, IsFiniteSet(S), NEW h, \A x \in S : h[x] \in Rationals,
         NEW K, IsFiniteSet(K), NEW g, \A x \in S : g[x] \in K
  PROVE  Summed(h, S) = Summed(PartSums(h, S, g, K), K)
  <1> DEFINE part(s, k) == {x \in s : g[x] = k}
             P == {s \in SUBSET S : Summed(h, s) = Summed(PartSums(h, s, g, K), K)}
  <1>1. ASSUME NEW s \in SUBSET S
        PROVE  /\ IsFiniteSet(s) /\ \A x \in s : h[x] \in Rationals
               /\ Summed(h, s) \in Rationals
    <2>1. IsFiniteSet(s)
      BY FS_Subset
    <2> QED BY <2>1, SummedTakes
  <1>2. ASSUME NEW s \in SUBSET S, NEW k \in K
        PROVE  /\ PartSums(h, s, g, K)[k] = Summed(h, part(s, k))
               /\ part(s, k) \in SUBSET S
               /\ PartSums(h, s, g, K)[k] \in Rationals
    <2>1. PartSums(h, s, g, K)[k] = Summed(h, part(s, k))
      BY DEF PartSums
    <2>2. part(s, k) \in SUBSET S
      OBVIOUS
    <2> QED BY <1>1, <2>1, <2>2
  <1>3. {} \in P
    <2>1. {} \in SUBSET S /\ \A k : part({}, k) = {}
      OBVIOUS
    <2>2. Summed(h, {}) = Whole(0)
      BY <1>1, <2>1, SummedTakes
    <2>3. \A k \in K : PartSums(h, {}, g, K)[k] = Whole(0)
      BY <1>2, <2>1, <2>2
    <2>4. PICK z : z = [k \in K |-> Whole(0)]
      OBVIOUS
    <2>5. \A k \in K : z[k] \in Rationals /\ z[k] = Times(Whole(0), z[k])
                       /\ PartSums(h, {}, g, K)[k] = z[k]
      BY <2>3, <2>4, WholeIn, TimesLaws
    <2>6. Summed(z, K) = Times(Whole(0), Summed(z, K))
      BY <2>5, WholeIn, SummedScale
    <2>7. Summed(z, K) \in Rationals
      BY <2>5, SummedTakes
    <2>8. Times(Whole(0), Summed(z, K)) = Whole(0)
      <3>1. Times(Whole(0), Summed(z, K)) = Times(Summed(z, K), Whole(0))
        BY <2>7, WholeIn, TimesLaws
      <3> QED BY <2>7, <3>1, TimesLaws
    <2>9. Summed(PartSums(h, {}, g, K), K) = Summed(z, K)
      BY <2>5, SummedSame
    <2> QED BY <2>2, <2>6, <2>8, <2>9
  <1>4. ASSUME NEW s \in SUBSET S, NEW x \in s, s \ {x} \in P PROVE s \in P
    <2>1. PICK r \in SUBSET S : r = s \ {x}
      OBVIOUS
    <2>2. PICK k \in K : k = g[x]
      OBVIOUS
    <2>3. Summed(h, s) = Plus(h[x], Summed(h, r))
      BY <1>1, <2>1, SummedTakes
    <2>4. Summed(h, r) = Summed(PartSums(h, r, g, K), K)
      BY <1>4, <2>1
    <2>5. /\ x \in part(s, k) /\ part(s, k) \ {x} = part(r, k)
          /\ \A c \in K \ {k} : part(s, c) = part(r, c)
      BY <2>1, <2>2
    <2>6. /\ part(s, k) \in SUBSET S
          /\ PartSums(h, s, g, K)[k] = Summed(h, part(s, k))
          /\ PartSums(h, r, g, K)[k] = Summed(h, part(r, k))
          /\ Summed(h, part(r, k)) \in Rationals
      BY <1>2
    <2>7. Summed(h, part(s, k)) = Plus(h[x], Summed(h, part(r, k)))
      <3> HIDE DEF part
      <3>1. IsFiniteSet(part(s, k)) /\ \A y \in part(s, k) : h[y] \in Rationals
        BY <1>1, <2>6
      <3>2. Summed(h, part(s, k)) = Plus(h[x], Summed(h, part(s, k) \ {x}))
        BY <2>5, <3>1, SummedTakes
      <3> QED BY <2>5, <3>2
    <2>8. \A c \in K \ {k} : PartSums(h, s, g, K)[c] = PartSums(h, r, g, K)[c]
      <3> HIDE DEF part
      <3> QED BY <1>2, <2>5
    <2>9. PICK rest \in Rationals : /\ rest = Summed(PartSums(h, r, g, K), K \ {k})
                                   /\ rest = Summed(PartSums(h, s, g, K), K \ {k})
      <3>1. Summed(PartSums(h, r, g, K), K \ {k}) = Summed(PartSums(h, s, g, K), K \ {k})
        BY <2>8, SummedSame
      <3>2. IsFiniteSet(K \ {k}) /\ \A c \in K \ {k} : PartSums(h, r, g, K)[c] \in Rationals
        BY <1>2, FS_Difference
      <3>3. Summed(PartSums(h, r, g, K), K \ {k}) \in Rationals
        BY <3>2, SummedTakes
      <3> QED BY <3>1, <3>3
    <2>10. /\ Summed(PartSums(h, s, g, K), K) = Plus(PartSums(h, s, g, K)[k], rest)
           /\ Summed(PartSums(h, r, g, K), K) = Plus(PartSums(h, r, g, K)[k], rest)
      <3>1. \A c \in K : PartSums(h, s, g, K)[c] \in Rationals /\ PartSums(h, r, g, K)[c] \in Rationals
        BY <1>2
      <3>2. Summed(PartSums(h, s, g, K), K)
              = Plus(PartSums(h, s, g, K)[k], Summed(PartSums(h, s, g, K), K \ {k}))
        BY <3>1, SummedTakes
      <3>3. Summed(PartSums(h, r, g, K), K)
              = Plus(PartSums(h, r, g, K)[k], Summed(PartSums(h, r, g, K), K \ {k}))
        BY <3>1, SummedTakes
      <3> QED BY <2>9, <3>2, <3>3
    <2>11. PICK a \in Rationals, b \in Rationals : a = h[x] /\ b = Summed(h, part(r, k))
      <3> HIDE DEF part
      <3> QED BY <1>1, <2>6
    <2>12. Plus(Plus(a, b), rest) = Plus(a, Plus(b, rest))
      BY PlusLaws
    <2> HIDE DEF part
    <2> QED BY <2>3, <2>4, <2>6, <2>7, <2>10, <2>11, <2>12
  <1>5. S \in P
    <2> HIDE DEF P
    <2> QED BY <1>3, <1>4, FiniteInduction
  <1> QED BY <1>5

\* Sums of sums, in either order
Rowwise(h, S, K) == [x \in S |-> Summed([y \in K |-> h[x][y]], K)]
Columnwise(h, S, K) == [y \in K |-> Summed([x \in S |-> h[x][y]], S)]

\* Rows and columns can be summed up in either order.
LEMMA SummedSwap ==
  ASSUME NEW S, IsFiniteSet(S), NEW K, IsFiniteSet(K),
         NEW h, \A x \in S, y \in K : h[x][y] \in Rationals
  PROVE  Summed(Rowwise(h, S, K), S) = Summed(Columnwise(h, S, K), K)
  <1> DEFINE P == {s \in SUBSET S : Summed(Rowwise(h, s, K), s) = Summed(Columnwise(h, s, K), K)}
             row(x) == [y \in K |-> h[x][y]]
             col(s, y) == [x \in s |-> h[x][y]]
  <1>1. ASSUME NEW s \in SUBSET S
        PROVE  /\ IsFiniteSet(s)
               /\ \A y \in K : Columnwise(h, s, K)[y] = Summed(col(s, y), s)
               /\ \A y \in K : Columnwise(h, s, K)[y] \in Rationals
               /\ \A x \in s : Rowwise(h, s, K)[x] = Summed(row(x), K)
               /\ \A x \in s : Rowwise(h, s, K)[x] \in Rationals
    <2>1. IsFiniteSet(s)
      BY FS_Subset
    <2>2. \A y \in K : Columnwise(h, s, K)[y] = Summed(col(s, y), s)
      BY DEF Columnwise
    <2>3. \A x \in s : Rowwise(h, s, K)[x] = Summed(row(x), K)
      BY DEF Rowwise
    <2>4. ASSUME NEW y \in K PROVE Summed(col(s, y), s) \in Rationals
      <3>1. \A x \in s : col(s, y)[x] \in Rationals
        OBVIOUS
      <3> HIDE DEF col
      <3> QED BY <2>1, <3>1, SummedTakes
    <2>5. ASSUME NEW x \in s PROVE Summed(row(x), K) \in Rationals
      <3>1. \A y \in K : row(x)[y] \in Rationals
        OBVIOUS
      <3> HIDE DEF row
      <3> QED BY <3>1, SummedTakes
    <2> HIDE DEF row, col
    <2> QED BY <2>1, <2>2, <2>3, <2>4, <2>5
  <1>2. {} \in P
    <2>1. \A y \in K : Columnwise(h, {}, K)[y] = Whole(0)
      <3>1. IsFiniteSet({})
        BY FS_EmptySet
      <3>2. ASSUME NEW y \in K PROVE Summed(col({}, y), {}) = Whole(0)
        BY <3>1, SummedTakes
      <3> HIDE DEF col
      <3> QED BY <1>1, <3>2
    <2>2. PICK z : z = Columnwise(h, {}, K)
      OBVIOUS
    <2>3. \A y \in K : z[y] \in Rationals /\ z[y] = Times(Whole(0), z[y])
      BY <2>1, <2>2, WholeIn, TimesLaws
    <2>4. Summed(z, K) = Times(Whole(0), Summed(z, K)) /\ Summed(z, K) \in Rationals
      <3>1. Summed(z, K) \in Rationals
        BY <2>3, SummedTakes
      <3>2. Summed(z, K) = Times(Whole(0), Summed(z, K))
        BY <2>3, WholeIn, SummedScale
      <3> QED BY <3>1, <3>2
    <2>5. Summed(z, K) = Whole(0)
      <3>1. Times(Whole(0), Summed(z, K)) = Times(Summed(z, K), Whole(0))
        BY <2>4, WholeIn, TimesLaws
      <3>2. Times(Summed(z, K), Whole(0)) = Whole(0)
        BY <2>4, TimesLaws
      <3> QED BY <2>4, <3>1, <3>2
    <2>6. Summed(Rowwise(h, {}, K), {}) = Whole(0)
      BY FS_EmptySet, SummedTakes
    <2> QED BY <2>2, <2>5, <2>6
  <1>3. ASSUME NEW s \in SUBSET S, NEW x \in s, s \ {x} \in P PROVE s \in P
    <2>1. PICK r \in SUBSET S : r = s \ {x}
      OBVIOUS
    <2>2. Summed(Rowwise(h, s, K), s) = Plus(Summed(row(x), K), Summed(Rowwise(h, r, K), r))
      <3>1. Summed(Rowwise(h, s, K), s) = Plus(Rowwise(h, s, K)[x], Summed(Rowwise(h, s, K), r))
        <4> HIDE DEF row, col
        <4> QED BY <1>1, <2>1, SummedTakes
      <3>2. \A y \in r : Rowwise(h, s, K)[y] = Rowwise(h, r, K)[y]
        BY <2>1 DEF Rowwise
      <3>3. Summed(Rowwise(h, s, K), r) = Summed(Rowwise(h, r, K), r)
        BY <3>2, SummedSame
      <3> HIDE DEF row, col
      <3> QED BY <1>1, <3>1, <3>3
    <2>3. \A y \in K : Columnwise(h, s, K)[y] = Plus(row(x)[y], Columnwise(h, r, K)[y])
      <3> SUFFICES ASSUME NEW y \in K
                   PROVE  Columnwise(h, s, K)[y] = Plus(row(x)[y], Columnwise(h, r, K)[y])
        OBVIOUS
      <3>1. \A c \in s : col(s, y)[c] \in Rationals
        OBVIOUS
      <3>2. col(s, y)[x] = row(x)[y]
        OBVIOUS
      <3>3. \A c \in r : col(s, y)[c] = col(r, y)[c]
        BY <2>1
      <3> HIDE DEF row, col
      <3>4. Summed(col(s, y), s) = Plus(col(s, y)[x], Summed(col(s, y), r))
        BY <1>1, <2>1, <3>1, SummedTakes
      <3>5. Summed(col(s, y), r) = Summed(col(r, y), r)
        BY <3>3, SummedSame
      <3> QED BY <1>1, <3>2, <3>4, <3>5
    <2>4. \A y \in K : row(x)[y] \in Rationals
      OBVIOUS
    <2> HIDE DEF row, col
    <2>5. Summed(Columnwise(h, s, K), K) = Plus(Summed(row(x), K), Summed(Columnwise(h, r, K), K))
      <3>1. \A y \in K : Columnwise(h, r, K)[y] \in Rationals
        BY <1>1
      <3> QED BY <2>3, <2>4, <3>1, SummedPlus
    <2> QED BY <1>3, <2>1, <2>2, <2>5
  <1>4. S \in P
    <2> HIDE DEF P
    <2> QED BY <1>2, <1>3, FiniteInduction
  <1> QED BY <1>4

\* A sum of zeros but for one value
LEMMA SummedOne ==
  ASSUME NEW S, IsFiniteSet(S), NEW y \in S, NEW h, h[y] \in Rationals,
         \A x \in S \ {y} : h[x] = Whole(0)
  PROVE  Summed(h, S) = h[y]
  <1>1. \A x \in S : h[x] \in Rationals
    BY WholeIn
  <1>2. Summed(h, S) = Plus(h[y], Summed(h, S \ {y}))
    BY <1>1, SummedTakes
  <1>3. Summed(h, S \ {y}) = Whole(0)
    <2>1. PICK r : r = S \ {y}
      OBVIOUS
    <2>2. IsFiniteSet(r) /\ \A x \in r : h[x] = Whole(0) /\ h[x] \in Rationals
      BY <1>1, <2>1, FS_Difference
    <2>3. \A x \in r : h[x] = Times(Whole(0), h[x])
      BY <2>2, TimesLaws
    <2>4. Summed(h, r) \in Rationals
      BY <2>2, SummedTakes
    <2>5. Summed(h, r) = Times(Whole(0), Summed(h, r))
      BY <2>2, <2>3, WholeIn, SummedScale
    <2>6. Times(Whole(0), Summed(h, r)) = Times(Summed(h, r), Whole(0))
      BY <2>4, WholeIn, TimesLaws
    <2>7. Times(Summed(h, r), Whole(0)) = Whole(0)
      BY <2>4, TimesLaws
    <2> QED BY <2>1, <2>5, <2>6, <2>7
  <1>4. Plus(h[y], Whole(0)) = h[y]
    BY PlusLaws
  <1> QED BY <1>2, <1>3, <1>4

LEMMA PlusPositive ==
  ASSUME NEW x \in Positive, NEW y \in Positive
  PROVE  Plus(x, y) \in Positive
  <1>1. PICK a \in Nat \ {0}, b \in Nat \ {0} : a = x[1] /\ b = x[2] /\ Ratio(x, a, b)
    BY RationalIs DEF Positive
  <1>2. PICK c \in Nat \ {0}, d \in Nat \ {0} : c = y[1] /\ d = y[2] /\ Ratio(y, c, d)
    BY RationalIs DEF Positive
  <1>3. Ratio(Plus(x, y), a * d + c * b, b * d)
    BY <1>1, <1>2, PlusOf
  <1>4. a * d + c * b \in Int /\ a * d + c * b > 0 /\ b * d \in Nat \ {0}
    <2>1. a * d \in Nat \ {0} /\ c * b \in Nat \ {0} /\ b * d \in Nat \ {0}
      OBVIOUS
    <2> QED BY <2>1
  <1> QED BY <1>3, <1>4, SignOf DEF Positive, Ratio

LEMMA SummedPositive ==
  ASSUME NEW S, IsFiniteSet(S), S # {}, NEW h, \A x \in S : h[x] \in Positive
  PROVE  Summed(h, S) \in Positive
  <1> DEFINE P == {s \in SUBSET S : s # {} => Summed(h, s) \in Positive}
  <1>1. {} \in P
    OBVIOUS
  <1>2. ASSUME NEW s \in SUBSET S, NEW x \in s, s \ {x} \in P PROVE s \in P
    <2>1. IsFiniteSet(s) /\ \A y \in s : h[y] \in Rationals
      BY FS_Subset DEF Positive
    <2>2. Summed(h, s) = Plus(h[x], Summed(h, s \ {x}))
      BY <2>1, SummedTakes
    <2>3. h[x] \in Positive
      OBVIOUS
    <2>4. CASE s \ {x} = {}
      <3>1. Summed(h, s \ {x}) = Whole(0)
        <4>1. IsFiniteSet({}) /\ \A y \in {} : h[y] \in Rationals
          BY FS_EmptySet
        <4> QED BY <2>4, <4>1, SummedTakes
      <3>2. Plus(h[x], Whole(0)) = h[x]
        BY <2>1, PlusLaws
      <3> QED BY <2>2, <2>3, <3>1, <3>2
    <2>5. CASE s \ {x} # {}
      <3>1. Summed(h, s \ {x}) \in Positive
        BY <1>2, <2>5
      <3>2. Plus(h[x], Summed(h, s \ {x})) \in Positive
        BY <2>3, <3>1, PlusPositive
      <3> QED BY <2>2, <3>2
    <2> QED BY <2>4, <2>5
  <1>3. S \in P
    <2> HIDE DEF P
    <2> QED BY <1>1, <1>2, FiniteInduction
  <1> QED BY <1>3

\* Products over intervals, which grow at either end
LEMMA MultipliedInterval ==
  ASSUME NEW a \in Int, NEW b \in Int, NEW h, \A t \in a..b : h[t] \in Rationals
  PROVE  /\ Multiplied(h, a..b) \in Rationals
         /\ b < a => Multiplied(h, a..b) = Whole(1)
         /\ a <= b => /\ Multiplied(h, a..b) = Times(h[a], Multiplied(h, (a + 1)..b))
                      /\ Multiplied(h, a..b) = Times(h[b], Multiplied(h, a..(b - 1)))
  <1> DEFINE S == a..b
  <1>1. IsFiniteSet(S)
    BY FS_Interval
  <1>2. b < a => S = {}
    OBVIOUS
  <1>3. a <= b => a \in S /\ b \in S /\ S \ {a} = (a + 1)..b /\ S \ {b} = a..(b - 1)
    <2>1. \A t : t \in S \ {a} <=> t \in (a + 1)..b
      OBVIOUS
    <2>2. \A t : t \in S \ {b} <=> t \in a..(b - 1)
      OBVIOUS
    <2> QED BY <2>1, <2>2
  <1>4. \A t \in S : h[t] \in Rationals
    OBVIOUS
  <1> HIDE DEF S
  <1>5. /\ Multiplied(h, S) \in Rationals
        /\ S = {} => Multiplied(h, S) = Whole(1)
        /\ \A y \in S : Multiplied(h, S) = Times(h[y], Multiplied(h, S \ {y}))
    BY <1>1, <1>4, MultipliedTakes
  <1>6. b < a => Multiplied(h, S) = Whole(1)
    BY <1>2, <1>5
  <1>7. ASSUME a <= b
        PROVE  /\ Multiplied(h, S) = Times(h[a], Multiplied(h, (a + 1)..b))
               /\ Multiplied(h, S) = Times(h[b], Multiplied(h, a..(b - 1)))
    <2>1. a \in S /\ b \in S /\ S \ {a} = (a + 1)..b /\ S \ {b} = a..(b - 1)
      BY <1>3, <1>7
    <2>2. Multiplied(h, S) = Times(h[a], Multiplied(h, S \ {a}))
      BY <1>5, <2>1
    <2>3. Multiplied(h, S) = Times(h[b], Multiplied(h, S \ {b}))
      BY <1>5, <2>1
    <2> QED BY <2>1, <2>2, <2>3
  <1> QED BY <1>5, <1>6, <1>7 DEF S

\* Induction from a upwards
LEMMA InductionFrom ==
  ASSUME NEW a \in Int, NEW b \in Int, NEW P, a \in P,
         \A k \in a..(b - 1) : k \in P => k + 1 \in P
  PROVE  \A k \in a..b : k \in P
  <1> DEFINE U == {d \in Nat : a + d <= b => a + d \in P}
  <1>1. 0 \in U
    OBVIOUS
  <1>2. ASSUME NEW d \in Nat, d \in U PROVE d + 1 \in U
    <2>1. ASSUME a + (d + 1) <= b PROVE a + (d + 1) \in P
      <3>1. a + d \in a..(b - 1) /\ a + d \in P /\ (a + d) + 1 = a + (d + 1)
        BY <1>2, <2>1
      <3>2. (a + d) + 1 \in P
        BY <3>1
      <3> QED BY <3>1, <3>2
    <2> QED BY <2>1
  <1>3. Nat \subseteq U
    <2> HIDE DEF U
    <2> QED BY <1>1, <1>2, Induction
  <1>4. ASSUME NEW k \in a..b PROVE k \in P
    <2>1. k - a \in Nat /\ a + (k - a) = k /\ k <= b
      OBVIOUS
    <2>2. k - a \in U
      BY <1>3, <2>1
    <2> QED BY <2>1, <2>2
  <1> QED BY <1>4

\* The product over an interval is that over its two parts.
LEMMA MultipliedSplit ==
  ASSUME NEW a \in Int, NEW b \in Int, NEW c \in Int, a <= b + 1, b <= c,
         NEW h, \A t \in a..c : h[t] \in Rationals
  PROVE  Multiplied(h, a..c) = Times(Multiplied(h, a..b), Multiplied(h, (b + 1)..c))
  <1> DEFINE P == {k \in Int : Multiplied(h, a..k) = Times(Multiplied(h, a..b), Multiplied(h, (b + 1)..k))}
  <1>1. \A t \in a..b : h[t] \in Rationals
    OBVIOUS
  <1>2. Multiplied(h, a..b) \in Rationals
    BY <1>1, MultipliedInterval
  <1>3. b \in P
    <2>1. Multiplied(h, (b + 1)..b) = Whole(1)
      <3>1. \A t \in (b + 1)..b : h[t] \in Rationals
        OBVIOUS
      <3>2. b < b + 1
        OBVIOUS
      <3> QED BY <3>1, <3>2, MultipliedInterval
    <2>2. Times(Multiplied(h, a..b), Whole(1)) = Times(Whole(1), Multiplied(h, a..b))
      BY <1>2, WholeIn, TimesLaws
    <2>3. Times(Whole(1), Multiplied(h, a..b)) = Multiplied(h, a..b)
      BY <1>2, TimesLaws
    <2> QED BY <2>1, <2>2, <2>3
  <1>4. ASSUME NEW k \in b..(c - 1), k \in P PROVE k + 1 \in P
    <2>1. /\ k + 1 \in Int /\ a <= k + 1 /\ b + 1 <= k + 1 /\ (k + 1) - 1 = k
          /\ \A t \in a..(k + 1) : h[t] \in Rationals
          /\ \A t \in (b + 1)..(k + 1) : h[t] \in Rationals
          /\ \A t \in (b + 1)..k : h[t] \in Rationals
      OBVIOUS
    <2>2. Multiplied(h, a..(k + 1)) = Times(h[k + 1], Multiplied(h, a..k))
      BY <2>1, MultipliedInterval
    <2>3. Multiplied(h, (b + 1)..(k + 1)) = Times(h[k + 1], Multiplied(h, (b + 1)..k))
      BY <2>1, MultipliedInterval
    <2>4. PICK x \in Rationals, y \in Rationals, z \in Rationals :
            x = h[k + 1] /\ y = Multiplied(h, a..b) /\ z = Multiplied(h, (b + 1)..k)
      <3>1. k + 1 \in a..(k + 1) /\ k \in Int
        OBVIOUS
      <3>2. Multiplied(h, (b + 1)..k) \in Rationals
        BY <2>1, <3>1, MultipliedInterval
      <3> QED BY <1>2, <2>1, <3>1, <3>2
    <2>5. Multiplied(h, a..k) = Times(y, z)
      BY <1>4, <2>4
    <2>6. Times(x, Times(y, z)) = Times(y, Times(x, z))
      <3>1. Times(x, Times(y, z)) = Times(Times(x, y), z) /\ Times(x, y) = Times(y, x)
        BY TimesLaws
      <3>2. Times(Times(y, x), z) = Times(y, Times(x, z))
        BY TimesLaws
      <3> QED BY <3>1, <3>2
    <2> QED BY <2>1, <2>2, <2>3, <2>4, <2>5, <2>6
  <1>5. \A k \in b..c : k \in P
    <2> HIDE DEF P
    <2> QED BY <1>3, <1>4, InductionFrom
  <1>6. c \in b..c
    OBVIOUS
  <1> QED BY <1>5, <1>6

LEMMA MultipliedPositive ==
  ASSUME NEW a \in Int, NEW b \in Int, NEW h, \A t \in a..b : h[t] \in Positive
  PROVE  Multiplied(h, a..b) \in Positive
  <1> DEFINE S == a..b
             P == {s \in SUBSET S : Multiplied(h, s) \in Positive}
  <1>0. IsFiniteSet(S) /\ \A t \in S : h[t] \in Positive
    BY FS_Interval
  <1> HIDE DEF S
  <1>1. {} \in P
    <2>1. IsFiniteSet({}) /\ \A y \in {} : h[y] \in Rationals
      BY FS_EmptySet
    <2>2. Multiplied(h, {}) = Whole(1)
      BY <2>1, MultipliedTakes
    <2>3. Whole(1) \in Positive
      BY WholeIn DEF Whole, Positive
    <2> QED BY <2>2, <2>3
  <1>2. ASSUME NEW s \in SUBSET S, NEW x \in s, s \ {x} \in P PROVE s \in P
    <2>1. IsFiniteSet(s) /\ \A y \in s : h[y] \in Rationals
      BY <1>0, FS_Subset DEF Positive
    <2>2. Multiplied(h, s) = Times(h[x], Multiplied(h, s \ {x}))
      BY <2>1, MultipliedTakes
    <2>3. h[x] \in Positive /\ Multiplied(h, s \ {x}) \in Positive
      BY <1>0, <1>2
    <2>4. Times(h[x], Multiplied(h, s \ {x})) \in Positive
      BY <2>3, PositiveLaws
    <2> QED BY <2>2, <2>4
  <1>3. S \in P
    <2> HIDE DEF P
    <2> QED BY <1>0, <1>1, <1>2, FiniteInduction
  <1> QED BY <1>3 DEF S

\* Functions between finite sets are finitely many.
LEMMA FunctionsFinite ==
  ASSUME NEW A, IsFiniteSet(A), NEW B, IsFiniteSet(B)
  PROVE  IsFiniteSet([A -> B])
  <1> DEFINE graph == [f \in [A -> B] |-> {<<x, f[x]>> : x \in A}]
             G == SUBSET (A \X B)
  <1>1. IsFiniteSet(A \X B)
    BY FS_Product
  <1>2. IsFiniteSet(G)
    BY <1>1, FS_SUBSET
  <1>3. graph \in [[A -> B] -> G]
    OBVIOUS
  <1>4. ASSUME NEW f \in [A -> B], NEW g \in [A -> B], graph[f] = graph[g] PROVE f = g
    <2>1. ASSUME NEW x \in A PROVE f[x] = g[x]
      <3>1. <<x, f[x]>> \in graph[f]
        OBVIOUS
      <3>2. <<x, f[x]>> \in graph[g]
        BY <1>4, <3>1
      <3>3. PICK y \in A : <<x, f[x]>> = <<y, g[y]>>
        BY <3>2
      <3> QED BY <3>3
    <2> QED BY <2>1
  <1>5. graph \in Injection([A -> B], G)
    <2> HIDE DEF graph, G
    <2> QED BY <1>3, <1>4 DEF Injection, IsInjective
  <1> HIDE DEF graph, G
  <1> QED BY <1>2, <1>5, FS_Injection

LEMMA SameFunction ==
  ASSUME NEW A, NEW B, NEW p \in [A -> B], NEW r \in [A -> B], \A x \in A : p[x] = r[x]
  PROVE  p = r
  OBVIOUS

LEMMA PositiveIn ==
  /\ \A x \in Positive : x \in Rationals /\ x # Whole(0)
  /\ Whole(1) \in Positive
  <1>1. Whole(1) \in Positive
    BY WholeIn DEF Whole, Positive
  <1> QED BY <1>1, PositiveLaws DEF Positive

LEMMA ZeroTimes ==
  ASSUME NEW x \in Rationals
  PROVE  Times(Whole(0), x) = Whole(0) /\ Times(x, Whole(0)) = Whole(0)
  <1>1. Times(Whole(0), x) = Times(x, Whole(0))
    BY WholeIn, TimesLaws
  <1> QED BY <1>1, TimesLaws

LEMMA TimesShuffle ==
  ASSUME NEW x \in Rationals, NEW y \in Rationals, NEW z \in Rationals, NEW u \in Rationals
  PROVE  Times(x, Times(Times(y, z), u)) = Times(Times(z, u), Times(x, y))
  <1>1. PICK v \in Rationals : v = Times(z, u)
    BY TimesLaws
  <1>2. Times(Times(y, z), u) = Times(y, v)
    BY <1>1, TimesLaws
  <1>3. Times(x, Times(y, v)) = Times(Times(x, y), v) /\ Times(x, y) \in Rationals
    BY TimesLaws
  <1>4. Times(Times(x, y), v) = Times(v, Times(x, y))
    BY <1>3, TimesLaws
  <1> QED BY <1>1, <1>2, <1>3, <1>4

\* The product of two products
LEMMA MultipliedTimes ==
  ASSUME NEW S, IsFiniteSet(S),
         NEW g, \A x \in S : g[x] \in Rationals,
         NEW h, \A x \in S : h[x] \in Rationals,
         NEW f, \A x \in S : f[x] = Times(g[x], h[x])
  PROVE  Multiplied(f, S) = Times(Multiplied(g, S), Multiplied(h, S))
  <1> DEFINE P == {s \in SUBSET S : Multiplied(f, s) = Times(Multiplied(g, s), Multiplied(h, s))}
  <1>1. ASSUME NEW s \in SUBSET S
        PROVE  /\ IsFiniteSet(s)
               /\ \A x \in s : h[x] \in Rationals /\ g[x] \in Rationals /\ f[x] \in Rationals
               /\ Multiplied(h, s) \in Rationals /\ Multiplied(g, s) \in Rationals
    <2>1. IsFiniteSet(s)
      BY FS_Subset
    <2>2. \A x \in s : h[x] \in Rationals /\ g[x] \in Rationals /\ f[x] \in Rationals
      BY TimesLaws
    <2>3. Multiplied(h, s) \in Rationals
      BY <2>1, <2>2, MultipliedTakes
    <2>4. Multiplied(g, s) \in Rationals
      BY <2>1, <2>2, MultipliedTakes
    <2> QED BY <2>1, <2>2, <2>3, <2>4
  <1>2. {} \in P
    <2>1. {} \in SUBSET S
      OBVIOUS
    <2>2. Multiplied(h, {}) = Whole(1) /\ Multiplied(g, {}) = Whole(1)
      BY <1>1, <2>1, MultipliedTakes
    <2>3. Multiplied(f, {}) = Whole(1)
      BY <1>1, <2>1, MultipliedTakes
    <2>4. Times(Whole(1), Whole(1)) = Whole(1)
      BY WholeIn, TimesLaws
    <2> QED BY <2>2, <2>3, <2>4
  <1>3. ASSUME NEW s \in SUBSET S, NEW x \in s, s \ {x} \in P PROVE s \in P
    <2>1. s \ {x} \in SUBSET S
      OBVIOUS
    <2>2. Multiplied(h, s) = Times(h[x], Multiplied(h, s \ {x}))
      BY <1>1, MultipliedTakes
    <2>3. Multiplied(g, s) = Times(g[x], Multiplied(g, s \ {x}))
      BY <1>1, MultipliedTakes
    <2>4. Multiplied(f, s) = Times(f[x], Multiplied(f, s \ {x}))
      BY <1>1, MultipliedTakes
    <2>5. PICK a \in Rationals, b \in Rationals : a = h[x] /\ b = Multiplied(h, s \ {x})
      BY <1>1, <2>1
    <2>6. PICK d \in Rationals, e \in Rationals : d = g[x] /\ e = Multiplied(g, s \ {x})
      BY <1>1, <2>1
    <2>7. f[x] = Times(d, a) /\ Multiplied(f, s \ {x}) = Times(e, b)
      BY <1>3, <2>5, <2>6
    <2>8. Times(Times(d, a), Times(e, b)) = Times(Times(d, e), Times(a, b))
      <3>1. Times(Times(d, a), Times(e, b)) = Times(d, Times(a, Times(e, b)))
        <4>1. Times(e, b) \in Rationals
          BY TimesLaws
        <4> QED BY <4>1, TimesLaws
      <3>2. Times(a, Times(e, b)) = Times(Times(a, e), b) /\ Times(a, e) = Times(e, a)
        BY TimesLaws
      <3>3. Times(Times(e, a), b) = Times(e, Times(a, b)) /\ Times(a, b) \in Rationals
        BY TimesLaws
      <3>4. Times(d, Times(e, Times(a, b))) = Times(Times(d, e), Times(a, b))
        BY <3>3, TimesLaws
      <3> QED BY <3>1, <3>2, <3>3, <3>4
    <2> QED BY <2>2, <2>3, <2>4, <2>5, <2>6, <2>7, <2>8
  <1>4. S \in P
    <2> HIDE DEF P
    <2> QED BY <1>2, <1>3, FiniteInduction
  <1> QED BY <1>4

LEMMA TimesFour ==
  ASSUME NEW x \in Rationals, NEW y \in Rationals, NEW z \in Rationals, NEW u \in Rationals
  PROVE  Times(Times(x, y), Times(z, u)) = Times(Times(x, z), Times(y, u))
  <1>1. Times(Times(x, y), Times(z, u)) = Times(x, Times(y, Times(z, u)))
    <2>1. Times(z, u) \in Rationals
      BY TimesLaws
    <2> QED BY <2>1, TimesLaws
  <1>2. Times(y, Times(z, u)) = Times(Times(y, z), u) /\ Times(y, z) = Times(z, y)
    BY TimesLaws
  <1>3. Times(Times(z, y), u) = Times(z, Times(y, u)) /\ Times(y, u) \in Rationals
    BY TimesLaws
  <1>4. Times(x, Times(z, Times(y, u))) = Times(Times(x, z), Times(y, u))
    BY <1>3, TimesLaws
  <1> QED BY <1>1, <1>2, <1>3, <1>4

LEMMA PartOfOne ==
  ASSUME NEW d \in Nat \ {0}
  PROVE  Ratio(<<1, d>>, 1, d) /\ <<1, d>> \in Positive
  <1>1. LowestTerms(Frac(1, d), 1, d)
    BY FracIsLowest
  <1>2. PICK p \in Int, q \in Nat \ {0} : Frac(1, d) = <<p, q>> /\ p * d = 1 * q /\ q <= d
    BY <1>1 DEF LowestTerms
  <1>3. p = 1 /\ q = d
    <2>1. p * d > 0 /\ p * d <= d
      BY <1>2
    <2>2. p >= 1
      BY <2>1
    <2>3. p <= 1
      <3> SUFFICES ASSUME p >= 2 PROVE FALSE
        OBVIOUS
      <3>1. p * d >= 2 * d
        OBVIOUS
      <3> QED BY <2>1, <3>1
    <2>4. p = 1
      BY <2>2, <2>3
    <2> QED BY <1>2, <2>4
  <1>4. Ratio(<<1, d>>, 1, d)
    BY <1>2, <1>3, FracRatio
  <1> QED BY <1>4 DEF Ratio, Positive
===============================================================================
