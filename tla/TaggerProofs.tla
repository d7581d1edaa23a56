----------------------------- MODULE TaggerProofs -----------------------------
(***************************************************************************)
(* For every model and every sequence, and whatever the client asked       *)
(* before: Viterbi returns a best path with its score, the tables the      *)
(* answers are computed from are those of the model and of the sequence    *)
(* that is set, score() is the worth of the path, lognorm() that of all    *)
(* paths together, and a marginal is the share of the paths asked for.     *)
(*                                                                         *)
(* The first part proves the algorithms right for any scores, by induction *)
(* over the items: Viterbi, then forward-backward, whose fractions are     *)
(* sums over paths. The second follows the tables from call to call.       *)
(***************************************************************************)
EXTENDS Tagger, Foundations

-----------------------------------------------------------------------------

\* Numbers for the labels have a greatest one.
LEMMA GreatestLabel ==
  ASSUME NEW h, \A l \in Labels : h[l] \in Int
  PROVE  \E b \in Labels : \A l \in Labels : h[l] <= h[b]
  <1> DEFINE U == {k \in Nat : k < NumLabels =>
                        \E b \in 0..k : \A l \in 0..k : h[l] <= h[b]}
  <1>1. NumLabels \in Nat \ {0} /\ Labels = 0..(NumLabels - 1)
    BY LabelsAssumption DEF LabelsAssumption, Labels
  <1>2. 0 \in U
    <2>1. 0..0 = {0} /\ h[0] \in Int
      BY <1>1
    <2> QED BY <2>1
  <1>3. ASSUME NEW k \in Nat, k \in U PROVE k + 1 \in U
    <2> SUFFICES ASSUME k + 1 < NumLabels
                 PROVE  \E b \in 0..(k + 1) : \A l \in 0..(k + 1) : h[l] <= h[b]
      OBVIOUS
    <2>1. PICK b \in 0..k : \A l \in 0..k : h[l] <= h[b]
      BY <1>1, <1>3
    <2>2. h[b] \in Int /\ h[k + 1] \in Int /\ \A l \in 0..k : h[l] \in Int
      BY <1>1
    <2>3. \A l \in 0..(k + 1) : l \in 0..k \/ l = k + 1
      OBVIOUS
    <2>4. CASE h[k + 1] <= h[b]
      <3>1. b \in 0..(k + 1) /\ \A l \in 0..(k + 1) : h[l] <= h[b]
        BY <2>1, <2>3, <2>4
      <3> QED BY <3>1
    <2>5. CASE ~(h[k + 1] <= h[b])
      <3>1. \A l \in 0..k : h[l] <= h[k + 1]
        BY <2>1, <2>2, <2>5
      <3>2. k + 1 \in 0..(k + 1) /\ \A l \in 0..(k + 1) : h[l] <= h[k + 1]
        BY <2>2, <2>3, <3>1
      <3> QED BY <3>2
    <2> QED BY <2>4, <2>5
  <1>4. NumLabels - 1 \in U
    <2>1. Nat \subseteq U
      BY <1>2, <1>3, Induction
    <2>2. NumLabels - 1 \in Nat
      BY <1>1
    <2> HIDE DEF U
    <2> QED BY <2>1, <2>2
  <1> QED BY <1>1, <1>4

-----------------------------------------------------------------------------
(* Viterbi. st and tr are scores of labels and of their transitions.       *)

Scores(n, st, tr) ==
    /\ n \in Nat \ {0}
    /\ \A t \in 0..(n - 1) : st[t] \in [Labels -> Int]
    /\ \A i, j \in Labels : tr[i][j] \in Int

\* The best predecessor of a label, the first of several
LEMMA BestPredecessor ==
  ASSUME NEW prev, NEW tr, NEW j \in Labels,
         \A i \in Labels : prev[i] \in Int /\ tr[i][j] \in Int
  PROVE  LET b == BackInto(prev, tr, j)
         IN /\ BestInto(prev, tr, j) \in Int
            /\ \A i \in Labels : prev[i] + tr[i][j] <= BestInto(prev, tr, j)
            /\ b \in Labels
            /\ prev[b] + tr[b][j] = BestInto(prev, tr, j)
            /\ \A i \in Labels : prev[i] + tr[i][j] = BestInto(prev, tr, j) => b <= i
  <1> DEFINE h == [i \in Labels |-> prev[i] + tr[i][j]]
             S == {prev[i] + tr[i][j] : i \in Labels}
             A == {i \in Labels : prev[i] + tr[i][j] = BestInto(prev, tr, j)}
  <1>1. \A i \in Labels : h[i] \in Int /\ h[i] = prev[i] + tr[i][j]
    OBVIOUS
  <1>2. PICK b0 \in Labels : \A i \in Labels : h[i] <= h[b0]
    <2> HIDE DEF h
    <2> QED BY <1>1, GreatestLabel
  <1>3. h[b0] \in S /\ \A y \in S : h[b0] >= y
    BY <1>1, <1>2
  <1>4. BestInto(prev, tr, j) = Max(S)
    BY DEF BestInto
  <1>5. BestInto(prev, tr, j) \in S /\ \A y \in S : BestInto(prev, tr, j) >= y
    <2> HIDE DEF S
    <2> QED BY <1>3, <1>4, MaxIs
  <1>6. A # {} /\ A \subseteq Nat /\ A \subseteq Labels
    BY <1>5 DEF Labels
  <1>7. BackInto(prev, tr, j) = Min(A)
    BY DEF BackInto
  <1>8. BackInto(prev, tr, j) \in A /\ \A i \in A : BackInto(prev, tr, j) <= i
    <2> HIDE DEF A
    <2> QED BY <1>6, <1>7, MinIs
  <1>9. BestInto(prev, tr, j) \in Int /\ \A i \in Labels : prev[i] + tr[i][j] <= BestInto(prev, tr, j)
    BY <1>1, <1>5
  <1> QED BY <1>8, <1>9

\* The rows satisfy the recursion that defines them.
LEMMA RowsAre ==
  ASSUME NEW n, NEW st, NEW tr, Scores(n, st, tr)
  PROVE  LET rows == ViterbiRows(n, st, tr)
         IN /\ \A t \in 0..(n - 1) : rows[t] \in [Labels -> Int]
            /\ rows[0] = st[0]
            /\ \A t \in 1..(n - 1) : \A j \in Labels :
                    rows[t][j] = BestInto(rows[t - 1], tr, j) + st[t][j]
  <1> DEFINE R == [Labels -> Int]
             next(t, prev) == [j \in Labels |-> BestInto(prev, tr, j) + st[t][j]]
             step == [p \in (1..(n - 1)) \X R |-> next(p[1], p[2])]
             Body(row) == [t \in 0..(n - 1) |-> IF t = 0 THEN st[0]
                              ELSE LET prev == row[t - 1]
                                   IN [j \in Labels |-> BestInto(prev, tr, j) + st[t][j]]]
  <1>1. /\ n - 1 \in Nat /\ st[0] \in R
        /\ \A t \in 1..(n - 1) : t \in 0..(n - 1) /\ t # 0 /\ t - 1 \in 0..(n - 1)
        /\ 0 \in 0..(n - 1)
    BY DEF Scores
  <1>2. ASSUME NEW t \in 1..(n - 1), NEW prev \in R PROVE next(t, prev) \in R
    <2>1. ASSUME NEW j \in Labels PROVE BestInto(prev, tr, j) + st[t][j] \in Int
      <3>1. st[t][j] \in Int /\ \A i \in Labels : prev[i] \in Int /\ tr[i][j] \in Int
        BY <1>1 DEF Scores
      <3>2. BestInto(prev, tr, j) \in Int
        BY <3>1, BestPredecessor
      <3> QED BY <3>1, <3>2
    <2> QED BY <2>1
  <1>3. step \in Steps(n - 1, R)
    <2> HIDE DEF next, R
    <2> QED BY <1>2 DEF Steps
  <1>4. PICK f : Follows(f, n - 1, R, st[0], step)
    <2> HIDE DEF step, R
    <2> QED BY <1>1, <1>3, Recursion
  <1>4a. /\ f \in [0..(n - 1) -> R] /\ f[0] = st[0]
         /\ \A t \in 1..(n - 1) : f[t] = step[<<t, f[t - 1]>>]
    <2> HIDE DEF step, R
    <2> QED BY <1>4 DEF Follows
  <1>5. ASSUME NEW t \in 1..(n - 1) PROVE f[t] = next(t, f[t - 1])
    <2>1. f[t - 1] \in R
      <3> HIDE DEF R
      <3> QED BY <1>1, <1>4a
    <2> HIDE DEF next, R
    <2> QED BY <1>4a, <2>1
  <1>6. f = Body(f)
    <2>1. ASSUME NEW t \in 0..(n - 1)
          PROVE  f[t] = IF t = 0 THEN st[0] ELSE next(t, f[t - 1])
      <3>1. CASE t = 0
        BY <1>4a, <3>1
      <3>2. CASE t # 0
        <4>1. t \in 1..(n - 1)
          BY <3>2
        <4> QED BY <1>5, <3>2, <4>1
      <3> QED BY <3>1, <3>2
    <2>2. f = [t \in 0..(n - 1) |-> f[t]]
      BY <1>4a
    <2> HIDE DEF R
    <2> QED BY <2>1, <2>2
  <1> DEFINE rows == ViterbiRows(n, st, tr)
  <1>7. rows = Body(rows)
    <2>1. rows = CHOOSE row : row = Body(row)
      BY DEF ViterbiRows
    <2> HIDE DEF rows, Body
    <2> QED BY <1>6, <2>1
  <1> HIDE DEF rows
  <1>8. rows[0] = st[0] /\ \A t \in 1..(n - 1) : rows[t] = next(t, rows[t - 1])
    <2>1. \A t \in 0..(n - 1) : rows[t] = IF t = 0 THEN st[0] ELSE next(t, rows[t - 1])
      BY <1>7
    <2> HIDE DEF next, Body
    <2> QED BY <1>1, <2>1
  <1> DEFINE U == {k \in Nat : k <= n - 1 => rows[k] \in R}
  <1>9. Nat \subseteq U
    <2>1. 0 \in U
      BY <1>1, <1>8
    <2>2. ASSUME NEW k \in Nat, k \in U PROVE k + 1 \in U
      <3> SUFFICES ASSUME k + 1 <= n - 1 PROVE rows[k + 1] \in R
        OBVIOUS
      <3>1. k + 1 \in 1..(n - 1) /\ (k + 1) - 1 = k /\ k <= n - 1
        BY <1>1
      <3>2. rows[k] \in R
        BY <2>2, <3>1
      <3>3. rows[k + 1] = next(k + 1, rows[k])
        <4> HIDE DEF next
        <4> QED BY <1>8, <3>1
      <3> HIDE DEF next, R
      <3> QED BY <1>2, <3>1, <3>2, <3>3
    <2> HIDE DEF U
    <2> QED BY <2>1, <2>2, Induction
  <1>10. \A t \in 0..(n - 1) : rows[t] \in R
    <2> HIDE DEF R
    <2> QED BY <1>9
  <1>11. \A t \in 1..(n - 1) : \A j \in Labels :
            rows[t][j] = BestInto(rows[t - 1], tr, j) + st[t][j]
    BY <1>8
  <1> HIDE DEF next, step, Body, U
  <1> QED BY <1>8, <1>10, <1>11 DEF rows

\* The labels of the trace: the first best one of the last row, and then
\* back along the edges.
LEMMA TraceIs ==
  ASSUME NEW n \in Nat \ {0}, NEW rows, NEW tr,
         \A t \in 0..(n - 1) : rows[t] \in [Labels -> Int],
         \A i, j \in Labels : tr[i][j] \in Int
  PROVE  LET p == Trace(n, rows, BackEdges(n, rows, tr))
         IN /\ p \in [0..(n - 1) -> Labels]
            /\ \A k \in Labels : rows[n - 1][k] <= rows[n - 1][p[n - 1]]
            /\ \A k \in Labels : rows[n - 1][k] = rows[n - 1][p[n - 1]] => p[n - 1] <= k
            /\ \A t \in 1..(n - 1) : p[t - 1] = BackInto(rows[t - 1], tr, p[t])
  <1> DEFINE last == rows[n - 1]
             best == {i \in Labels : \A k \in Labels : last[k] <= last[i]}
             a == Min(best)
             edge == [q \in (1..(n - 1)) \X Labels |-> BackInto(rows[q[1] - 1], tr, q[2])]
             back0 == BackEdges(n, rows, tr)
             Body(path) == [t \in 0..(n - 1) |-> IF t = n - 1 THEN a ELSE back0[t + 1][path[t + 1]]]
  <1>1. n - 1 \in 0..(n - 1) /\ \A l \in Labels : last[l] \in Int
    OBVIOUS
  <1>2. a \in best /\ \A i \in best : a <= i
    <2>1. PICK b \in Labels : \A l \in Labels : last[l] <= last[b]
      <3> HIDE DEF last
      <3> QED BY <1>1, GreatestLabel
    <2>2. best # {} /\ best \subseteq Nat
      BY <2>1 DEF Labels
    <2> HIDE DEF best
    <2> QED BY <2>2, MinIs
  <1>3. a \in Labels
    <2> HIDE DEF a
    <2> QED BY <1>2
  <1>4. ASSUME NEW t \in 1..(n - 1), NEW j \in Labels PROVE BackInto(rows[t - 1], tr, j) \in Labels
    <2>1. t - 1 \in 0..(n - 1)
      OBVIOUS
    <2>2. \A i \in Labels : rows[t - 1][i] \in Int /\ tr[i][j] \in Int
      BY <2>1
    <2> QED BY <2>2, BestPredecessor
  <1>5. edge \in Steps(n - 1, Labels)
    BY <1>4 DEF Steps
  <1>6. ASSUME NEW t \in 1..(n - 1), NEW j \in Labels
        PROVE  edge[<<t, j>>] = BackInto(rows[t - 1], tr, j) /\ back0[t][j] = BackInto(rows[t - 1], tr, j)
    BY DEF BackEdges
  <1> HIDE DEF edge, a
  <1>7. PICK f : Precedes(f, n - 1, Labels, a, edge)
    BY <1>1, <1>3, <1>5, BackRecursion
  <1>7a. /\ f \in [0..(n - 1) -> Labels] /\ f[n - 1] = a
         /\ \A t \in 1..(n - 1) : f[t - 1] = edge[<<t, f[t]>>]
    BY <1>7 DEF Precedes
  <1>8. f = Body(f)
    <2>1. ASSUME NEW t \in 0..(n - 1)
          PROVE  f[t] = IF t = n - 1 THEN a ELSE back0[t + 1][f[t + 1]]
      <3>1. CASE t = n - 1
        BY <1>7a, <3>1
      <3>2. CASE t # n - 1
        <4>1. t + 1 \in 1..(n - 1) /\ t + 1 \in 0..(n - 1) /\ (t + 1) - 1 = t
          BY <3>2
        <4>2. f[t + 1] \in Labels
          BY <1>7a, <4>1
        <4>3. f[t] = edge[<<t + 1, f[t + 1]>>]
          BY <1>7a, <4>1
        <4> QED BY <1>6, <3>2, <4>1, <4>2, <4>3
      <3> QED BY <3>1, <3>2
    <2>2. f = [t \in 0..(n - 1) |-> f[t]]
      BY <1>7a
    <2> HIDE DEF back0
    <2> QED BY <2>1, <2>2
  <1> DEFINE path == CHOOSE path : path = Body(path)
             p == Trace(n, rows, back0)
  <1>9. path = Body(path)
    <2> HIDE DEF Body
    <2> QED BY <1>8
  <1>10. p = [t \in 0..(n - 1) |-> path[t]]
    <2> HIDE DEF back0
    <2> QED BY DEF Trace, a
  <1> HIDE DEF path, p
  <1>11. p[n - 1] = a
    BY <1>1, <1>9, <1>10
  <1>12. ASSUME NEW t \in 1..(n - 1), p[t] \in Labels
         PROVE  p[t - 1] = BackInto(rows[t - 1], tr, p[t])
    <2>1. t - 1 \in 0..(n - 1) /\ t - 1 # n - 1 /\ (t - 1) + 1 = t /\ t \in 0..(n - 1)
      OBVIOUS
    <2>2. path[t - 1] = back0[(t - 1) + 1][path[(t - 1) + 1]]
      <3> HIDE DEF back0
      <3> QED BY <1>9, <2>1
    <2>3. p[t - 1] = back0[t][p[t]]
      <3> HIDE DEF back0
      <3> QED BY <1>10, <2>1, <2>2
    <2> QED BY <1>6, <1>12, <2>3
  <1> DEFINE U == {d \in Nat : d <= n - 1 => p[(n - 1) - d] \in Labels}
  <1>13. Nat \subseteq U
    <2>1. 0 \in U
      BY <1>3, <1>11
    <2>2. ASSUME NEW d \in Nat, d \in U PROVE d + 1 \in U
      <3> SUFFICES ASSUME d + 1 <= n - 1 PROVE p[(n - 1) - (d + 1)] \in Labels
        OBVIOUS
      <3>1. (n - 1) - d \in 1..(n - 1) /\ ((n - 1) - d) - 1 = (n - 1) - (d + 1) /\ d <= n - 1
        OBVIOUS
      <3>2. p[(n - 1) - d] \in Labels
        BY <2>2, <3>1
      <3> QED BY <1>4, <1>12, <3>1, <3>2
    <2> HIDE DEF U
    <2> QED BY <2>1, <2>2, Induction
  <1>14. ASSUME NEW t \in 0..(n - 1) PROVE p[t] \in Labels
    <2>1. (n - 1) - t \in Nat /\ (n - 1) - t <= n - 1 /\ (n - 1) - ((n - 1) - t) = t
      OBVIOUS
    <2>2. (n - 1) - t \in U
      <3> HIDE DEF U
      <3> QED BY <1>13, <2>1
    <2>3. p[(n - 1) - ((n - 1) - t)] \in Labels
      BY <2>1, <2>2
    <2> QED BY <2>1, <2>3
  <1>15. p \in [0..(n - 1) -> Labels]
    BY <1>10, <1>14
  <1>16. \A t \in 1..(n - 1) : p[t - 1] = BackInto(rows[t - 1], tr, p[t])
    BY <1>12, <1>14
  <1>17. \A k \in Labels : last[k] <= last[p[n - 1]]
    BY <1>2, <1>11
  <1>18. ASSUME NEW k \in Labels, last[k] = last[p[n - 1]] PROVE p[n - 1] <= k
    <2>1. k \in best
      BY <1>17, <1>18
    <2> QED BY <1>2, <1>11, <2>1
  <1> QED BY <1>15, <1>16, <1>17, <1>18 DEF p

-----------------------------------------------------------------------------
(* What a path scores on its items up to k *)

\* The paths of n items
Ways(n) == [0..(n - 1) -> Labels]

StepScores(st, tr, p, n) == [t \in 1..(n - 1) |-> tr[p[t - 1]][p[t]] + st[t][p[t]]]
Part(st, tr, p, n, k) == st[0][p[0]] + SumOver(StepScores(st, tr, p, n), 1..k)

LEMMA PartIs ==
  ASSUME NEW n, NEW st, NEW tr, Scores(n, st, tr), NEW p \in Ways(n)
  PROVE  /\ Part(st, tr, p, n, 0) = st[0][p[0]]
         /\ \A k \in 0..(n - 1) : Part(st, tr, p, n, k) \in Int
         /\ \A k \in 1..(n - 1) :
                Part(st, tr, p, n, k) = Part(st, tr, p, n, k - 1) + (tr[p[k - 1]][p[k]] + st[k][p[k]])
  <1> DEFINE h == StepScores(st, tr, p, n)
  <1>1. /\ st[0][p[0]] \in Int
        /\ \A t \in 1..(n - 1) : /\ h[t] = tr[p[t - 1]][p[t]] + st[t][p[t]]
                                 /\ h[t] \in Int
    <2>1. 0 \in 0..(n - 1) /\ \A t \in 1..(n - 1) : t \in 0..(n - 1) /\ t - 1 \in 0..(n - 1)
      BY DEF Scores
    <2>2. \A t \in 0..(n - 1) : p[t] \in Labels /\ st[t][p[t]] \in Int
      BY DEF Scores, Ways
    <2>3. \A t \in 1..(n - 1) : tr[p[t - 1]][p[t]] \in Int
      BY <2>1, <2>2 DEF Scores
    <2> QED BY <2>1, <2>2, <2>3 DEF StepScores
  <1> HIDE DEF h
  <1>2. ASSUME NEW k \in 0..(n - 1)
        PROVE  /\ SumOver(h, 1..k) \in Int
               /\ k = 0 => SumOver(h, 1..k) = 0
               /\ k # 0 => SumOver(h, 1..k) = SumOver(h, 1..(k - 1)) + h[k]
    <2>1. IsFiniteSet(1..k)
      BY FS_Interval DEF Scores
    <2>2. \A t \in 1..k : h[t] \in Int
      BY <1>1 DEF Scores
    <2>3. k = 0 => 1..k = {}
      BY DEF Scores
    <2>4. k # 0 => k \in 1..k /\ (1..k) \ {k} = 1..(k - 1)
      <3>1. k \in Nat
        BY DEF Scores
      <3>2. \A t : t \in (1..k) \ {k} <=> t \in 1..(k - 1)
        BY <3>1
      <3> QED BY <3>1, <3>2
    <2> DEFINE S == 1..k
    <2>5. /\ SumOver(h, S) \in Int
          /\ S = {} => SumOver(h, S) = 0
          /\ \A y \in S : SumOver(h, S) = SumOver(h, S \ {y}) + h[y]
      <3> HIDE DEF S
      <3> QED BY <2>1, <2>2, SumRemove DEF S
    <2>6. k # 0 => SumOver(h, S) = SumOver(h, S \ {k}) + h[k]
      BY <2>4, <2>5
    <2> QED BY <2>3, <2>4, <2>5, <2>6
  <1> DEFINE W(k) == SumOver(h, 1..k)
  <1>3. \A k : Part(st, tr, p, n, k) = st[0][p[0]] + W(k)
    BY DEF Part, h
  <1>4. 0 \in 0..(n - 1) /\ \A k \in 1..(n - 1) : k \in 0..(n - 1) /\ k # 0 /\ k - 1 \in 0..(n - 1)
    BY DEF Scores
  <1>5. \A k \in 0..(n - 1) : W(k) \in Int
    BY <1>2
  <1>6. W(0) = 0
    BY <1>2, <1>4
  <1>7. \A k \in 1..(n - 1) : W(k) = W(k - 1) + h[k]
    BY <1>2, <1>4
  <1> HIDE DEF W
  <1>8. Part(st, tr, p, n, 0) = st[0][p[0]]
    BY <1>1, <1>3, <1>6
  <1>9. \A k \in 0..(n - 1) : Part(st, tr, p, n, k) \in Int
    BY <1>1, <1>3, <1>5
  <1>10. ASSUME NEW k \in 1..(n - 1)
         PROVE  Part(st, tr, p, n, k) = Part(st, tr, p, n, k - 1) + (tr[p[k - 1]][p[k]] + st[k][p[k]])
    <2>1. W(k - 1) \in Int /\ h[k] \in Int /\ h[k] = tr[p[k - 1]][p[k]] + st[k][p[k]]
      BY <1>1, <1>4, <1>5
    <2>2. st[0][p[0]] + W(k) = (st[0][p[0]] + W(k - 1)) + h[k]
      BY <1>1, <1>7, <2>1
    <2> QED BY <1>3, <2>1, <2>2
  <1> QED BY <1>8, <1>9, <1>10

\* PathScore() adds up the items to the last.
LEMMA PathScoreIs ==
  ASSUME NEW n, NEW st, NEW tr, NEW p
  PROVE  PathScore(n, st, tr, p) = Part(st, tr, p, n, n - 1)
  <1> DEFINE S == 1..(n - 1)
             h == StepScores(st, tr, p, n)
             Path(iter) == [s \in SUBSET S |-> IF s = {} THEN 0
                              ELSE (tr[p[Some(s) - 1]][p[Some(s)]] + st[Some(s)][p[Some(s)]])
                                   + iter[s \ {Some(s)}]]
             Body(iter) == [s \in SUBSET S |-> IF s = {} THEN 0
                              ELSE h[Some(s)] + iter[s \ {Some(s)}]]
  <1>1. PathScore(n, st, tr, p) = st[0][p[0]] + (CHOOSE iter : iter = Path(iter))[S]
    BY DEF PathScore, MapThenSumSet, MapThenFoldSet, Some
  <1>2. Part(st, tr, p, n, n - 1) = st[0][p[0]] + (CHOOSE iter : iter = Body(iter))[S]
    BY DEF Part, SumOver, MapThenSumSet, MapThenFoldSet, Some
  <1>3. ASSUME NEW iter PROVE Path(iter) = Body(iter)
    <2>1. \A s \in SUBSET S : s # {} =>
              h[Some(s)] = tr[p[Some(s) - 1]][p[Some(s)]] + st[Some(s)][p[Some(s)]]
      <3>1. \A t \in S : h[t] = tr[p[t - 1]][p[t]] + st[t][p[t]]
        BY DEF StepScores
      <3> HIDE DEF S, h
      <3>2. \A s \in SUBSET S : s # {} => Some(s) \in S
        BY SomeIs
      <3> QED BY <3>1, <3>2
    <2> HIDE DEF S, h
    <2> QED BY <2>1
  <1> HIDE DEF Path, Body
  <1> QED BY <1>1, <1>2, <1>3

-----------------------------------------------------------------------------
(* Viterbi's path is a best one, and of the best ones the first when paths *)
(* are compared from their ends.                                           *)

\* No way to a label is better than what its row says, and one that is as
\* good comes by way of a best predecessor.
LEMMA RowBounds ==
  ASSUME NEW n, NEW st, NEW tr, Scores(n, st, tr), NEW q \in Ways(n)
  PROVE  LET rows == ViterbiRows(n, st, tr)
             part(k) == Part(st, tr, q, n, k)
         IN /\ \A k \in 0..(n - 1) : part(k) <= rows[k][q[k]]
            /\ \A k \in 1..(n - 1) : part(k) = rows[k][q[k]] =>
                    /\ part(k - 1) = rows[k - 1][q[k - 1]]
                    /\ BackInto(rows[k - 1], tr, q[k]) <= q[k - 1]
            /\ \A k \in 1..(n - 1) :
                    /\ part(k - 1) = rows[k - 1][q[k - 1]]
                    /\ q[k - 1] = BackInto(rows[k - 1], tr, q[k])
                    => part(k) = rows[k][q[k]]
  <1> DEFINE rows == ViterbiRows(n, st, tr)
             part(k) == Part(st, tr, q, n, k)
  <1>0. n \in Nat \ {0}
    BY DEF Scores
  <1>1. /\ \A t \in 0..(n - 1) : rows[t] \in [Labels -> Int]
        /\ rows[0] = st[0]
        /\ \A t \in 1..(n - 1) : \A j \in Labels :
                rows[t][j] = BestInto(rows[t - 1], tr, j) + st[t][j]
    BY RowsAre
  <1>2. /\ part(0) = st[0][q[0]]
        /\ \A k \in 0..(n - 1) : part(k) \in Int
        /\ \A k \in 1..(n - 1) : part(k) = part(k - 1) + (tr[q[k - 1]][q[k]] + st[k][q[k]])
    <2>1. /\ Part(st, tr, q, n, 0) = st[0][q[0]]
          /\ \A k \in 0..(n - 1) : Part(st, tr, q, n, k) \in Int
          /\ \A k \in 1..(n - 1) :
                Part(st, tr, q, n, k) = Part(st, tr, q, n, k - 1) + (tr[q[k - 1]][q[k]] + st[k][q[k]])
      BY PartIs
    <2> QED BY <2>1
  <1> HIDE DEF rows, part
  <1>3. ASSUME NEW k \in 1..(n - 1)
        PROVE  LET b == BestInto(rows[k - 1], tr, q[k])
                   a == BackInto(rows[k - 1], tr, q[k])
                   i == q[k - 1]
                   e == tr[i][q[k]]
                   s == st[k][q[k]]
               IN /\ part(k - 1) \in Int /\ rows[k - 1][i] \in Int /\ b \in Int
                  /\ e \in Int /\ s \in Int
                  /\ rows[k - 1][i] + e <= b
                  /\ rows[k - 1][i] + e = b => a <= i
                  /\ i = a => rows[k - 1][i] + e = b
                  /\ rows[k][q[k]] = b + s
                  /\ part(k) = part(k - 1) + (e + s)
    <2>1. k \in 0..(n - 1) /\ k - 1 \in 0..(n - 1)
      BY <1>0
    <2>2. /\ q[k] \in Labels /\ q[k - 1] \in Labels
          /\ rows[k - 1] \in [Labels -> Int] /\ st[k] \in [Labels -> Int]
      BY <1>1, <2>1 DEF Scores, Ways
    <2>3. \A i \in Labels : rows[k - 1][i] \in Int /\ tr[i][q[k]] \in Int
      BY <2>2 DEF Scores
    <2>4. /\ BestInto(rows[k - 1], tr, q[k]) \in Int
          /\ \A i \in Labels : rows[k - 1][i] + tr[i][q[k]] <= BestInto(rows[k - 1], tr, q[k])
          /\ LET b == BackInto(rows[k - 1], tr, q[k])
             IN rows[k - 1][b] + tr[b][q[k]] = BestInto(rows[k - 1], tr, q[k])
          /\ \A i \in Labels : rows[k - 1][i] + tr[i][q[k]] = BestInto(rows[k - 1], tr, q[k])
                                => BackInto(rows[k - 1], tr, q[k]) <= i
      BY <2>2, <2>3, BestPredecessor
    <2>5. part(k - 1) \in Int /\ part(k) = part(k - 1) + (tr[q[k - 1]][q[k]] + st[k][q[k]])
      BY <1>2, <2>1
    <2>6. rows[k][q[k]] = BestInto(rows[k - 1], tr, q[k]) + st[k][q[k]]
      BY <1>1, <2>2
    <2>7. rows[k - 1][q[k - 1]] \in Int /\ tr[q[k - 1]][q[k]] \in Int /\ st[k][q[k]] \in Int
      BY <2>2, <2>3
    <2> QED BY <2>2, <2>4, <2>5, <2>6, <2>7
  <1> DEFINE U == {k \in Nat : k <= n - 1 => part(k) <= rows[k][q[k]]}
  <1>4. Nat \subseteq U
    <2>1. 0 \in U
      <3>1. 0 \in 0..(n - 1)
        BY <1>0
      <3>2. part(0) \in Int /\ part(0) = rows[0][q[0]]
        BY <1>1, <1>2, <3>1
      <3> QED BY <3>2
    <2>2. ASSUME NEW k \in Nat, k \in U PROVE k + 1 \in U
      <3> SUFFICES ASSUME k + 1 <= n - 1 PROVE part(k + 1) <= rows[k + 1][q[k + 1]]
        OBVIOUS
      <3>1. k + 1 \in 1..(n - 1) /\ (k + 1) - 1 = k /\ k <= n - 1
        BY <1>0
      <3>2. part(k) <= rows[k][q[k]]
        BY <2>2, <3>1
      <3> DEFINE b == BestInto(rows[k], tr, q[k + 1])
                 e == tr[q[k]][q[k + 1]]
                 s == st[k + 1][q[k + 1]]
      <3>3. /\ part(k) \in Int /\ rows[k][q[k]] \in Int /\ b \in Int /\ e \in Int /\ s \in Int
            /\ rows[k][q[k]] + e <= b
            /\ rows[k + 1][q[k + 1]] = b + s
            /\ part(k + 1) = part(k) + (e + s)
        BY <1>3, <3>1
      <3> HIDE DEF b, e, s
      <3> QED BY <3>2, <3>3
    <2> HIDE DEF U
    <2> QED BY <2>1, <2>2, Induction
  <1>5. \A k \in 0..(n - 1) : part(k) <= rows[k][q[k]]
    BY <1>0, <1>4
  <1>6. ASSUME NEW k \in 1..(n - 1)
        PROVE  /\ part(k) = rows[k][q[k]] => /\ part(k - 1) = rows[k - 1][q[k - 1]]
                                             /\ BackInto(rows[k - 1], tr, q[k]) <= q[k - 1]
               /\ /\ part(k - 1) = rows[k - 1][q[k - 1]]
                  /\ q[k - 1] = BackInto(rows[k - 1], tr, q[k])
                  => part(k) = rows[k][q[k]]
    <2> DEFINE b == BestInto(rows[k - 1], tr, q[k])
               a == BackInto(rows[k - 1], tr, q[k])
               i == q[k - 1]
               r == rows[k - 1][i]
               e == tr[i][q[k]]
               s == st[k][q[k]]
    <2>1. /\ part(k - 1) \in Int /\ r \in Int /\ b \in Int /\ e \in Int /\ s \in Int
          /\ r + e <= b
          /\ r + e = b => a <= i
          /\ i = a => r + e = b
          /\ rows[k][q[k]] = b + s
          /\ part(k) = part(k - 1) + (e + s)
      BY <1>3
    <2>2. part(k - 1) <= r
      <3>1. k - 1 \in 0..(n - 1)
        BY <1>0
      <3> QED BY <1>5, <3>1
    <2> HIDE DEF b, a, i, r, e, s
    <2>3. part(k) = rows[k][q[k]] => part(k - 1) = r /\ r + e = b
      BY <2>1, <2>2
    <2>4. part(k - 1) = r /\ r + e = b => part(k) = rows[k][q[k]]
      BY <2>1
    <2> QED BY <2>1, <2>3, <2>4 DEF a, i, r
  <1> QED BY <1>5, <1>6 DEF rows, part

\* The path that is traced is a best one, and the first of these.
LEMMA ViterbiBest ==
  ASSUME NEW n, NEW st, NEW tr, Scores(n, st, tr)
  PROVE  LET rows == ViterbiRows(n, st, tr)
             p == Trace(n, rows, BackEdges(n, rows, tr))
         IN /\ p \in Ways(n)
            /\ PathScore(n, st, tr, p) = rows[n - 1][p[n - 1]]
            /\ \A q \in Ways(n) :
                /\ PathScore(n, st, tr, q) \in Int
                /\ PathScore(n, st, tr, q) <= PathScore(n, st, tr, p)
                /\ q # p /\ PathScore(n, st, tr, q) = PathScore(n, st, tr, p) =>
                    \E t \in 0..(n - 1) : /\ p[t] < q[t]
                                          /\ \A u \in (t + 1)..(n - 1) : p[u] = q[u]
  <1> DEFINE rows == ViterbiRows(n, st, tr)
             p == Trace(n, rows, BackEdges(n, rows, tr))
             part(q, k) == Part(st, tr, q, n, k)
  <1>0. n \in Nat \ {0} /\ n - 1 \in 0..(n - 1) /\ n - 1 \in Nat
    BY DEF Scores
  <1>1. \A t \in 0..(n - 1) : rows[t] \in [Labels -> Int]
    BY RowsAre
  <1>2. \A i, j \in Labels : tr[i][j] \in Int
    BY DEF Scores
  <1>3. /\ p \in Ways(n)
        /\ \A k \in Labels : rows[n - 1][k] <= rows[n - 1][p[n - 1]]
        /\ \A k \in Labels : rows[n - 1][k] = rows[n - 1][p[n - 1]] => p[n - 1] <= k
        /\ \A t \in 1..(n - 1) : p[t - 1] = BackInto(rows[t - 1], tr, p[t])
    <2> DEFINE back0 == BackEdges(n, rows, tr)
    <2>1. LET w == Trace(n, rows, back0)
          IN /\ w \in [0..(n - 1) -> Labels]
             /\ \A k \in Labels : rows[n - 1][k] <= rows[n - 1][w[n - 1]]
             /\ \A k \in Labels : rows[n - 1][k] = rows[n - 1][w[n - 1]] => w[n - 1] <= k
             /\ \A t \in 1..(n - 1) : w[t - 1] = BackInto(rows[t - 1], tr, w[t])
      <3> HIDE DEF rows
      <3> QED BY <1>0, <1>1, <1>2, TraceIs
    <2> HIDE DEF rows
    <2> QED BY <2>1 DEF Ways
  <1>4. ASSUME NEW q \in Ways(n)
        PROVE  /\ part(q, 0) = st[0][q[0]]
               /\ \A k \in 0..(n - 1) : part(q, k) \in Int
               /\ \A k \in 0..(n - 1) : part(q, k) <= rows[k][q[k]]
               /\ \A k \in 1..(n - 1) : part(q, k) = rows[k][q[k]] =>
                    /\ part(q, k - 1) = rows[k - 1][q[k - 1]]
                    /\ BackInto(rows[k - 1], tr, q[k]) <= q[k - 1]
               /\ \A k \in 1..(n - 1) :
                    /\ part(q, k - 1) = rows[k - 1][q[k - 1]]
                    /\ q[k - 1] = BackInto(rows[k - 1], tr, q[k])
                    => part(q, k) = rows[k][q[k]]
    <2>1. /\ Part(st, tr, q, n, 0) = st[0][q[0]]
          /\ \A k \in 0..(n - 1) : Part(st, tr, q, n, k) \in Int
      BY PartIs
    <2>2. /\ \A k \in 0..(n - 1) : Part(st, tr, q, n, k) <= rows[k][q[k]]
          /\ \A k \in 1..(n - 1) : Part(st, tr, q, n, k) = rows[k][q[k]] =>
               /\ Part(st, tr, q, n, k - 1) = rows[k - 1][q[k - 1]]
               /\ BackInto(rows[k - 1], tr, q[k]) <= q[k - 1]
          /\ \A k \in 1..(n - 1) :
               /\ Part(st, tr, q, n, k - 1) = rows[k - 1][q[k - 1]]
               /\ q[k - 1] = BackInto(rows[k - 1], tr, q[k])
               => Part(st, tr, q, n, k) = rows[k][q[k]]
      BY RowBounds
    <2> HIDE DEF rows
    <2> QED BY <2>1, <2>2
  <1>5. rows[0] = st[0]
    BY RowsAre
  <1>6. \A q : PathScore(n, st, tr, q) = part(q, n - 1)
    BY PathScoreIs
  <1> HIDE DEF rows, p, part
  <1>7. part(p, n - 1) = rows[n - 1][p[n - 1]]
    <2> DEFINE U == {k \in Nat : k <= n - 1 => part(p, k) = rows[k][p[k]]}
    <2>1. 0 \in U
      <3>1. part(p, 0) = st[0][p[0]]
        BY <1>3, <1>4
      <3> QED BY <1>5, <3>1
    <2>2. ASSUME NEW k \in Nat, k \in U PROVE k + 1 \in U
      <3> SUFFICES ASSUME k + 1 <= n - 1 PROVE part(p, k + 1) = rows[k + 1][p[k + 1]]
        OBVIOUS
      <3>1. k + 1 \in 1..(n - 1) /\ (k + 1) - 1 = k /\ k <= n - 1
        BY <1>0
      <3>2. part(p, k) = rows[k][p[k]]
        BY <2>2, <3>1
      <3>3. p[(k + 1) - 1] = BackInto(rows[(k + 1) - 1], tr, p[k + 1])
        BY <1>3, <3>1
      <3>4. part(p, (k + 1) - 1) = rows[(k + 1) - 1][p[(k + 1) - 1]]
        BY <3>1, <3>2
      <3> QED BY <1>3, <1>4, <3>1, <3>3, <3>4
    <2>3. Nat \subseteq U
      <3> HIDE DEF U
      <3> QED BY <2>1, <2>2, Induction
    <2> QED BY <1>0, <2>3
  <1>8. ASSUME NEW q \in Ways(n)
        PROVE  /\ part(q, n - 1) \in Int /\ rows[n - 1][q[n - 1]] \in Int
               /\ part(p, n - 1) \in Int
               /\ part(q, n - 1) <= rows[n - 1][q[n - 1]]
               /\ rows[n - 1][q[n - 1]] <= part(p, n - 1)
    <2>1. part(q, n - 1) \in Int /\ part(q, n - 1) <= rows[n - 1][q[n - 1]]
      BY <1>0, <1>4
    <2>2. part(p, n - 1) \in Int
      BY <1>0, <1>3, <1>4
    <2>3. q[n - 1] \in Labels /\ rows[n - 1] \in [Labels -> Int]
      BY <1>0, <1>1 DEF Ways
    <2>4. rows[n - 1][q[n - 1]] \in Int /\ rows[n - 1][q[n - 1]] <= part(p, n - 1)
      BY <1>3, <1>7, <2>3
    <2> QED BY <2>1, <2>2, <2>4
  <1>9. ASSUME NEW q \in Ways(n), q # p, part(q, n - 1) = part(p, n - 1)
        PROVE  \E t \in 0..(n - 1) : /\ p[t] < q[t]
                                     /\ \A u \in (t + 1)..(n - 1) : p[u] = q[u]
    <2>1. part(q, n - 1) = rows[n - 1][q[n - 1]]
      <3>1. /\ part(q, n - 1) \in Int /\ rows[n - 1][q[n - 1]] \in Int
            /\ part(q, n - 1) <= rows[n - 1][q[n - 1]]
            /\ rows[n - 1][q[n - 1]] <= part(q, n - 1)
        BY <1>8, <1>9
      <3> QED BY <3>1
    <2> DEFINE U == {d \in Nat : d <= n - 1 => part(q, (n - 1) - d) = rows[(n - 1) - d][q[(n - 1) - d]]}
    <2>2. Nat \subseteq U
      <3>1. 0 \in U
        <4>1. (n - 1) - 0 = n - 1
          BY <1>0
        <4> QED BY <2>1, <4>1
      <3>2. ASSUME NEW d \in Nat, d \in U PROVE d + 1 \in U
        <4> SUFFICES ASSUME d + 1 <= n - 1
                     PROVE  part(q, (n - 1) - (d + 1)) = rows[(n - 1) - (d + 1)][q[(n - 1) - (d + 1)]]
          OBVIOUS
        <4>1. PICK k \in 1..(n - 1) : k = (n - 1) - d
          BY <1>0
        <4>2. k - 1 = (n - 1) - (d + 1) /\ d <= n - 1
          BY <1>0, <4>1
        <4>3. part(q, k) = rows[k][q[k]]
          BY <3>2, <4>1, <4>2
        <4>4. part(q, k - 1) = rows[k - 1][q[k - 1]]
          BY <1>4, <4>3
        <4> QED BY <4>2, <4>4
      <3> HIDE DEF U
      <3> QED BY <3>1, <3>2, Induction
    <2>3. ASSUME NEW k \in 0..(n - 1) PROVE part(q, k) = rows[k][q[k]]
      <3>1. (n - 1) - k \in Nat /\ (n - 1) - k <= n - 1 /\ (n - 1) - ((n - 1) - k) = k
        BY <1>0
      <3>2. (n - 1) - k \in U
        <4> HIDE DEF U
        <4> QED BY <2>2, <3>1
      <3>3. part(q, (n - 1) - ((n - 1) - k)) = rows[(n - 1) - ((n - 1) - k)][q[(n - 1) - ((n - 1) - k)]]
        BY <3>1, <3>2
      <3> QED BY <3>1, <3>3
    <2> HIDE DEF U
    <2> DEFINE D == {d \in Nat : d <= n - 1 /\ q[(n - 1) - d] # p[(n - 1) - d]}
    <2>4. PICK k \in 0..(n - 1) : q[k] # p[k]
      <3>1. q = [k \in 0..(n - 1) |-> q[k]] /\ p = [k \in 0..(n - 1) |-> p[k]]
        BY <1>3 DEF Ways
      <3> QED BY <1>9, <3>1
    <2>5. (n - 1) - k \in D
      <3>1. (n - 1) - k \in Nat /\ (n - 1) - k <= n - 1 /\ (n - 1) - ((n - 1) - k) = k
        BY <1>0
      <3> QED BY <2>4, <3>1
    <2>6. PICK d \in D : \A e \in D : d <= e
      <3>1. D \subseteq Nat /\ D # {}
        BY <2>5
      <3> HIDE DEF D
      <3> QED BY <3>1, LeastOf
    <2>7. PICK t \in 0..(n - 1) : t = (n - 1) - d
      BY <1>0, <2>6
    <2>8. q[t] # p[t]
      BY <2>6, <2>7
    <2>9. ASSUME NEW u \in (t + 1)..(n - 1) PROVE p[u] = q[u]
      <3>1. /\ (n - 1) - u \in Nat /\ (n - 1) - u <= n - 1 /\ (n - 1) - ((n - 1) - u) = u
            /\ ~(d <= (n - 1) - u)
        BY <1>0, <2>6, <2>7
      <3>2. ~((n - 1) - u \in D)
        <4> HIDE DEF D
        <4> QED BY <2>6, <3>1
      <3>3. ~(q[(n - 1) - ((n - 1) - u)] # p[(n - 1) - ((n - 1) - u)])
        BY <3>1, <3>2
      <3> QED BY <3>1, <3>3
    <2> HIDE DEF D
    <2>10. p[t] <= q[t]
      <3>1. CASE t = n - 1
        <4>1. rows[n - 1][q[n - 1]] = rows[n - 1][p[n - 1]]
          BY <1>7, <1>9, <2>1
        <4>2. q[n - 1] \in Labels
          BY <1>0 DEF Ways
        <4> QED BY <1>3, <3>1, <4>1, <4>2
      <3>2. CASE t # n - 1
        <4>1. t + 1 \in 1..(n - 1) /\ (t + 1) - 1 = t /\ t + 1 \in (t + 1)..(n - 1) /\ t + 1 \in 0..(n - 1)
          BY <1>0, <3>2
        <4>2. p[t + 1] = q[t + 1]
          BY <2>9, <4>1
        <4>3. p[(t + 1) - 1] = BackInto(rows[(t + 1) - 1], tr, p[t + 1])
          BY <1>3, <4>1
        <4>4. part(q, t + 1) = rows[t + 1][q[t + 1]]
          BY <2>3, <4>1
        <4>5. BackInto(rows[(t + 1) - 1], tr, q[t + 1]) <= q[(t + 1) - 1]
          BY <1>4, <4>1, <4>4
        <4>6. p[(t + 1) - 1] <= q[(t + 1) - 1]
          BY <4>2, <4>3, <4>5
        <4> QED BY <4>1, <4>6
      <3> QED BY <3>1, <3>2
    <2>11. p[t] < q[t]
      <3>1. p[t] \in Labels /\ q[t] \in Labels
        BY <1>3 DEF Ways
      <3>2. p[t] \in Int /\ q[t] \in Int
        BY <3>1 DEF Labels
      <3> QED BY <2>8, <2>10, <3>2
    <2> QED BY <2>9, <2>11
  <1>10. ASSUME NEW q \in Ways(n)
         PROVE  /\ PathScore(n, st, tr, q) \in Int
                /\ PathScore(n, st, tr, q) <= PathScore(n, st, tr, p)
                /\ q # p /\ PathScore(n, st, tr, q) = PathScore(n, st, tr, p) =>
                    \E t \in 0..(n - 1) : /\ p[t] < q[t]
                                          /\ \A u \in (t + 1)..(n - 1) : p[u] = q[u]
    <2>1. part(q, n - 1) <= part(p, n - 1)
      BY <1>8
    <2> QED BY <1>6, <1>8, <1>9, <2>1
  <1>11. PathScore(n, st, tr, p) = rows[n - 1][p[n - 1]]
    BY <1>6, <1>7
  <1> QED BY <1>3, <1>10, <1>11 DEF rows, p

-----------------------------------------------------------------------------
(* The scores of a model m for the items of a sequence s *)

RowOf(m, s, t) == [l \in Labels |-> 0 + ItemScores(m, s[t + 1])[l]]

\* Worth for m and s
WorthOf(m, s, path) ==
    MapThenSumSet(LAMBDA t :
        MapThenSumSet(LAMBDA c :
            MapThenSumSet(LAMBDA f : f.weight * s[t + 1][c].value,
                          {f \in m.state[s[t + 1][c].aid] : f.dst = path[t]}),
            DOMAIN s[t + 1])
        + (IF t = 0 THEN 0
           ELSE MapThenSumSet(LAMBDA f : f.weight,
                              {f \in m.trans[path[t - 1]] : f.dst = path[t]})),
        0..(Len(s) - 1))

LEMMA WeightsTimes ==
  ASSUME NEW S, IsFiniteSet(S), NEW v \in Int, \A f \in S : f.weight \in Int
  PROVE  MapThenSumSet(LAMBDA f : f.weight * v, S) \in Int
  <1> DEFINE h == [f \in S |-> f.weight * v]
             Direct(iter) == [s \in SUBSET S |-> IF s = {} THEN 0
                                ELSE (Some(s).weight * v) + iter[s \ {Some(s)}]]
             Body(iter) == [s \in SUBSET S |-> IF s = {} THEN 0
                              ELSE h[Some(s)] + iter[s \ {Some(s)}]]
  <1>1. MapThenSumSet(LAMBDA f : f.weight * v, S) = (CHOOSE iter : iter = Direct(iter))[S]
    BY DEF MapThenSumSet, MapThenFoldSet, Some
  <1>2. SumOver(h, S) = (CHOOSE iter : iter = Body(iter))[S]
    BY DEF SumOver, MapThenSumSet, MapThenFoldSet, Some
  <1>3. \A iter : Direct(iter) = Body(iter)
    <2>1. \A s \in SUBSET S : s # {} => h[Some(s)] = Some(s).weight * v
      BY SomeIs
    <2> HIDE DEF h
    <2> QED BY <2>1
  <1>4. \A f \in S : h[f] \in Int
    OBVIOUS
  <1> HIDE DEF h, Direct, Body
  <1>5. SumOver(h, S) \in Int
    BY <1>4, SumRemove
  <1> QED BY <1>1, <1>2, <1>3, <1>5

\* The sum of the weights of one feature at most
LEMMA WeightOfOne ==
  ASSUME NEW S, IsFiniteSet(S), \A f \in S : f.weight \in Int, \A f, g \in S : f = g
  PROVE  /\ MapThenSumSet(LAMBDA f : f.weight, S) \in Int
         /\ MapThenSumSet(LAMBDA f : f.weight, S)
                = IF S = {} THEN 0 ELSE (CHOOSE f \in S : TRUE).weight
  <1> DEFINE h == [f \in S |-> f.weight]
             Direct(iter) == [s \in SUBSET S |-> IF s = {} THEN 0
                                ELSE Some(s).weight + iter[s \ {Some(s)}]]
             Body(iter) == [s \in SUBSET S |-> IF s = {} THEN 0
                              ELSE h[Some(s)] + iter[s \ {Some(s)}]]
  <1>1. MapThenSumSet(LAMBDA f : f.weight, S) = (CHOOSE iter : iter = Direct(iter))[S]
    BY DEF MapThenSumSet, MapThenFoldSet, Some
  <1>2. SumOver(h, S) = (CHOOSE iter : iter = Body(iter))[S]
    BY DEF SumOver, MapThenSumSet, MapThenFoldSet, Some
  <1>3. \A iter : Direct(iter) = Body(iter)
    <2>1. \A s \in SUBSET S : s # {} => h[Some(s)] = Some(s).weight
      BY SomeIs
    <2> HIDE DEF h
    <2> QED BY <2>1
  <1>4. \A f \in S : h[f] \in Int /\ h[f] = f.weight
    OBVIOUS
  <1> HIDE DEF h, Direct, Body
  <1>5. /\ SumOver(h, S) \in Int
        /\ S = {} => SumOver(h, S) = 0
        /\ \A y \in S : SumOver(h, S) = SumOver(h, S \ {y}) + h[y]
    BY <1>4, SumRemove
  <1>6. SumOver(h, {}) = 0
    <2>1. IsFiniteSet({}) /\ \A x \in {} : h[x] \in Int
      BY FS_EmptySet
    <2> QED BY <2>1, SumRemove
  <1>7. ASSUME S # {} PROVE SumOver(h, S) = Some(S).weight
    <2>1. Some(S) \in S
      BY <1>7, SomeIs
    <2>2. S \ {Some(S)} = {}
      BY <2>1
    <2>3. SumOver(h, S) = 0 + h[Some(S)]
      BY <1>5, <1>6, <2>1, <2>2
    <2> QED BY <1>4, <2>1, <2>3
  <1>8. MapThenSumSet(LAMBDA f : f.weight, S) = SumOver(h, S)
    BY <1>1, <1>2, <1>3
  <1> QED BY <1>5, <1>7, <1>8 DEF Some

\* The features of the model are numbers' worth.
LEMMA ModelScores ==
  ASSUME NEW m \in Models, NEW s \in Instances
  PROVE  /\ Len(s) \in Nat \ {0}
         /\ \A t \in 0..(Len(s) - 1) : \A l \in Labels : ItemScores(m, s[t + 1])[l] \in Int
         /\ \A i, j \in Labels :
                LET edges == {f \in m.trans[i] : f.dst = j}
                IN /\ TransScores(m)[i][j] \in Int
                   /\ MapThenSumSet(LAMBDA f : f.weight, edges) = TransScores(m)[i][j]
  <1>1. s \in Seq(Seq([aid : Nat, value : Int])) /\ Len(s) \in Nat /\ Len(s) # 0
    BY InstancesAssumption DEF InstancesAssumption
  <1>2. ASSUME NEW t \in 0..(Len(s) - 1), NEW l \in Labels
        PROVE  ItemScores(m, s[t + 1])[l] \in Int
    <2>1. t + 1 \in DOMAIN s
      BY <1>1
    <2> DEFINE item == s[t + 1]
    <2>2. item \in Seq([aid : Nat, value : Int])
      BY <1>1, <2>1
    <2> DEFINE D == DOMAIN item
               One(c) == MapThenSumSet(LAMBDA f : f.weight * item[c].value,
                              {f \in m.state[item[c].aid] : f.dst = l})
               h == [c \in D |-> One(c)]
    <2>3. IsFiniteSet(D)
      <3>1. D = 1..Len(item) /\ Len(item) \in Nat
        BY <2>2
      <3> QED BY <3>1, FS_Interval
    <2>4. ASSUME NEW c \in D PROVE One(c) \in Int
      <3>1. item[c].value \in Int /\ item[c].aid \in DOMAIN m.state
        <4>1. item[c] \in [aid : Nat, value : Int]
          <5> DEFINE Rec == [aid : Nat, value : Int]
          <5>1. item \in Seq(Rec)
            BY <2>2
          <5> HIDE DEF item, Rec
          <5>2. \A x \in D : item[x] \in Rec
            BY <5>1
          <5> HIDE DEF D
          <5> QED BY <5>2 DEF Rec
        <4>2. item[c].aid \in DOMAIN m.state
          BY <2>1, ModelsAssumption DEF ModelsAssumption
        <4> QED BY <4>1, <4>2
      <3> DEFINE S == {f \in m.state[item[c].aid] : f.dst = l}
                 v == item[c].value
      <3>2. IsFiniteSet(S) /\ \A f \in S : f.weight \in Int
        <4>1. IsFiniteSet(m.state[item[c].aid]) /\ \A f \in m.state[item[c].aid] : f.weight \in Int
          BY <3>1, ModelsAssumption DEF ModelsAssumption
        <4> QED BY <4>1, FS_Subset
      <3>3. v \in Int
        BY <3>1
      <3> HIDE DEF S, v, item
      <3>4. MapThenSumSet(LAMBDA f : f.weight * v, S) \in Int
        BY <3>2, <3>3, WeightsTimes
      <3> QED BY <3>4 DEF S, v
    <2>5. ItemScores(m, item)[l] = MapThenSumSet(LAMBDA c : One(c), D)
      BY DEF ItemScores
    <2> DEFINE Direct(iter) == [x \in SUBSET D |-> IF x = {} THEN 0
                                  ELSE One(Some(x)) + iter[x \ {Some(x)}]]
               Body(iter) == [x \in SUBSET D |-> IF x = {} THEN 0
                                ELSE h[Some(x)] + iter[x \ {Some(x)}]]
    <2>6. MapThenSumSet(LAMBDA c : One(c), D) = (CHOOSE iter : iter = Direct(iter))[D]
      <3> HIDE DEF One, D
      <3> QED BY DEF MapThenSumSet, MapThenFoldSet, Some
    <2>7. SumOver(h, D) = (CHOOSE iter : iter = Body(iter))[D]
      <3> HIDE DEF h, D
      <3> QED BY DEF SumOver, MapThenSumSet, MapThenFoldSet, Some
    <2>8. \A c \in D : h[c] = One(c) /\ h[c] \in Int
      <3> HIDE DEF One, D
      <3> QED BY <2>4
    <2> HIDE DEF One, D, h
    <2>9. \A iter : Direct(iter) = Body(iter)
      <3>1. \A x \in SUBSET D : x # {} => h[Some(x)] = One(Some(x))
        BY <2>8, SomeIs
      <3> QED BY <3>1
    <2> HIDE DEF Direct, Body
    <2>10. SumOver(h, D) \in Int
      BY <2>3, <2>8, SumRemove
    <2> QED BY <2>5, <2>6, <2>7, <2>9, <2>10
  <1>3. ASSUME NEW i \in Labels, NEW j \in Labels
        PROVE  LET edges == {f \in m.trans[i] : f.dst = j}
               IN /\ TransScores(m)[i][j] \in Int
                  /\ MapThenSumSet(LAMBDA f : f.weight, edges) = TransScores(m)[i][j]
    <2> DEFINE edges == {f \in m.trans[i] : f.dst = j}
    <2>1. /\ IsFiniteSet(edges) /\ \A f \in edges : f.weight \in Int
          /\ \A f, g \in edges : f = g
      <3>1. /\ IsFiniteSet(m.trans[i]) /\ \A f \in m.trans[i] : f.weight \in Int
            /\ \A f, g \in m.trans[i] : f.dst = g.dst => f = g
        BY ModelsAssumption DEF ModelsAssumption
      <3> QED BY <3>1, FS_Subset
    <2>2. TransScores(m)[i][j] = IF edges = {} THEN 0 ELSE (CHOOSE f \in edges : TRUE).weight
      BY DEF TransScores
    <2> HIDE DEF edges
    <2>3. /\ MapThenSumSet(LAMBDA f : f.weight, edges) \in Int
          /\ MapThenSumSet(LAMBDA f : f.weight, edges)
                = IF edges = {} THEN 0 ELSE (CHOOSE f \in edges : TRUE).weight
      BY <2>1, WeightOfOne
    <2> QED BY <2>2, <2>3 DEF edges
  <1> QED BY <1>1, <1>2, <1>3

\* What the features give a path is what the scores give it.
LEMMA WorthIsScore ==
  ASSUME NEW m \in Models, NEW s \in Instances, NEW st,
         \A t \in 0..(Len(s) - 1) : st[t] = RowOf(m, s, t)
  PROVE  /\ Scores(Len(s), st, TransScores(m))
         /\ \A p \in Ways(Len(s)) : WorthOf(m, s, p) = PathScore(Len(s), st, TransScores(m), p)
  <1> DEFINE n == Len(s)
             tr == TransScores(m)
  <1>1. /\ n \in Nat \ {0}
        /\ \A t \in 0..(n - 1) : \A l \in Labels : ItemScores(m, s[t + 1])[l] \in Int
        /\ \A i, j \in Labels :
                LET edges == {f \in m.trans[i] : f.dst = j}
                IN /\ tr[i][j] \in Int
                   /\ MapThenSumSet(LAMBDA f : f.weight, edges) = tr[i][j]
    BY ModelScores
  <1>2. \A t \in 0..(n - 1) : /\ st[t] \in [Labels -> Int]
                              /\ \A l \in Labels : st[t][l] = ItemScores(m, s[t + 1])[l]
    <2> SUFFICES ASSUME NEW t \in 0..(n - 1)
                 PROVE  /\ st[t] \in [Labels -> Int]
                        /\ \A l \in Labels : st[t][l] = ItemScores(m, s[t + 1])[l]
      OBVIOUS
    <2> DEFINE item == ItemScores(m, s[t + 1])
    <2>1. \A l \in Labels : item[l] \in Int
      BY <1>1
    <2>2. st[t] = [l \in Labels |-> 0 + item[l]]
      BY DEF RowOf
    <2> HIDE DEF item
    <2>3. st[t] \in [Labels -> Int] /\ \A l \in Labels : st[t][l] = item[l]
      BY <2>1, <2>2
    <2> QED BY <2>3 DEF item
  <1>3. Scores(n, st, tr)
    <2>1. \A i, j \in Labels : tr[i][j] \in Int
      BY <1>1
    <2> HIDE DEF n, tr
    <2> QED BY <1>1, <1>2, <2>1 DEF Scores
  <1>4. ASSUME NEW p \in Ways(n) PROVE WorthOf(m, s, p) = PathScore(n, st, tr, p)
    <2> DEFINE S == 0..(n - 1)
               A(t) == MapThenSumSet(LAMBDA c :
                          MapThenSumSet(LAMBDA f : f.weight * s[t + 1][c].value,
                                        {f \in m.state[s[t + 1][c].aid] : f.dst = p[t]}),
                          DOMAIN s[t + 1])
               B(t) == MapThenSumSet(LAMBDA f : f.weight,
                                     {f \in m.trans[p[t - 1]] : f.dst = p[t]})
               One(t) == A(t) + (IF t = 0 THEN 0 ELSE B(t))
               g == [t \in S |-> st[t][p[t]] + (IF t = 0 THEN 0 ELSE tr[p[t - 1]][p[t]])]
               h == StepScores(st, tr, p, n)
               Direct(iter) == [x \in SUBSET S |-> IF x = {} THEN 0
                                  ELSE One(Some(x)) + iter[x \ {Some(x)}]]
               Body(iter) == [x \in SUBSET S |-> IF x = {} THEN 0
                                ELSE g[Some(x)] + iter[x \ {Some(x)}]]
    <2>1. \A t \in S : p[t] \in Labels /\ (t # 0 => t - 1 \in S /\ p[t - 1] \in Labels)
      BY <1>1 DEF Ways
    <2>2. ASSUME NEW t \in S PROVE A(t) = st[t][p[t]]
      <3>1. A(t) = ItemScores(m, s[t + 1])[p[t]]
        BY <2>1 DEF ItemScores
      <3> HIDE DEF A
      <3> QED BY <1>2, <2>1, <3>1
    <2>3. ASSUME NEW t \in S, t # 0 PROVE B(t) = tr[p[t - 1]][p[t]] /\ tr[p[t - 1]][p[t]] \in Int
      <3>1. \A i, j \in Labels :
                MapThenSumSet(LAMBDA f : f.weight, {f \in m.trans[i] : f.dst = j}) = tr[i][j]
        BY <1>1
      <3>2. p[t - 1] \in Labels /\ p[t] \in Labels
        BY <2>1, <2>3
      <3>3. B(t) = tr[p[t - 1]][p[t]]
        <4> HIDE DEF tr
        <4> QED BY <3>1, <3>2
      <3>4. tr[p[t - 1]][p[t]] \in Int
        <4> HIDE DEF tr
        <4> QED BY <1>1, <3>2
      <3> QED BY <3>3, <3>4
    <2>4. WorthOf(m, s, p) = MapThenSumSet(LAMBDA t : One(t), S)
      BY DEF WorthOf
    <2> HIDE DEF A, B, h, n, tr
    <2>5. \A t \in S : One(t) = g[t] /\ g[t] \in Int
      <3>1. \A t \in S : st[t][p[t]] \in Int
        BY <1>2, <2>1
      <3> QED BY <2>2, <2>3, <3>1
    <2>6. MapThenSumSet(LAMBDA t : One(t), S) = (CHOOSE iter : iter = Direct(iter))[S]
      <3> HIDE DEF One, S
      <3> QED BY DEF MapThenSumSet, MapThenFoldSet, Some
    <2>7. SumOver(g, S) = (CHOOSE iter : iter = Body(iter))[S]
      <3> HIDE DEF g, S
      <3> QED BY DEF SumOver, MapThenSumSet, MapThenFoldSet, Some
    <2>8. g[0] = st[0][p[0]] /\ \A t \in 1..(n - 1) : g[t] = h[t]
      <3>0. 0 \in S
        BY <1>1
      <3>1. p[0] \in Labels /\ st[0] \in [Labels -> Int]
        <4>1. p[0] \in Labels
          BY <2>1, <3>0
        <4> QED BY <1>2, <3>0, <4>1
      <3>2. g[0] = st[0][p[0]]
        <4>1. st[0][p[0]] \in Int
          BY <3>1
        <4>2. g[0] = st[0][p[0]] + 0
          BY <3>0
        <4> QED BY <4>1, <4>2
      <3>3. ASSUME NEW t \in 1..(n - 1) PROVE g[t] = h[t]
        <4>1. t \in S /\ t # 0
          BY <1>1
        <4>2. st[t][p[t]] \in Int /\ tr[p[t - 1]][p[t]] \in Int
          BY <1>2, <2>1, <2>3, <4>1
        <4>3. g[t] = st[t][p[t]] + tr[p[t - 1]][p[t]]
          BY <4>1
        <4>4. h[t] = tr[p[t - 1]][p[t]] + st[t][p[t]]
          BY DEF h, StepScores
        <4> HIDE DEF g
        <4> QED BY <4>2, <4>3, <4>4
      <3> QED BY <3>2, <3>3
    <2> HIDE DEF One, g
    <2>9. \A iter : Direct(iter) = Body(iter)
      <3> HIDE DEF S
      <3>1. \A x \in SUBSET S : x # {} => g[Some(x)] = One(Some(x))
        BY <2>5, SomeIs
      <3> QED BY <3>1
    <2> HIDE DEF Direct, Body
    <2>10. IsFiniteSet(S) /\ 0 \in S /\ S \ {0} = 1..(n - 1)
      <3>1. IsFiniteSet(S)
        BY <1>1, FS_Interval
      <3>2. \A t : t \in S \ {0} <=> t \in 1..(n - 1)
        BY <1>1
      <3> QED BY <1>1, <3>1, <3>2
    <2>11. SumOver(g, S) = SumOver(g, 1..(n - 1)) + g[0] /\ SumOver(g, 1..(n - 1)) \in Int
      <3>1. IsFiniteSet(1..(n - 1)) /\ \A t \in 1..(n - 1) : g[t] \in Int
        BY <1>1, <2>5, FS_Interval
      <3>2. SumOver(g, 1..(n - 1)) \in Int
        <4> DEFINE S1 == 1..(n - 1)
        <4> HIDE DEF S1
        <4> QED BY <3>1, SumRemove DEF S1
      <3> HIDE DEF S
      <3>3. \A y \in S : SumOver(g, S) = SumOver(g, S \ {y}) + g[y]
        BY <2>5, <2>10, SumRemove
      <3> QED BY <2>10, <3>2, <3>3
    <2>12. SumOver(g, 1..(n - 1)) = SumOver(h, 1..(n - 1))
      <3> DEFINE S1 == 1..(n - 1)
      <3>1. \A t \in S1 : g[t] = h[t]
        BY <2>8
      <3> HIDE DEF S1
      <3>2. SumOver(g, S1) = SumOver(h, S1)
        BY <3>1, SumSame
      <3> QED BY <3>2 DEF S1
    <2>13. Part(st, tr, p, n, n - 1) = st[0][p[0]] + SumOver(h, 1..(n - 1))
      BY DEF Part, h
    <2>14. st[0][p[0]] \in Int
      BY <2>5, <2>8, <2>10
    <2>15. WorthOf(m, s, p) = SumOver(g, S)
      BY <2>4, <2>6, <2>7, <2>9
    <2>16. WorthOf(m, s, p) = Part(st, tr, p, n, n - 1)
      BY <2>8, <2>11, <2>12, <2>13, <2>14, <2>15
    <2> QED BY <2>16, PathScoreIs
  <1> QED BY <1>3, <1>4

\* Viterbi on these scores
LEMMA ViterbiRight ==
  ASSUME NEW m \in Models, NEW s \in Instances, NEW st,
         \A t \in 0..(Len(s) - 1) : st[t] = RowOf(m, s, t)
  PROVE  LET n == Len(s)
             rows == ViterbiRows(n, st, TransScores(m))
             p == Trace(n, rows, BackEdges(n, rows, TransScores(m)))
         IN /\ p \in Ways(n)
            /\ rows[n - 1][p[n - 1]] = WorthOf(m, s, p)
            /\ \A q \in Ways(n) :
                /\ WorthOf(m, s, q) <= WorthOf(m, s, p)
                /\ q # p /\ WorthOf(m, s, q) = WorthOf(m, s, p) =>
                    \E t \in 0..(n - 1) : /\ p[t] < q[t]
                                          /\ \A u \in (t + 1)..(n - 1) : p[u] = q[u]
  <1> DEFINE n == Len(s)
             tr == TransScores(m)
             rows == ViterbiRows(n, st, tr)
             p == Trace(n, rows, BackEdges(n, rows, tr))
  <1>1. Scores(n, st, tr) /\ \A q \in Ways(n) : WorthOf(m, s, q) = PathScore(n, st, tr, q)
    BY WorthIsScore
  <1> HIDE DEF n, tr
  <1>2. /\ p \in Ways(n)
        /\ PathScore(n, st, tr, p) = rows[n - 1][p[n - 1]]
        /\ \A q \in Ways(n) :
            /\ PathScore(n, st, tr, q) \in Int
            /\ PathScore(n, st, tr, q) <= PathScore(n, st, tr, p)
            /\ q # p /\ PathScore(n, st, tr, q) = PathScore(n, st, tr, p) =>
                \E t \in 0..(n - 1) : /\ p[t] < q[t]
                                      /\ \A u \in (t + 1)..(n - 1) : p[u] = q[u]
    BY <1>1, ViterbiBest
  <1> HIDE DEF rows, p
  <1>3. /\ p \in Ways(n)
        /\ rows[n - 1][p[n - 1]] = WorthOf(m, s, p)
        /\ \A q \in Ways(n) :
            /\ WorthOf(m, s, q) <= WorthOf(m, s, p)
            /\ q # p /\ WorthOf(m, s, q) = WorthOf(m, s, p) =>
                \E t \in 0..(n - 1) : /\ p[t] < q[t]
                                      /\ \A u \in (t + 1)..(n - 1) : p[u] = q[u]
    BY <1>1, <1>2
  <1> QED BY <1>3 DEF n, tr, rows, p

-----------------------------------------------------------------------------
(* Sums over paths. es and et are the exponentials of scores.              *)

\* es and et are positive, as exponentials are.
Weights(n, es, et) ==
    /\ n \in Nat \ {0}
    /\ \A t \in 0..(n - 1) : \A l \in Labels : es[t][l] \in Positive
    /\ \A i, j \in Labels : et[i][j] \in Positive

\* What item t of a path contributes to its weight, and the weight of items a..b
Factor(es, et, p, t) ==
    IF t = 0 THEN es[0][p[0]] ELSE Times(et[p[t - 1]][p[t]], es[t][p[t]])
Factors(n, es, et, p) == [t \in 0..(n - 1) |-> Factor(es, et, p, t)]
Weight(n, es, et, p, a, b) == Multiplied(Factors(n, es, et, p), a..b)
WeightOf(n, es, et) == [p \in Ways(n) |-> Weight(n, es, et, p, 0, n - 1)]

\* The paths with a label of allowed[t] at each item t
Through(n, allowed) == {p \in Ways(n) : \A t \in 0..(n - 1) : p[t] \in allowed[t]}

\* f[t][j] is the weight of the ways through allowed labels to j at item t.
Into(f, et, t, j) == Summed([i \in Labels |-> Times(f[t][i], et[i][j])], Labels)
Reaches(f, n, es, et, allowed) ==
    /\ f \in [0..(n - 1) -> [Labels -> Rationals]]
    /\ \A j \in Labels : f[0][j] = IF j \in allowed[0] THEN es[0][j] ELSE Whole(0)
    /\ \A t \in 1..(n - 1) : \A j \in Labels :
            f[t][j] = IF j \in allowed[t] THEN Times(es[t][j], Into(f, et, t - 1, j))
                      ELSE Whole(0)

LEMMA LabelsFinite ==
  /\ IsFiniteSet(Labels) /\ Labels # {} /\ NumLabels \in Nat \ {0}
  <1>1. NumLabels \in Nat \ {0}
    BY LabelsAssumption DEF LabelsAssumption
  <1>2. IsFiniteSet(Labels)
    BY <1>1, FS_Interval DEF Labels
  <1>3. 0 \in Labels
    BY <1>1 DEF Labels
  <1> QED BY <1>1, <1>2, <1>3

LEMMA FactorIn ==
  ASSUME NEW n, NEW es, NEW et, Weights(n, es, et), NEW p \in Ways(n), NEW t \in 0..(n - 1)
  PROVE  /\ Factors(n, es, et, p)[t] = Factor(es, et, p, t)
         /\ Factor(es, et, p, t) \in Positive
         /\ Factor(es, et, p, t) \in Rationals
  <1>1. p[t] \in Labels
    BY DEF Ways
  <1>2. CASE t = 0
    <2>1. Factor(es, et, p, t) = es[0][p[0]] /\ es[0][p[0]] \in Positive
      BY <1>1, <1>2 DEF Factor, Weights
    <2> QED BY <2>1, PositiveIn DEF Factors
  <1>3. CASE t # 0
    <2>1. t - 1 \in 0..(n - 1)
      BY <1>3 DEF Weights
    <2>2. p[t - 1] \in Labels
      BY <2>1 DEF Ways
    <2>3. Factor(es, et, p, t) = Times(et[p[t - 1]][p[t]], es[t][p[t]])
      BY <1>3 DEF Factor
    <2>4. et[p[t - 1]][p[t]] \in Positive /\ es[t][p[t]] \in Positive
      BY <1>1, <2>2 DEF Weights
    <2>5. Times(et[p[t - 1]][p[t]], es[t][p[t]]) \in Positive
      BY <2>4, PositiveLaws
    <2> QED BY <2>3, <2>5, PositiveIn DEF Factors
  <1> QED BY <1>2, <1>3

\* The weight of items a.. takes in item a.
LEMMA WeightIs ==
  ASSUME NEW n, NEW es, NEW et, Weights(n, es, et), NEW p \in Ways(n)
  PROVE  /\ \A a \in 0..n : Weight(n, es, et, p, a, n - 1) \in Rationals
         /\ \A a \in 0..(n - 1) :
                Weight(n, es, et, p, a, n - 1)
                    = Times(Factor(es, et, p, a), Weight(n, es, et, p, a + 1, n - 1))
         /\ Weight(n, es, et, p, n, n - 1) = Whole(1)
  <1>1. n \in Nat \ {0}
    BY DEF Weights
  <1>2. \A t \in 0..(n - 1) : Factors(n, es, et, p)[t] \in Rationals
    BY FactorIn
  <1>3. ASSUME NEW a \in 0..n
        PROVE  /\ Weight(n, es, et, p, a, n - 1) \in Rationals
               /\ a = n => Weight(n, es, et, p, a, n - 1) = Whole(1)
               /\ a # n => Weight(n, es, et, p, a, n - 1)
                            = Times(Factors(n, es, et, p)[a], Weight(n, es, et, p, a + 1, n - 1))
    <2>1. /\ a \in Int /\ n - 1 \in Int /\ \A t \in a..(n - 1) : Factors(n, es, et, p)[t] \in Rationals
          /\ (a = n => n - 1 < a) /\ (a # n => a <= n - 1)
      BY <1>1, <1>2
    <2> QED BY <2>1, MultipliedInterval DEF Weight
  <1>4. n \in 0..n /\ \A a \in 0..(n - 1) : a \in 0..n /\ a # n
    BY <1>1
  <1> QED BY <1>3, <1>4, FactorIn

\* The paths that are those of r from item t on
Sharing(n, allowed, r, t) == {p \in Through(n, allowed) : \A u \in t..(n - 1) : p[u] = r[u]}

\* r[u] is allowed from item t on.
Allowed(n, allowed, r, t) == \A u \in t..(n - 1) : r[u] \in allowed[u]

\* What the induction over the items says of item t
Reached(f, n, es, et, allowed, t) ==
    \A r \in Ways(n) : Allowed(n, allowed, r, t + 1) =>
        Summed(WeightOf(n, es, et), Sharing(n, allowed, r, t))
            = Times(f[t][r[t]], Weight(n, es, et, r, t + 1, n - 1))

\* There are finitely many paths, so their weights have a sum.
LEMMA PathsFinite ==
  ASSUME NEW n, NEW es, NEW et, Weights(n, es, et)
  PROVE  /\ IsFiniteSet(Ways(n))
         /\ \A p \in Ways(n) : WeightOf(n, es, et)[p] = Weight(n, es, et, p, 0, n - 1)
         /\ \A p \in Ways(n) : WeightOf(n, es, et)[p] \in Positive
         /\ \A p \in Ways(n) : WeightOf(n, es, et)[p] \in Rationals
         /\ \A S \in SUBSET Ways(n) : IsFiniteSet(S) /\ Summed(WeightOf(n, es, et), S) \in Rationals
  <1>1. n \in Nat \ {0}
    BY DEF Weights
  <1>2. IsFiniteSet(Ways(n))
    <2>1. IsFiniteSet(0..(n - 1))
      BY <1>1, FS_Interval
    <2> QED BY <2>1, LabelsFinite, FunctionsFinite DEF Ways
  <1>3. ASSUME NEW p \in Ways(n)
        PROVE  /\ WeightOf(n, es, et)[p] = Weight(n, es, et, p, 0, n - 1)
               /\ WeightOf(n, es, et)[p] \in Positive
    <2>1. \A t \in 0..(n - 1) : Factors(n, es, et, p)[t] \in Positive
      BY FactorIn
    <2>2. Weight(n, es, et, p, 0, n - 1) \in Positive
      BY <1>1, <2>1, MultipliedPositive DEF Weight
    <2> QED BY <2>2 DEF WeightOf
  <1>4. \A p \in Ways(n) : WeightOf(n, es, et)[p] \in Rationals
    BY <1>3, PositiveIn
  <1>5. ASSUME NEW S \in SUBSET Ways(n)
        PROVE  IsFiniteSet(S) /\ Summed(WeightOf(n, es, et), S) \in Rationals
    <2>1. IsFiniteSet(S) /\ \A p \in S : WeightOf(n, es, et)[p] \in Rationals
      BY <1>2, <1>4, FS_Subset
    <2> QED BY <2>1, SummedTakes
  <1> QED BY <1>2, <1>3, <1>4, <1>5

\* Only r shares all of its items.
LEMMA ReachedFirst ==
  ASSUME NEW n, NEW es, NEW et, Weights(n, es, et), NEW allowed, NEW f,
         Reaches(f, n, es, et, allowed)
  PROVE  Reached(f, n, es, et, allowed, 0)
  <1> SUFFICES ASSUME NEW r \in Ways(n), Allowed(n, allowed, r, 0 + 1)
               PROVE  Summed(WeightOf(n, es, et), Sharing(n, allowed, r, 0))
                        = Times(f[0][r[0]], Weight(n, es, et, r, 0 + 1, n - 1))
    BY DEF Reached
  <1>1. n \in Nat \ {0} /\ 0 \in 0..(n - 1) /\ r[0] \in Labels
    BY DEF Weights, Ways
  <1>2. f[0][r[0]] = IF r[0] \in allowed[0] THEN es[0][r[0]] ELSE Whole(0)
    BY <1>1 DEF Reaches
  <1>3. Weight(n, es, et, r, 1, n - 1) \in Rationals
    BY <1>1, WeightIs
  <1>4. CASE r[0] \in allowed[0]
    <2>1. Sharing(n, allowed, r, 0) = {r}
      <3>1. ASSUME NEW p \in Sharing(n, allowed, r, 0) PROVE p = r
        <4>1. p \in [0..(n - 1) -> Labels] /\ \A u \in 0..(n - 1) : p[u] = r[u]
          BY DEF Sharing, Through, Ways
        <4>2. r \in [0..(n - 1) -> Labels]
          BY DEF Ways
        <4> HIDE DEF Labels
        <4>3. PICK A : A = 0..(n - 1)
          OBVIOUS
        <4>4. p \in [A -> Labels] /\ r \in [A -> Labels] /\ \A u \in A : p[u] = r[u]
          BY <4>1, <4>2, <4>3
        <4> QED BY ONLY <4>4, SameFunction
      <3>2. \A t \in 0..(n - 1) : t = 0 \/ t \in 1..(n - 1)
        BY <1>1
      <3>3. r \in Sharing(n, allowed, r, 0)
        BY <1>4, <3>2 DEF Sharing, Through, Allowed
      <3> QED BY <3>1, <3>3
    <2>2. Summed(WeightOf(n, es, et), {r}) = WeightOf(n, es, et)[r]
      <3>1. IsFiniteSet({r}) /\ r \in {r} /\ {r} \ {r} = {}
        BY FS_Singleton
      <3>2. WeightOf(n, es, et)[r] \in Rationals
        BY PathsFinite
      <3>3. PICK h : h = WeightOf(n, es, et)
        OBVIOUS
      <3> QED BY <3>1, <3>2, <3>3, SummedOne
    <2>3. WeightOf(n, es, et)[r] = Times(Factor(es, et, r, 0), Weight(n, es, et, r, 0 + 1, n - 1))
      BY <1>1, PathsFinite, WeightIs
    <2>4. Factor(es, et, r, 0) = es[0][r[0]]
      BY DEF Factor
    <2> QED BY <1>2, <1>4, <2>1, <2>2, <2>3, <2>4
  <1>5. CASE r[0] \notin allowed[0]
    <2>1. Sharing(n, allowed, r, 0) = {}
      BY <1>1, <1>5 DEF Sharing, Through
    <2>2. Summed(WeightOf(n, es, et), {}) = Whole(0)
      BY FS_EmptySet, SummedTakes
    <2>3. Times(Whole(0), Weight(n, es, et, r, 1, n - 1)) = Whole(0)
      BY <1>3, ZeroTimes
    <2> QED BY <1>2, <1>5, <2>1, <2>2, <2>3
  <1> QED BY <1>4, <1>5

\* The paths that share the items of r from t + 1 on are those that share
\* them from t on, for each label at t.
LEMMA ReachedNext ==
  ASSUME NEW n, NEW es, NEW et, Weights(n, es, et), NEW allowed, NEW f,
         Reaches(f, n, es, et, allowed),
         NEW t \in 0..(n - 2), Reached(f, n, es, et, allowed, t)
  PROVE  Reached(f, n, es, et, allowed, t + 1)
  <1> DEFINE w == WeightOf(n, es, et)
  <1> SUFFICES ASSUME NEW r \in Ways(n), Allowed(n, allowed, r, (t + 1) + 1)
               PROVE  Summed(w, Sharing(n, allowed, r, t + 1))
                        = Times(f[t + 1][r[t + 1]], Weight(n, es, et, r, (t + 1) + 1, n - 1))
    BY DEF Reached
  <1>1. /\ n \in Nat \ {0} /\ t \in 0..(n - 1) /\ t + 1 \in 1..(n - 1) /\ t + 1 \in 0..(n - 1)
        /\ (t + 1) - 1 = t /\ t + 1 # 0 /\ (t + 1) + 1 \in 0..n
    BY DEF Weights
  <1>2. PICK j \in Labels : j = r[t + 1]
    BY <1>1 DEF Ways
  <1>3. PICK u \in Rationals : u = Weight(n, es, et, r, (t + 1) + 1, n - 1)
    BY <1>1, WeightIs
  <1>4. f[t + 1][j] = IF j \in allowed[t + 1] THEN Times(es[t + 1][j], Into(f, et, t, j)) ELSE Whole(0)
    BY <1>1, <1>2 DEF Reaches
  <1>5. CASE j \notin allowed[t + 1]
    <2>1. Sharing(n, allowed, r, t + 1) = {}
      BY <1>1, <1>2, <1>5 DEF Sharing, Through
    <2>2. Summed(w, {}) = Whole(0)
      BY FS_EmptySet, SummedTakes
    <2>3. Times(Whole(0), u) = Whole(0)
      BY ZeroTimes
    <2> QED BY <1>2, <1>3, <1>4, <1>5, <2>1, <2>2, <2>3
  <1>6. CASE j \in allowed[t + 1]
    <2> DEFINE S == Sharing(n, allowed, r, t + 1)
               g == [p \in Ways(n) |-> p[t]]
               to(i) == [r EXCEPT ![t] = i]
    <2>1. PICK e \in Rationals : e = es[t + 1][j]
      BY <1>1, PositiveIn DEF Weights
    <2>2. S \in SUBSET Ways(n)
      BY DEF Sharing, Through
    <2>3. ASSUME NEW i \in Labels
          PROVE  /\ to(i) \in Ways(n) /\ to(i)[t] = i
                 /\ \A v \in (t + 1)..(n - 1) : to(i)[v] = r[v]
                 /\ Allowed(n, allowed, to(i), t + 1)
      <3>1. to(i) \in Ways(n) /\ to(i)[t] = i
        BY <1>1 DEF Ways
      <3>2. ASSUME NEW v \in (t + 1)..(n - 1) PROVE to(i)[v] = r[v] /\ v \in 0..(n - 1)
        BY <1>1 DEF Ways
      <3>3. ASSUME NEW v \in (t + 1)..(n - 1) PROVE r[v] \in allowed[v]
        <4>1. v = t + 1 \/ v \in ((t + 1) + 1)..(n - 1)
          BY <1>1
        <4> QED BY <1>2, <1>6, <4>1 DEF Allowed
      <3> HIDE DEF to
      <3> QED BY <3>1, <3>2, <3>3 DEF Allowed
    <2>4. ASSUME NEW i \in Labels
          PROVE  {p \in S : g[p] = i} = Sharing(n, allowed, to(i), t)
      <3>1. ASSUME NEW p \in S, g[p] = i PROVE p \in Sharing(n, allowed, to(i), t)
        <4>1. p \in Through(n, allowed) /\ \A v \in (t + 1)..(n - 1) : p[v] = r[v]
          BY DEF Sharing
        <4>2. p[t] = i
          BY <2>2, <3>1
        <4>3. ASSUME NEW v \in t..(n - 1) PROVE p[v] = to(i)[v]
          <5>1. v = t \/ v \in (t + 1)..(n - 1)
            BY <1>1
          <5> HIDE DEF to
          <5> QED BY <2>3, <4>1, <4>2, <5>1
        <4> HIDE DEF to
        <4> QED BY <4>1, <4>3 DEF Sharing
      <3>2. ASSUME NEW p \in Sharing(n, allowed, to(i), t) PROVE p \in S /\ g[p] = i
        <4>1. p \in Through(n, allowed) /\ p \in Ways(n) /\ \A v \in t..(n - 1) : p[v] = to(i)[v]
          BY DEF Sharing, Through
        <4>2. ASSUME NEW v \in (t + 1)..(n - 1) PROVE p[v] = r[v]
          <5>1. v \in t..(n - 1)
            BY <1>1
          <5> HIDE DEF to
          <5> QED BY <2>3, <4>1, <5>1
        <4>3. p[t] = i
          <5>1. t \in t..(n - 1)
            BY <1>1
          <5> HIDE DEF to
          <5> QED BY <2>3, <4>1, <5>1
        <4> QED BY <4>1, <4>2, <4>3 DEF Sharing
      <3> HIDE DEF S, g, to
      <3> QED BY <3>1, <3>2
    <2>5. ASSUME NEW i \in Labels
          PROVE  /\ f[t][i] \in Rationals /\ et[i][j] \in Rationals
                 /\ Times(f[t][i], et[i][j]) \in Rationals
      <3>1. f[t][i] \in Rationals
        BY <1>1 DEF Reaches
      <3>2. et[i][j] \in Rationals
        BY PositiveIn DEF Weights
      <3> QED BY <3>1, <3>2, TimesLaws
    <2>6. ASSUME NEW i \in Labels
          PROVE  PartSums(w, S, g, Labels)[i] = Times(Times(e, u), Times(f[t][i], et[i][j]))
      <3>1. PartSums(w, S, g, Labels)[i] = Summed(w, Sharing(n, allowed, to(i), t))
        <4> HIDE DEF w, S, g, to
        <4> QED BY <2>4 DEF PartSums
      <3>2. Summed(w, Sharing(n, allowed, to(i), t))
              = Times(f[t][to(i)[t]], Weight(n, es, et, to(i), t + 1, n - 1))
        <4> HIDE DEF to
        <4> QED BY <2>3 DEF Reached
      <3>3. Weight(n, es, et, to(i), t + 1, n - 1)
              = Times(Factor(es, et, to(i), t + 1), Weight(n, es, et, to(i), (t + 1) + 1, n - 1))
        <4> HIDE DEF to
        <4> QED BY <1>1, <2>3, WeightIs
      <3>4. Factor(es, et, to(i), t + 1) = Times(et[i][j], e)
        <4>1. to(i)[t + 1] = j
          <5>1. t + 1 \in (t + 1)..(n - 1)
            BY <1>1
          <5> HIDE DEF to
          <5> QED BY <1>2, <2>3, <5>1
        <4> HIDE DEF to
        <4> QED BY <1>1, <2>1, <2>3, <4>1 DEF Factor
      <3>5. Weight(n, es, et, to(i), (t + 1) + 1, n - 1) = u
        <4>1. ASSUME NEW v \in ((t + 1) + 1)..(n - 1)
              PROVE  Factors(n, es, et, to(i))[v] = Factors(n, es, et, r)[v]
          <5>1. /\ v \in 0..(n - 1) /\ v # 0 /\ v - 1 \in (t + 1)..(n - 1)
                /\ v \in (t + 1)..(n - 1)
            BY <1>1
          <5>2. to(i)[v] = r[v] /\ to(i)[v - 1] = r[v - 1]
            <6> HIDE DEF to
            <6> QED BY <2>3, <5>1
          <5> HIDE DEF to
          <5> QED BY <5>1, <5>2 DEF Factors, Factor
        <4> HIDE DEF to
        <4> QED BY <1>3, <4>1, MultipliedSame DEF Weight
      <3>6. Times(f[t][i], Times(Times(et[i][j], e), u)) = Times(Times(e, u), Times(f[t][i], et[i][j]))
        BY <2>5, TimesShuffle
      <3> HIDE DEF w, S, g, to
      <3> QED BY <2>3, <3>1, <3>2, <3>3, <3>4, <3>5, <3>6
    <2>7. Summed(w, S) = Summed(PartSums(w, S, g, Labels), Labels)
      <3>1. IsFiniteSet(S) /\ \A p \in S : w[p] \in Rationals
        <4> HIDE DEF S
        <4> QED BY <2>2, PathsFinite
      <3>2. \A p \in S : g[p] \in Labels
        <4>1. \A p \in Ways(n) : g[p] \in Labels
          BY <1>1 DEF Ways
        <4> HIDE DEF S, g
        <4> QED BY <2>2, <4>1
      <3> HIDE DEF w, S, g
      <3> QED BY <3>1, <3>2, LabelsFinite, SummedParts
    <2> DEFINE into == [i \in Labels |-> Times(f[t][i], et[i][j])]
    <2>8. \A i \in Labels : into[i] \in Rationals /\ into[i] = Times(f[t][i], et[i][j])
      BY <2>5
    <2>9. PICK x \in Rationals : x = Into(f, et, t, j) /\ x = Summed(into, Labels)
      <3>1. Into(f, et, t, j) = Summed(into, Labels)
        BY DEF Into
      <3> HIDE DEF into
      <3> QED BY <2>8, <3>1, LabelsFinite, SummedTakes
    <2>10. Summed(PartSums(w, S, g, Labels), Labels) = Times(Times(e, u), x)
      <3>1. PICK c \in Rationals : c = Times(e, u)
        BY TimesLaws
      <3>2. \A i \in Labels : PartSums(w, S, g, Labels)[i] = Times(c, into[i])
        <4> HIDE DEF w, S, g, into
        <4> QED BY <2>6, <2>8, <3>1
      <3> HIDE DEF w, S, g, into
      <3> QED BY <2>8, <2>9, <3>1, <3>2, LabelsFinite, SummedScale
    <2>11. Times(Times(e, u), x) = Times(Times(e, x), u)
      <3>1. Times(Times(e, u), x) = Times(e, Times(u, x)) /\ Times(u, x) = Times(x, u)
        BY TimesLaws
      <3>2. Times(Times(e, x), u) = Times(e, Times(x, u))
        BY TimesLaws
      <3> QED BY <3>1, <3>2
    <2> HIDE DEF w, S, g, to, into
    <2>12. Summed(w, S) = Times(Times(e, x), u) /\ f[t + 1][j] = Times(e, x)
      BY <1>4, <1>6, <2>1, <2>7, <2>9, <2>10, <2>11
    <2> QED BY <1>2, <1>3, <2>12 DEF S
  <1> QED BY <1>5, <1>6

\* The weight of all allowed paths is what reaches the last item.
LEMMA PathsSum ==
  ASSUME NEW n, NEW es, NEW et, Weights(n, es, et), NEW allowed, NEW f,
         Reaches(f, n, es, et, allowed)
  PROVE  Summed(WeightOf(n, es, et), Through(n, allowed)) = Summed(f[n - 1], Labels)
  <1> DEFINE w == WeightOf(n, es, et)
             S == Through(n, allowed)
             g == [p \in Ways(n) |-> p[n - 1]]
             P == {t \in Nat : Reached(f, n, es, et, allowed, t)}
  <1>1. n \in Nat \ {0} /\ n - 1 \in 0..(n - 1) /\ (n - 1) + 1 = n
    BY DEF Weights
  <1>2. Reached(f, n, es, et, allowed, n - 1)
    <2>1. 0 \in P
      BY ReachedFirst
    <2>2. ASSUME NEW k \in 0..((n - 1) - 1), k \in P PROVE k + 1 \in P
      <3>1. k \in 0..(n - 2) /\ k + 1 \in Nat
        BY <1>1
      <3> QED BY <2>2, <3>1, ReachedNext
    <2>3. 0 \in Int /\ n - 1 \in Int
      BY <1>1
    <2>4. \A k \in 0..(n - 1) : k \in P
      <3> HIDE DEF P
      <3> QED BY <2>1, <2>2, <2>3, InductionFrom
    <2> QED BY <1>1, <2>4
  <1>3. ASSUME NEW i \in Labels PROVE PartSums(w, S, g, Labels)[i] = f[n - 1][i]
    <2> DEFINE r == [t \in 0..(n - 1) |-> i]
    <2>1. r \in Ways(n) /\ r[n - 1] = i
      BY <1>1 DEF Ways
    <2>2. Allowed(n, allowed, r, (n - 1) + 1)
      <3>1. ASSUME NEW v \in n..(n - 1) PROVE FALSE
        BY <1>1
      <3> HIDE DEF r
      <3> QED BY <1>1, <3>1 DEF Allowed
    <2>3. {p \in S : g[p] = i} = Sharing(n, allowed, r, n - 1)
      <3>1. \A v \in (n - 1)..(n - 1) : v = n - 1
        BY <1>1
      <3>2. n - 1 \in (n - 1)..(n - 1)
        BY <1>1
      <3>3. \A p \in S : p \in Ways(n)
        BY DEF Through
      <3>4. \A p \in S : g[p] = p[n - 1]
        BY <3>3
      <3> HIDE DEF S, g, r
      <3>5. \A p \in S : g[p] = i <=> \A v \in (n - 1)..(n - 1) : p[v] = r[v]
        BY <2>1, <3>1, <3>2, <3>4
      <3> QED BY <3>5 DEF Sharing, S
    <2> HIDE DEF r, g, S, w
    <2>4. PartSums(w, S, g, Labels)[i] = Summed(w, Sharing(n, allowed, r, n - 1))
      BY <2>3 DEF PartSums
    <2>5. Summed(w, Sharing(n, allowed, r, n - 1))
            = Times(f[n - 1][i], Weight(n, es, et, r, (n - 1) + 1, n - 1))
      BY <1>2, <2>1, <2>2 DEF Reached, w
    <2>6. Weight(n, es, et, r, (n - 1) + 1, n - 1) = Whole(1)
      BY <1>1, <2>1, WeightIs
    <2>7. f[n - 1][i] \in Rationals
      BY <1>1 DEF Reaches
    <2>8. Times(f[n - 1][i], Whole(1)) = f[n - 1][i]
      BY <2>7, WholeIn, TimesLaws
    <2> QED BY <2>4, <2>5, <2>6, <2>8
  <1>4. Summed(w, S) = Summed(PartSums(w, S, g, Labels), Labels)
    <2>1. S \in SUBSET Ways(n)
      BY DEF Through
    <2>2. IsFiniteSet(S) /\ \A p \in S : w[p] \in Rationals
      <3> HIDE DEF S
      <3> QED BY <2>1, PathsFinite
    <2>3. \A p \in S : g[p] \in Labels
      <3>1. \A p \in Ways(n) : g[p] \in Labels
        BY <1>1 DEF Ways
      <3> HIDE DEF S, g
      <3> QED BY <2>1, <3>1
    <2> HIDE DEF w, S, g
    <2> QED BY <2>2, <2>3, LabelsFinite, SummedParts
  <1>5. Summed(PartSums(w, S, g, Labels), Labels) = Summed(f[n - 1], Labels)
    <2> HIDE DEF w, S, g
    <2> QED BY <1>3, SummedSame
  <1> QED BY <1>4, <1>5

\* There is such an f.
LEMMA ReachesExist ==
  ASSUME NEW n, NEW es, NEW et, Weights(n, es, et), NEW allowed
  PROVE  \E f : Reaches(f, n, es, et, allowed)
  <1> DEFINE R == [Labels -> Rationals]
             a == [j \in Labels |-> IF j \in allowed[0] THEN es[0][j] ELSE Whole(0)]
             into(prev, j) == Summed([i \in Labels |-> Times(prev[i], et[i][j])], Labels)
             next(t, prev) == [j \in Labels |-> IF j \in allowed[t] THEN Times(es[t][j], into(prev, j))
                                                ELSE Whole(0)]
             step == [p \in (1..(n - 1)) \X R |-> next(p[1], p[2])]
  <1>1. /\ n \in Nat \ {0} /\ n - 1 \in Nat
        /\ \A t \in 1..(n - 1) : t \in 0..(n - 1) /\ t - 1 \in 0..(n - 1)
        /\ Whole(0) \in Rationals /\ 0 \in 0..(n - 1)
    BY WholeIn DEF Weights
  <1>2. ASSUME NEW t \in 0..(n - 1), NEW j \in Labels PROVE es[t][j] \in Rationals
    BY PositiveIn DEF Weights
  <1>3. a \in R
    BY <1>1, <1>2
  <1>4. ASSUME NEW prev \in R, NEW j \in Labels PROVE into(prev, j) \in Rationals
    <2> DEFINE h == [i \in Labels |-> Times(prev[i], et[i][j])]
    <2>1. ASSUME NEW i \in Labels PROVE h[i] \in Rationals
      <3>1. prev[i] \in Rationals /\ et[i][j] \in Rationals
        BY PositiveIn DEF Weights
      <3>2. Times(prev[i], et[i][j]) \in Rationals
        BY <3>1, TimesLaws
      <3> QED BY <3>2
    <2>2. into(prev, j) = Summed(h, Labels)
      OBVIOUS
    <2> HIDE DEF h, into
    <2> QED BY <2>1, <2>2, LabelsFinite, SummedTakes
  <1>5. ASSUME NEW t \in 1..(n - 1), NEW prev \in R PROVE next(t, prev) \in R
    <2>1. ASSUME NEW j \in Labels PROVE Times(es[t][j], into(prev, j)) \in Rationals
      <3> HIDE DEF into, R
      <3> QED BY <1>1, <1>2, <1>4, TimesLaws
    <2> HIDE DEF into
    <2> QED BY <1>1, <2>1
  <1>6. step \in Steps(n - 1, R)
    <2> HIDE DEF next, R
    <2> QED BY <1>5 DEF Steps
  <1>7. PICK f : Follows(f, n - 1, R, a, step)
    <2> HIDE DEF step, R, a
    <2> QED BY <1>1, <1>3, <1>6, Recursion
  <1>8. /\ f \in [0..(n - 1) -> R] /\ f[0] = a
        /\ \A t \in 1..(n - 1) : f[t] = step[<<t, f[t - 1]>>]
    <2> HIDE DEF step, R, a
    <2> QED BY <1>7 DEF Follows
  <1>9. ASSUME NEW t \in 1..(n - 1) PROVE f[t] = next(t, f[t - 1])
    <2>1. f[t - 1] \in R
      <3> HIDE DEF R
      <3> QED BY <1>1, <1>8
    <2> HIDE DEF next, R
    <2> QED BY <1>8, <2>1
  <1>10. ASSUME NEW t \in 1..(n - 1), NEW j \in Labels
         PROVE  f[t][j] = IF j \in allowed[t] THEN Times(es[t][j], Into(f, et, t - 1, j)) ELSE Whole(0)
    <2>1. into(f[t - 1], j) = Into(f, et, t - 1, j)
      BY DEF Into
    <2> HIDE DEF into
    <2> QED BY <1>9, <2>1
  <1>11. \A j \in Labels : f[0][j] = IF j \in allowed[0] THEN es[0][j] ELSE Whole(0)
    BY <1>8
  <1>12. f \in [0..(n - 1) -> [Labels -> Rationals]]
    BY <1>8
  <1> HIDE DEF R, a, into, next, step
  <1> QED BY <1>10, <1>11, <1>12 DEF Reaches

\* The sums of the code's recursion
LEMMA GatheredIs ==
  ASSUME NEW prev, NEW et, NEW j
  PROVE  SumBy(Labels, LAMBDA i : Times(prev[i], et[i][j]))
            = Summed([i \in Labels |-> Times(prev[i], et[i][j])], Labels)
  <1> DEFINE g == [i \in Labels |-> Times(prev[i], et[i][j])]
             Body(iter) == [s \in SUBSET Labels |-> IF s = {} THEN Whole(0)
                               ELSE Plus(Times(prev[Some(s)], et[Some(s)][j]), iter[s \ {Some(s)}])]
             Body2(iter) == [s \in SUBSET Labels |-> IF s = {} THEN Whole(0)
                               ELSE Plus(g[Some(s)], iter[s \ {Some(s)}])]
  <1>1. SumBy(Labels, LAMBDA i : Times(prev[i], et[i][j])) = (CHOOSE iter : iter = Body(iter))[Labels]
    BY DEF SumBy, MapThenFoldSet, Some
  <1>2. Summed(g, Labels) = (CHOOSE iter : iter = Body2(iter))[Labels]
    <2> HIDE DEF g
    <2> QED BY DEF Summed, SumBy, MapThenFoldSet, Some
  <1>3. ASSUME NEW iter PROVE Body(iter) = Body2(iter)
    <2>1. \A s \in SUBSET Labels : s # {} => g[Some(s)] = Times(prev[Some(s)], et[Some(s)][j])
      BY SomeIs
    <2> HIDE DEF g
    <2> QED BY <2>1
  <1> HIDE DEF Body, Body2
  <1> QED BY <1>1, <1>2, <1>3

\* The scale factor of a row of positive numbers
LEMMA ScaledIs ==
  ASSUME NEW row, \A l \in Labels : row[l] \in Positive
  PROVE  /\ Summed(row, Labels) \in Positive
         /\ Scaled(row).scale \in Positive
         /\ Times(Scaled(row).scale, Summed(row, Labels)) = Whole(1)
         /\ Scaled(row).row \in [Labels -> Positive]
         /\ \A l \in Labels : Scaled(row).row[l] = Times(row[l], Scaled(row).scale)
         /\ Scaled(row) = [row |-> [l \in Labels |-> Times(row[l], Scaled(row).scale)],
                           scale |-> Scaled(row).scale]
  <1>1. PICK sum \in Positive : sum = Summed(row, Labels)
    BY LabelsFinite, SummedPositive
  <1>2. sum[1] # 0
    BY DEF Positive
  <1>3. PICK c \in Positive : c = Over(Whole(1), sum)
    BY PositiveIn, PositiveLaws
  <1>4. Scaled(row) = [row |-> [l \in Labels |-> Times(row[l], c)], scale |-> c]
    BY <1>1, <1>2, <1>3 DEF Scaled, Summed
  <1>5. Times(c, sum) = Whole(1)
    BY <1>3, PositiveIn, OverUndoes
  <1>6. \A l \in Labels : Times(row[l], c) \in Positive
    BY PositiveLaws
  <1> QED BY <1>1, <1>4, <1>5, <1>6

\* The rows satisfy the recursion that defines them.
Raw(es, et, t, prev) ==
    [j \in Labels |-> Times(es[t][j], Summed([i \in Labels |-> Times(prev[i], et[i][j])], Labels))]

LEMMA RawIs ==
  ASSUME NEW n, NEW es, NEW et, Weights(n, es, et), NEW t \in 0..(n - 1),
         NEW prev, \A l \in Labels : prev[l] \in Positive
  PROVE  \A j \in Labels : Raw(es, et, t, prev)[j] \in Positive
  <1> SUFFICES ASSUME NEW j \in Labels PROVE Raw(es, et, t, prev)[j] \in Positive
    OBVIOUS
  <1> DEFINE h == [i \in Labels |-> Times(prev[i], et[i][j])]
  <1>1. ASSUME NEW i \in Labels PROVE h[i] \in Positive
    <2>1. et[i][j] \in Positive
      BY DEF Weights
    <2>2. Times(prev[i], et[i][j]) \in Positive
      BY <2>1, PositiveLaws
    <2> QED BY <2>2
  <1>2. Raw(es, et, t, prev)[j] = Times(es[t][j], Summed(h, Labels))
    BY DEF Raw
  <1> HIDE DEF h
  <1>3. Summed(h, Labels) \in Positive
    BY <1>1, LabelsFinite, SummedPositive
  <1>4. es[t][j] \in Positive
    BY DEF Weights
  <1> QED BY <1>2, <1>3, <1>4, PositiveLaws

\* The rows of alpha and their scale factors are positive and scaled.
LEMMA ForwardIs ==
  ASSUME NEW n, NEW es, NEW et, Weights(n, es, et)
  PROVE  /\ Forward(n, es, et)[0] = Scaled(es[0])
         /\ \A t \in 1..(n - 1) :
                Forward(n, es, et)[t] = Scaled(Raw(es, et, t, Forward(n, es, et)[t - 1].row))
         /\ \A t \in 0..(n - 1) :
                /\ Forward(n, es, et)[t].row \in [Labels -> Positive]
                /\ Forward(n, es, et)[t].scale \in Positive
  <1> DEFINE R == [row : [Labels -> Positive], scale : Positive]
             a == Scaled(es[0])
             next(t, prev) == Scaled(Raw(es, et, t, prev.row))
             step == [p \in (1..(n - 1)) \X R |-> next(p[1], p[2])]
             Body(fwd) == [t \in 0..(n - 1) |->
                IF t = 0 THEN Scaled(es[0])
                ELSE LET prev == fwd[t - 1].row
                     IN Scaled([j \in Labels |->
                          Times(es[t][j], SumBy(Labels, LAMBDA i : Times(prev[i], et[i][j])))])]
  <1>1. /\ n \in Nat \ {0} /\ n - 1 \in Nat /\ 0 \in 0..(n - 1)
        /\ \A t \in 1..(n - 1) : t \in 0..(n - 1) /\ t # 0 /\ t - 1 \in 0..(n - 1)
    BY DEF Weights
  <1>2. ASSUME NEW x, NEW row, x = Scaled(row), \A l \in Labels : row[l] \in Positive
        PROVE  x \in R
    <2>1. /\ Scaled(row).scale \in Positive /\ Scaled(row).row \in [Labels -> Positive]
          /\ Scaled(row) = [row |-> [l \in Labels |-> Times(row[l], Scaled(row).scale)],
                            scale |-> Scaled(row).scale]
      BY <1>2, ScaledIs
    <2>2. Scaled(row) = [row |-> Scaled(row).row, scale |-> Scaled(row).scale]
      BY <2>1
    <2> QED BY <1>2, <2>1, <2>2
  <1>3. a \in R
    <2>1. \A l \in Labels : es[0][l] \in Positive
      BY <1>1 DEF Weights
    <2> HIDE DEF R
    <2> QED BY <1>2, <2>1
  <1>4. ASSUME NEW t \in 1..(n - 1), NEW prev \in R PROVE next(t, prev) \in R
    <2>1. \A l \in Labels : prev.row[l] \in Positive
      OBVIOUS
    <2>2. \A j \in Labels : Raw(es, et, t, prev.row)[j] \in Positive
      BY <1>1, <2>1, RawIs
    <2> HIDE DEF R
    <2> QED BY <1>2, <2>2
  <1>5. step \in Steps(n - 1, R)
    <2> HIDE DEF next, R
    <2> QED BY <1>4 DEF Steps
  <1>6. PICK f : Follows(f, n - 1, R, a, step)
    <2> HIDE DEF step, R, a
    <2> QED BY <1>1, <1>3, <1>5, Recursion
  <1>7. /\ f \in [0..(n - 1) -> R] /\ f[0] = a
        /\ \A t \in 1..(n - 1) : f[t] = step[<<t, f[t - 1]>>]
    <2> HIDE DEF step, R, a
    <2> QED BY <1>6 DEF Follows
  <1>8. ASSUME NEW t \in 1..(n - 1) PROVE f[t] = next(t, f[t - 1])
    <2>1. f[t - 1] \in R
      <3> HIDE DEF R
      <3> QED BY <1>1, <1>7
    <2> HIDE DEF next, R
    <2> QED BY <1>7, <2>1
  <1>9. ASSUME NEW g, NEW t PROVE
          LET prev == g[t - 1].row
          IN Scaled([j \in Labels |-> Times(es[t][j], SumBy(Labels, LAMBDA i : Times(prev[i], et[i][j])))])
               = next(t, g[t - 1])
    <2> DEFINE prev == g[t - 1].row
    <2>1. \A j \in Labels : SumBy(Labels, LAMBDA i : Times(prev[i], et[i][j]))
            = Summed([i \in Labels |-> Times(prev[i], et[i][j])], Labels)
      <3> HIDE DEF prev
      <3> QED BY GatheredIs
    <2>2. [j \in Labels |-> Times(es[t][j], SumBy(Labels, LAMBDA i : Times(prev[i], et[i][j])))]
            = Raw(es, et, t, prev)
      <3> HIDE DEF prev
      <3> QED BY <2>1 DEF Raw
    <2> QED BY <2>2
  <1>10. ASSUME NEW g PROVE Body(g) = [t \in 0..(n - 1) |-> IF t = 0 THEN a ELSE next(t, g[t - 1])]
    <2> HIDE DEF next
    <2> QED BY <1>9
  <1>11. f = Body(f)
    <2>1. ASSUME NEW t \in 0..(n - 1)
          PROVE  f[t] = IF t = 0 THEN a ELSE next(t, f[t - 1])
      <3>1. CASE t = 0
        BY <1>7, <3>1
      <3>2. CASE t # 0
        <4>1. t \in 1..(n - 1)
          BY <3>2
        <4> HIDE DEF next, a
        <4> QED BY <1>8, <3>2, <4>1
      <3> QED BY <3>1, <3>2
    <2>2. f = [t \in 0..(n - 1) |-> f[t]]
      <3> HIDE DEF R
      <3> QED BY <1>7
    <2> HIDE DEF R, next, a, Body
    <2> QED BY <1>10, <2>1, <2>2
  <1> DEFINE fwd == Forward(n, es, et)
  <1>12. fwd = Body(fwd)
    <2>1. fwd = CHOOSE x : x = Body(x)
      BY DEF Forward
    <2> HIDE DEF fwd, Body
    <2> QED BY <1>11, <2>1
  <1> HIDE DEF fwd, Body
  <1>13. fwd[0] = a /\ \A t \in 1..(n - 1) : fwd[t] = next(t, fwd[t - 1])
    <2> HIDE DEF next, a
    <2> QED BY <1>1, <1>10, <1>12
  <1> DEFINE U == {k \in Nat : k <= n - 1 => fwd[k] \in R}
  <1>14. Nat \subseteq U
    <2>1. 0 \in U
      <3> HIDE DEF a, R
      <3> QED BY <1>3, <1>13
    <2>2. ASSUME NEW k \in Nat, k \in U PROVE k + 1 \in U
      <3> SUFFICES ASSUME k + 1 <= n - 1 PROVE fwd[k + 1] \in R
        OBVIOUS
      <3>1. k + 1 \in 1..(n - 1) /\ (k + 1) - 1 = k /\ k <= n - 1
        BY <1>1
      <3>2. fwd[k] \in R
        BY <2>2, <3>1
      <3> HIDE DEF next, R, a
      <3> QED BY <1>4, <1>13, <3>1, <3>2
    <2> HIDE DEF U
    <2> QED BY <2>1, <2>2, Induction
  <1>15. \A t \in 0..(n - 1) : fwd[t] \in R
    <2> HIDE DEF R
    <2> QED BY <1>14
  <1> QED BY <1>13, <1>15 DEF fwd

\* Every label is allowed at every item.
Anything(n) == [t \in 0..(n - 1) |-> Labels]

\* A row of alpha is that of f but for the scale factors so far.
AlphaIs(n, es, et, f, cs, t) ==
    /\ \A j \in Labels : Forward(n, es, et)[t].row[j] = Times(Multiplied(cs, 0..t), f[t][j])
    /\ Times(Multiplied(cs, 0..t), Summed(f[t], Labels)) = Whole(1)

ScalesOf(n, es, et, cs) == \A t \in 0..(n - 1) : cs[t] = Forward(n, es, et)[t].scale

LEMMA ScalesIn ==
  ASSUME NEW n, NEW es, NEW et, Weights(n, es, et), NEW cs, ScalesOf(n, es, et, cs)
  PROVE  /\ \A t \in 0..(n - 1) : cs[t] \in Positive /\ cs[t] \in Rationals
         /\ \A a, b \in 0..(n - 1) : Multiplied(cs, a..b) \in Positive /\ Multiplied(cs, a..b) \in Rationals
  <1>1. \A t \in 0..(n - 1) : cs[t] \in Positive /\ cs[t] \in Rationals
    BY ForwardIs, PositiveIn DEF ScalesOf
  <1>2. ASSUME NEW a \in 0..(n - 1), NEW b \in 0..(n - 1)
        PROVE  Multiplied(cs, a..b) \in Positive /\ Multiplied(cs, a..b) \in Rationals
    <2>1. a \in Int /\ b \in Int /\ \A t \in a..b : t \in 0..(n - 1)
      BY DEF Weights
    <2>2. \A t \in a..b : cs[t] \in Positive
      BY <1>1, <2>1
    <2>3. Multiplied(cs, a..b) \in Positive
      BY <2>1, <2>2, MultipliedPositive
    <2> QED BY <2>3, PositiveIn
  <1> QED BY <1>1, <1>2

LEMMA AlphaFirst ==
  ASSUME NEW n, NEW es, NEW et, Weights(n, es, et), NEW cs, ScalesOf(n, es, et, cs),
         NEW f, Reaches(f, n, es, et, Anything(n))
  PROVE  AlphaIs(n, es, et, f, cs, 0)
  <1>1. n \in Nat \ {0} /\ 0 \in 0..(n - 1)
    BY DEF Weights
  <1>2. \A j \in Labels : es[0][j] \in Positive /\ es[0][j] \in Rationals
    BY <1>1, PositiveIn DEF Weights
  <1>3. Forward(n, es, et)[0] = Scaled(es[0]) /\ cs[0] = Scaled(es[0]).scale
    BY <1>1, ForwardIs DEF ScalesOf
  <1>4. \A j \in Labels : f[0][j] = es[0][j]
    BY <1>1 DEF Reaches, Anything
  <1>5. PICK c \in Positive : c = cs[0] /\ c \in Rationals
    BY <1>1, ScalesIn
  <1>6. Multiplied(cs, 0..0) = c
    <2>1. \A t \in 0..0 : cs[t] \in Rationals
      BY <1>1, ScalesIn
    <2>2. Multiplied(cs, 0..0) = Times(cs[0], Multiplied(cs, (0 + 1)..0))
      <3>1. 0 \in Int /\ 0 <= 0
        OBVIOUS
      <3> QED BY <2>1, <3>1, MultipliedInterval
    <2>3. Multiplied(cs, (0 + 1)..0) = Whole(1)
      <3>1. \A t \in (0 + 1)..0 : cs[t] \in Rationals
        OBVIOUS
      <3>2. 0 < 0 + 1 /\ 0 + 1 \in Int
        OBVIOUS
      <3> QED BY <3>1, <3>2, MultipliedInterval
    <2>4. Times(c, Whole(1)) = Times(Whole(1), c) /\ Times(Whole(1), c) = c
      BY <1>5, WholeIn, TimesLaws
    <2> QED BY <1>5, <2>2, <2>3, <2>4
  <1>7. /\ Times(Scaled(es[0]).scale, Summed(es[0], Labels)) = Whole(1)
        /\ \A l \in Labels : Scaled(es[0]).row[l] = Times(es[0][l], Scaled(es[0]).scale)
    BY <1>2, ScaledIs
  <1>8. Summed(es[0], Labels) = Summed(f[0], Labels)
    BY <1>4, SummedSame
  <1>9. \A j \in Labels : Times(es[0][j], c) = Times(c, es[0][j])
    BY <1>2, <1>5, TimesLaws
  <1> QED BY <1>3, <1>4, <1>5, <1>6, <1>7, <1>8, <1>9 DEF AlphaIs

LEMMA AlphaNext ==
  ASSUME NEW n, NEW es, NEW et, Weights(n, es, et), NEW cs, ScalesOf(n, es, et, cs),
         NEW f, Reaches(f, n, es, et, Anything(n)),
         NEW t \in 0..(n - 2), AlphaIs(n, es, et, f, cs, t)
  PROVE  AlphaIs(n, es, et, f, cs, t + 1)
  <1> DEFINE prev == Forward(n, es, et)[t].row
             raw == Raw(es, et, t + 1, prev)
  <1>1. /\ n \in Nat \ {0} /\ t \in 0..(n - 1) /\ t + 1 \in 1..(n - 1) /\ t + 1 \in 0..(n - 1)
        /\ (t + 1) - 1 = t /\ t \in Int /\ t + 1 \in Int /\ 0 \in 0..(n - 1)
    BY DEF Weights
  <1>2. PICK C \in Rationals : C = Multiplied(cs, 0..t)
    BY <1>1, ScalesIn
  <1>3. PICK c \in Rationals : c = cs[t + 1]
    BY <1>1, ScalesIn
  <1>4. Multiplied(cs, 0..(t + 1)) = Times(c, C)
    <2>1. \A u \in 0..(t + 1) : cs[u] \in Rationals
      BY <1>1, ScalesIn
    <2>2. 0 <= t + 1
      BY <1>1
    <2>3. Multiplied(cs, 0..(t + 1)) = Times(cs[t + 1], Multiplied(cs, 0..((t + 1) - 1)))
      BY <1>1, <2>1, <2>2, MultipliedInterval
    <2> QED BY <1>1, <1>2, <1>3, <2>3
  <1>5. \A i \in Labels : prev[i] = Times(C, f[t][i]) /\ prev[i] \in Positive /\ f[t][i] \in Rationals
    <2>1. \A i \in Labels : prev[i] = Times(C, f[t][i])
      BY <1>2 DEF AlphaIs
    <2>2. prev \in [Labels -> Positive]
      BY <1>1, ForwardIs
    <2>3. f[t] \in [Labels -> Rationals]
      BY <1>1 DEF Reaches
    <2> HIDE DEF prev
    <2> QED BY <2>1, <2>2, <2>3
  <1>6. Forward(n, es, et)[t + 1] = Scaled(raw) /\ c = Scaled(raw).scale
    BY <1>1, <1>3, ForwardIs DEF ScalesOf
  <1> HIDE DEF prev
  <1>7. \A j \in Labels : raw[j] \in Positive
    BY <1>1, <1>5, RawIs
  <1>8. ASSUME NEW j \in Labels
        PROVE  raw[j] = Times(C, f[t + 1][j]) /\ f[t + 1][j] \in Rationals
    <2> DEFINE g == [i \in Labels |-> Times(f[t][i], et[i][j])]
               h == [i \in Labels |-> Times(prev[i], et[i][j])]
    <2>1. ASSUME NEW i \in Labels
          PROVE  g[i] \in Rationals /\ h[i] = Times(C, g[i])
      <3>1. f[t][i] \in Rationals /\ prev[i] = Times(C, f[t][i])
        BY <1>5
      <3>2. et[i][j] \in Rationals
        BY PositiveIn DEF Weights
      <3>3. Times(Times(C, f[t][i]), et[i][j]) = Times(C, Times(f[t][i], et[i][j]))
        <4>1. PICK y \in Rationals, z \in Rationals : y = f[t][i] /\ z = et[i][j]
          BY <3>1, <3>2
        <4>2. Times(Times(C, y), z) = Times(C, Times(y, z))
          BY TimesLaws
        <4> QED BY <4>1, <4>2
      <3>4. Times(f[t][i], et[i][j]) \in Rationals
        BY <3>1, <3>2, TimesLaws
      <3> QED BY <3>1, <3>3, <3>4
    <2>2. raw[j] = Times(es[t + 1][j], Summed(h, Labels))
      BY DEF Raw
    <2>3. f[t + 1][j] = Times(es[t + 1][j], Summed(g, Labels))
      <3>1. j \in Anything(n)[t + 1]
        BY <1>1 DEF Anything
      <3> QED BY <1>1, <3>1 DEF Reaches, Into
    <2> HIDE DEF g, h, raw
    <2>4. PICK x \in Rationals : x = Summed(g, Labels)
      BY <2>1, LabelsFinite, SummedTakes
    <2>5. Summed(h, Labels) = Times(C, x)
      BY <2>1, <2>4, LabelsFinite, SummedScale
    <2>6. PICK e \in Rationals : e = es[t + 1][j]
      BY <1>1, PositiveIn DEF Weights
    <2>7. Times(e, Times(C, x)) = Times(C, Times(e, x))
      <3>1. Times(e, Times(C, x)) = Times(Times(e, C), x) /\ Times(e, C) = Times(C, e)
        BY TimesLaws
      <3>2. Times(Times(C, e), x) = Times(C, Times(e, x))
        BY TimesLaws
      <3> QED BY <3>1, <3>2
    <2>8. Times(e, x) \in Rationals
      BY TimesLaws
    <2> QED BY <2>2, <2>3, <2>4, <2>5, <2>6, <2>7, <2>8
  <1>9. /\ Times(Scaled(raw).scale, Summed(raw, Labels)) = Whole(1)
        /\ \A l \in Labels : Scaled(raw).row[l] = Times(raw[l], Scaled(raw).scale)
    BY <1>7, ScaledIs
  <1> HIDE DEF raw
  <1>10. PICK X \in Rationals : X = Summed(f[t + 1], Labels)
    BY <1>8, LabelsFinite, SummedTakes
  <1>11. Summed(raw, Labels) = Times(C, X)
    <2>1. PICK h : h = f[t + 1]
      OBVIOUS
    <2>2. \A j \in Labels : h[j] \in Rationals /\ raw[j] = Times(C, h[j])
      BY <1>8, <2>1
    <2>3. Summed(raw, Labels) = Times(C, Summed(h, Labels))
      BY <2>2, LabelsFinite, SummedScale
    <2> QED BY <1>10, <2>1, <2>3
  <1>12. Times(c, Times(C, X)) = Times(Times(c, C), X)
    BY TimesLaws
  <1>13. ASSUME NEW j \in Labels
         PROVE  Times(raw[j], c) = Times(Times(c, C), f[t + 1][j])
    <2>1. PICK y \in Rationals : y = f[t + 1][j]
      BY <1>8
    <2>2. raw[j] = Times(C, y)
      BY <1>8, <2>1
    <2>3. Times(Times(C, y), c) = Times(c, Times(C, y)) /\ Times(c, Times(C, y)) = Times(Times(c, C), y)
      <3>1. Times(C, y) \in Rationals
        BY TimesLaws
      <3> QED BY <3>1, TimesLaws
    <2> QED BY <2>1, <2>2, <2>3
  <1>14. \A j \in Labels : Forward(n, es, et)[t + 1].row[j] = Times(Multiplied(cs, 0..(t + 1)), f[t + 1][j])
    BY <1>4, <1>6, <1>9, <1>13
  <1>15. Times(Multiplied(cs, 0..(t + 1)), Summed(f[t + 1], Labels)) = Whole(1)
    BY <1>4, <1>6, <1>9, <1>10, <1>11, <1>12
  <1> QED BY <1>14, <1>15 DEF AlphaIs

\* All rows of alpha are those of f but for the scale factors.
LEMMA AlphaReaches ==
  ASSUME NEW n, NEW es, NEW et, Weights(n, es, et), NEW cs, ScalesOf(n, es, et, cs),
         NEW f, Reaches(f, n, es, et, Anything(n))
  PROVE  \A t \in 0..(n - 1) : AlphaIs(n, es, et, f, cs, t)
  <1> DEFINE P == {t \in Nat : AlphaIs(n, es, et, f, cs, t)}
  <1>1. n \in Nat \ {0} /\ 0 \in Int /\ n - 1 \in Int
    BY DEF Weights
  <1>2. 0 \in P
    BY AlphaFirst
  <1>3. ASSUME NEW k \in 0..((n - 1) - 1), k \in P PROVE k + 1 \in P
    <2>1. k \in 0..(n - 2) /\ k + 1 \in Nat
      BY <1>1
    <2> QED BY <1>3, <2>1, AlphaNext
  <1>4. \A k \in 0..(n - 1) : k \in P
    <2> HIDE DEF P
    <2> QED BY <1>1, <1>2, <1>3, InductionFrom
  <1> QED BY <1>4

\* The partition factor is the weight of all paths.
LEMMA NormIs ==
  ASSUME NEW n, NEW es, NEW et, Weights(n, es, et), NEW cs, ScalesOf(n, es, et, cs)
  PROVE  /\ Norm(n, cs) = Summed(WeightOf(n, es, et), Ways(n))
         /\ Times(Multiplied(cs, 0..(n - 1)), Norm(n, cs)) = Whole(1)
         /\ Norm(n, cs) \in Rationals
  <1>1. PICK f : Reaches(f, n, es, et, Anything(n))
    BY ReachesExist
  <1>2. n \in Nat \ {0} /\ n - 1 \in 0..(n - 1) /\ 0 \in 0..(n - 1)
    BY DEF Weights
  <1>3. PICK C \in Positive : C = Multiplied(cs, 0..(n - 1)) /\ C \in Rationals /\ C # Whole(0)
    BY <1>2, ScalesIn, PositiveIn
  <1>4. Through(n, Anything(n)) = Ways(n)
    BY DEF Through, Anything, Ways
  <1>5. Summed(WeightOf(n, es, et), Ways(n)) = Summed(f[n - 1], Labels)
    BY <1>1, <1>4, PathsSum
  <1>6. PICK X \in Rationals : X = Summed(WeightOf(n, es, et), Ways(n))
    <2>1. Ways(n) \in SUBSET Ways(n)
      OBVIOUS
    <2> QED BY <2>1, PathsFinite
  <1>7. Times(C, X) = Whole(1)
    BY <1>1, <1>2, <1>3, <1>5, <1>6, AlphaReaches DEF AlphaIs
  <1>8. Norm(n, cs) = Over(Whole(1), C)
    BY <1>3 DEF Norm, Multiplied
  <1>9. Over(Times(X, C), C) = X
    BY <1>3, OverUndoes
  <1>10. Times(X, C) = Times(C, X)
    BY <1>3, <1>6, TimesLaws
  <1> QED BY <1>3, <1>6, <1>7, <1>8, <1>9, <1>10

LEMMA SpreadIs ==
  ASSUME NEW next, NEW et, NEW e, NEW i
  PROVE  SumBy(Labels, LAMBDA j : Times(et[i][j], Times(next[j], e[j])))
            = Summed([j \in Labels |-> Times(et[i][j], Times(next[j], e[j]))], Labels)
  <1> DEFINE g == [j \in Labels |-> Times(et[i][j], Times(next[j], e[j]))]
             Body(iter) == [s \in SUBSET Labels |-> IF s = {} THEN Whole(0)
                               ELSE Plus(Times(et[i][Some(s)], Times(next[Some(s)], e[Some(s)])),
                                         iter[s \ {Some(s)}])]
             Body2(iter) == [s \in SUBSET Labels |-> IF s = {} THEN Whole(0)
                               ELSE Plus(g[Some(s)], iter[s \ {Some(s)}])]
  <1>1. SumBy(Labels, LAMBDA j : Times(et[i][j], Times(next[j], e[j])))
            = (CHOOSE iter : iter = Body(iter))[Labels]
    BY DEF SumBy, MapThenFoldSet, Some
  <1>2. Summed(g, Labels) = (CHOOSE iter : iter = Body2(iter))[Labels]
    <2> HIDE DEF g
    <2> QED BY DEF Summed, SumBy, MapThenFoldSet, Some
  <1>3. ASSUME NEW iter PROVE Body(iter) = Body2(iter)
    <2>1. \A s \in SUBSET Labels : s # {} =>
            g[Some(s)] = Times(et[i][Some(s)], Times(next[Some(s)], e[Some(s)]))
      BY SomeIs
    <2> HIDE DEF g
    <2> QED BY <2>1
  <1> HIDE DEF Body, Body2
  <1> QED BY <1>1, <1>2, <1>3

\* The row before next, e being the weights of the item of next
Spread(et, e, c, next) ==
    [i \in Labels |->
        Times(c, Summed([j \in Labels |-> Times(et[i][j], Times(next[j], e[j]))], Labels))]

LEMMA SpreadIn ==
  ASSUME NEW n, NEW es, NEW et, Weights(n, es, et), NEW t \in 0..(n - 1),
         NEW c \in Rationals, NEW next, \A l \in Labels : next[l] \in Rationals
  PROVE  Spread(et, es[t], c, next) \in [Labels -> Rationals]
  <1> SUFFICES ASSUME NEW i \in Labels PROVE Spread(et, es[t], c, next)[i] \in Rationals
    BY DEF Spread
  <1> DEFINE h == [j \in Labels |-> Times(et[i][j], Times(next[j], es[t][j]))]
  <1>1. ASSUME NEW j \in Labels PROVE h[j] \in Rationals
    <2>1. et[i][j] \in Rationals /\ es[t][j] \in Rationals
      BY PositiveIn DEF Weights
    <2>2. Times(next[j], es[t][j]) \in Rationals
      BY <2>1, TimesLaws
    <2>3. Times(et[i][j], Times(next[j], es[t][j])) \in Rationals
      BY <2>1, <2>2, TimesLaws
    <2> QED BY <2>3
  <1>2. Spread(et, es[t], c, next)[i] = Times(c, Summed(h, Labels))
    BY DEF Spread
  <1> HIDE DEF h
  <1>3. Summed(h, Labels) \in Rationals
    BY <1>1, LabelsFinite, SummedTakes
  <1> QED BY <1>2, <1>3, TimesLaws

\* The rows of beta satisfy the recursion that defines them.
LEMMA BackwardIs ==
  ASSUME NEW n, NEW es, NEW et, Weights(n, es, et),
         NEW cs, \A t \in 0..(n - 1) : cs[t] \in Rationals
  PROVE  /\ \A i \in Labels : Backward(n, es, et, cs)[n - 1][i] = cs[n - 1]
         /\ \A t \in 0..(n - 2) :
                Backward(n, es, et, cs)[t] = Spread(et, es[t + 1], cs[t], Backward(n, es, et, cs)[t + 1])
         /\ \A t \in 0..(n - 1) : Backward(n, es, et, cs)[t] \in [Labels -> Rationals]
  <1> DEFINE R == [Labels -> Rationals]
             a == [i \in Labels |-> cs[n - 1]]
             prior(t, next) == Spread(et, es[t], cs[t - 1], next)
             step == [p \in (1..(n - 1)) \X R |-> prior(p[1], p[2])]
             Body(row) == [t \in 0..(n - 1) |->
                IF t = n - 1 THEN [i \in Labels |-> cs[n - 1]]
                ELSE LET next == row[t + 1]
                     IN [i \in Labels |->
                          Times(cs[t], SumBy(Labels, LAMBDA j :
                              Times(et[i][j], Times(next[j], es[t + 1][j]))))]]
  <1>1. /\ n \in Nat \ {0} /\ n - 1 \in Nat /\ n - 1 \in 0..(n - 1)
        /\ \A t \in 1..(n - 1) : t \in 0..(n - 1) /\ t - 1 \in 0..(n - 1)
        /\ \A t \in 0..(n - 2) : /\ t + 1 \in 1..(n - 1) /\ (t + 1) - 1 = t /\ t # n - 1
                                 /\ t \in 0..(n - 1)
        /\ \A t \in 0..(n - 1) : t # n - 1 => t \in 0..(n - 2)
    BY DEF Weights
  <1>2. a \in R
    BY <1>1
  <1>3. ASSUME NEW t \in 1..(n - 1), NEW next \in R PROVE prior(t, next) \in R
    <2>1. t \in 0..(n - 1) /\ cs[t - 1] \in Rationals /\ \A l \in Labels : next[l] \in Rationals
      BY <1>1
    <2> QED BY <2>1, SpreadIn
  <1>4. step \in Steps(n - 1, R)
    <2> HIDE DEF prior, R
    <2> QED BY <1>3 DEF Steps
  <1>5. PICK f : Precedes(f, n - 1, R, a, step)
    <2> HIDE DEF step, R, a
    <2> QED BY <1>1, <1>2, <1>4, BackRecursion
  <1>6. /\ f \in [0..(n - 1) -> R] /\ f[n - 1] = a
        /\ \A t \in 1..(n - 1) : f[t - 1] = step[<<t, f[t]>>]
    <2> HIDE DEF step, R, a
    <2> QED BY <1>5 DEF Precedes
  <1>7. ASSUME NEW t \in 0..(n - 2) PROVE f[t] = prior(t + 1, f[t + 1])
    <2>1. f[t + 1] \in R /\ t + 1 \in 1..(n - 1) /\ f[t] = step[<<t + 1, f[t + 1]>>]
      <3> HIDE DEF R, step
      <3> QED BY <1>1, <1>6
    <2> HIDE DEF prior, R
    <2> QED BY <2>1
  <1>8. ASSUME NEW g, NEW t \in 0..(n - 1), t # n - 1 PROVE
          LET next == g[t + 1]
          IN [i \in Labels |-> Times(cs[t], SumBy(Labels, LAMBDA j :
                                    Times(et[i][j], Times(next[j], es[t + 1][j]))))]
               = prior(t + 1, g[t + 1])
    <2> DEFINE next == g[t + 1]
    <2>1. \A i \in Labels : SumBy(Labels, LAMBDA j : Times(et[i][j], Times(next[j], es[t + 1][j])))
            = Summed([j \in Labels |-> Times(et[i][j], Times(next[j], es[t + 1][j]))], Labels)
      <3> HIDE DEF next
      <3> QED BY SpreadIs
    <2>2. [i \in Labels |-> Times(cs[t], SumBy(Labels, LAMBDA j :
                                    Times(et[i][j], Times(next[j], es[t + 1][j]))))]
            = Spread(et, es[t + 1], cs[t], next)
      <3> HIDE DEF next
      <3> QED BY <2>1 DEF Spread
    <2>3. (t + 1) - 1 = t
      BY <1>1
    <2> QED BY <2>2, <2>3
  <1>9. ASSUME NEW g
        PROVE  Body(g) = [t \in 0..(n - 1) |-> IF t = n - 1 THEN a ELSE prior(t + 1, g[t + 1])]
    <2> HIDE DEF prior
    <2> QED BY <1>8
  <1>10. f = Body(f)
    <2>1. ASSUME NEW t \in 0..(n - 1)
          PROVE  f[t] = IF t = n - 1 THEN a ELSE prior(t + 1, f[t + 1])
      <3> HIDE DEF prior, a
      <3> QED BY <1>1, <1>6, <1>7
    <2>2. f = [t \in 0..(n - 1) |-> f[t]]
      <3> HIDE DEF R
      <3> QED BY <1>6
    <2> HIDE DEF R, prior, a, Body
    <2> QED BY <1>9, <2>1, <2>2
  <1> DEFINE bw == Backward(n, es, et, cs)
  <1>11. bw = Body(bw)
    <2>1. bw = CHOOSE x : x = Body(x)
      BY DEF Backward
    <2> HIDE DEF bw, Body
    <2> QED BY <1>10, <2>1
  <1> HIDE DEF bw, Body
  <1>12. bw[n - 1] = a /\ \A t \in 0..(n - 2) : bw[t] = prior(t + 1, bw[t + 1])
    <2> HIDE DEF prior, a
    <2> QED BY <1>1, <1>9, <1>11
  <1> DEFINE U == {k \in Nat : k <= n - 1 => bw[(n - 1) - k] \in R}
  <1>13. Nat \subseteq U
    <2>1. 0 \in U
      <3> HIDE DEF a, R
      <3> QED BY <1>1, <1>2, <1>12
    <2>2. ASSUME NEW k \in Nat, k \in U PROVE k + 1 \in U
      <3> SUFFICES ASSUME k + 1 <= n - 1 PROVE bw[(n - 1) - (k + 1)] \in R
        OBVIOUS
      <3>1. PICK t \in 0..(n - 2) : t = (n - 1) - (k + 1) /\ t + 1 = (n - 1) - k
        BY <1>1
      <3>2. k <= n - 1
        BY <1>1
      <3>3. bw[t + 1] \in R
        <4> HIDE DEF R
        <4> QED BY <2>2, <3>1, <3>2
      <3> HIDE DEF prior, R, a
      <3> QED BY <1>1, <1>3, <1>12, <3>1, <3>3
    <2> HIDE DEF U
    <2> QED BY <2>1, <2>2, Induction
  <1>14. ASSUME NEW t \in 0..(n - 1) PROVE bw[t] \in R
    <2>1. (n - 1) - t \in Nat /\ (n - 1) - t <= n - 1 /\ (n - 1) - ((n - 1) - t) = t
      BY <1>1
    <2>2. (n - 1) - t \in U
      BY <1>13, <2>1
    <2> HIDE DEF R
    <2> QED BY <2>1, <2>2
  <1>15. \A t \in 0..(n - 2) : prior(t + 1, bw[t + 1]) = Spread(et, es[t + 1], cs[t], bw[t + 1])
    BY <1>1
  <1> HIDE DEF U, step, prior
  <1> QED BY <1>12, <1>14, <1>15 DEF bw

\* alpha and bw meet at any item: what reaches it and what goes on from it.
Met(f, bw, t) == Summed([i \in Labels |-> Times(f[t][i], bw[t][i])], Labels)

Meet(n, f, bw, cs, t) == Met(f, bw, t) = Times(Multiplied(cs, t..(n - 1)), Summed(f[n - 1], Labels))

LEMMA MeetLast ==
  ASSUME NEW n, NEW es, NEW et, Weights(n, es, et),
         NEW cs, \A t \in 0..(n - 1) : cs[t] \in Rationals,
         NEW allowed, NEW f, Reaches(f, n, es, et, allowed)
  PROVE  Meet(n, f, Backward(n, es, et, cs), cs, n - 1)
  <1> DEFINE bw == Backward(n, es, et, cs)
             g == [i \in Labels |-> Times(f[n - 1][i], bw[n - 1][i])]
  <1>1. n \in Nat \ {0} /\ n - 1 \in 0..(n - 1) /\ n - 1 \in Int
    BY DEF Weights
  <1>2. PICK c \in Rationals : c = cs[n - 1]
    BY <1>1
  <1>3. PICK h : h = f[n - 1] /\ \A i \in Labels : h[i] \in Rationals
    BY <1>1 DEF Reaches
  <1>4. ASSUME NEW i \in Labels PROVE g[i] = Times(c, h[i])
    <2>1. bw[n - 1][i] = c
      BY <1>2, BackwardIs
    <2>2. Times(h[i], c) = Times(c, h[i])
      BY <1>2, <1>3, TimesLaws
    <2> HIDE DEF bw
    <2> QED BY <1>3, <2>1, <2>2
  <1>5. Summed(g, Labels) = Times(c, Summed(h, Labels))
    <2> HIDE DEF g
    <2> QED BY <1>2, <1>3, <1>4, LabelsFinite, SummedScale
  <1>6. Multiplied(cs, (n - 1)..(n - 1)) = c
    <2>1. \A t \in (n - 1)..(n - 1) : cs[t] \in Rationals
      BY <1>1
    <2>2. n - 1 <= n - 1
      BY <1>1
    <2>3. Multiplied(cs, (n - 1)..(n - 1)) = Times(cs[n - 1], Multiplied(cs, ((n - 1) + 1)..(n - 1)))
      BY <1>1, <2>1, <2>2, MultipliedInterval
    <2>4. Multiplied(cs, ((n - 1) + 1)..(n - 1)) = Whole(1)
      <3>1. n - 1 < (n - 1) + 1 /\ (n - 1) + 1 \in Int
        BY <1>1
      <3>2. \A t \in ((n - 1) + 1)..(n - 1) : cs[t] \in Rationals
        BY <1>1
      <3> QED BY <1>1, <3>1, <3>2, MultipliedInterval
    <2>5. Times(c, Whole(1)) = Times(Whole(1), c) /\ Times(Whole(1), c) = c
      BY <1>2, WholeIn, TimesLaws
    <2> QED BY <1>2, <2>3, <2>4, <2>5
  <1> QED BY <1>3, <1>5, <1>6 DEF Meet, Met

LEMMA MeetEarlier ==
  ASSUME NEW n, NEW es, NEW et, Weights(n, es, et),
         NEW cs, \A t \in 0..(n - 1) : cs[t] \in Rationals,
         NEW allowed, NEW f, Reaches(f, n, es, et, allowed),
         NEW t \in 0..(n - 2), allowed[t + 1] = Labels,
         Meet(n, f, Backward(n, es, et, cs), cs, t + 1)
  PROVE  Meet(n, f, Backward(n, es, et, cs), cs, t)
  <1>0. PICK bw : bw = Backward(n, es, et, cs)
    OBVIOUS
  <1>1. /\ n \in Nat \ {0} /\ n - 1 \in 0..(n - 1) /\ n - 1 \in Int /\ t \in Int
        /\ t \in 0..(n - 1) /\ t + 1 \in 0..(n - 1) /\ t + 1 \in 1..(n - 1) /\ (t + 1) - 1 = t
        /\ t <= n - 1 /\ t + 1 \in Int
    BY DEF Weights
  <1>2. PICK c \in Rationals : c = cs[t]
    BY <1>1
  <1>3. PICK x : x = f[t] /\ \A i \in Labels : x[i] \in Rationals
    BY <1>1 DEF Reaches
  <1>4. PICK y : y = f[t + 1] /\ \A i \in Labels : y[i] \in Rationals
    BY <1>1 DEF Reaches
  <1>5. PICK e : e = es[t + 1] /\ \A i \in Labels : e[i] \in Rationals
    BY <1>1, PositiveIn DEF Weights
  <1>6. PICK b : b = bw[t + 1] /\ \A i \in Labels : b[i] \in Rationals
    BY <1>0, <1>1, BackwardIs
  <1>7. \A i, j \in Labels : et[i][j] \in Rationals
    BY PositiveIn DEF Weights
  <1> DEFINE be == [j \in Labels |-> Times(b[j], e[j])]
             out(i) == [j \in Labels |-> Times(et[i][j], Times(b[j], e[j]))]
             in(j) == [i \in Labels |-> Times(f[t][i], et[i][j])]
             d == [i \in Labels |-> [j \in Labels |-> Times(x[i], Times(et[i][j], be[j]))]]
  <1>8. ASSUME NEW j \in Labels PROVE be[j] = Times(b[j], e[j]) /\ be[j] \in Rationals
    <2>1. Times(b[j], e[j]) \in Rationals
      BY <1>5, <1>6, TimesLaws
    <2> QED BY <2>1
  <1> HIDE DEF be
  <1>9. ASSUME NEW i \in Labels, NEW j \in Labels
        PROVE  /\ out(i)[j] = Times(et[i][j], be[j]) /\ out(i)[j] \in Rationals
               /\ in(j)[i] = Times(x[i], et[i][j]) /\ in(j)[i] \in Rationals
               /\ d[i][j] = Times(x[i], out(i)[j]) /\ d[i][j] \in Rationals
               /\ d[i][j] = Times(be[j], in(j)[i])
    <2>1. PICK u \in Rationals, v \in Rationals, w \in Rationals : u = x[i] /\ v = et[i][j] /\ w = be[j]
      BY <1>3, <1>7, <1>8
    <2>2. Times(v, w) \in Rationals /\ Times(u, v) \in Rationals
      BY <2>1, TimesLaws
    <2>3. Times(u, Times(v, w)) \in Rationals
      BY <2>1, <2>2, TimesLaws
    <2>4. Times(u, Times(v, w)) = Times(Times(u, v), w)
      BY TimesLaws
    <2>5. Times(Times(u, v), w) = Times(w, Times(u, v))
      BY <2>1, <2>2, TimesLaws
    <2>6. out(i)[j] = Times(v, w)
      BY <1>8, <2>1
    <2>7. in(j)[i] = Times(u, v)
      BY <1>3, <2>1
    <2>8. d[i][j] = Times(u, Times(v, w))
      BY <2>1
    <2> HIDE DEF out, in, d
    <2> QED BY <2>1, <2>2, <2>3, <2>4, <2>5, <2>6, <2>7, <2>8
  <1>10. ASSUME NEW i \in Labels
         PROVE  /\ Rowwise(d, Labels, Labels)[i] = Times(x[i], Summed(out(i), Labels))
                /\ Summed(out(i), Labels) \in Rationals
    <2> DEFINE di == [j \in Labels |-> d[i][j]]
    <2>1. \A j \in Labels : di[j] = d[i][j]
      <3> HIDE DEF d
      <3> QED OBVIOUS
    <2>2. Rowwise(d, Labels, Labels)[i] = Summed(di, Labels)
      <3> HIDE DEF d
      <3> QED BY DEF Rowwise
    <2> HIDE DEF di, d, out, in
    <2>3. \A j \in Labels : out(i)[j] \in Rationals /\ di[j] = Times(x[i], out(i)[j])
      BY <1>9, <2>1
    <2>4. x[i] \in Rationals
      BY <1>3
    <2>5. PICK o : o = out(i)
      OBVIOUS
    <2>6. Summed(di, Labels) = Times(x[i], Summed(o, Labels))
      BY <2>3, <2>4, <2>5, LabelsFinite, SummedScale
    <2>7. Summed(o, Labels) \in Rationals
      BY <2>3, <2>5, LabelsFinite, SummedTakes
    <2> QED BY <2>2, <2>5, <2>6, <2>7
  <1>11. ASSUME NEW j \in Labels
         PROVE  /\ Columnwise(d, Labels, Labels)[j] = Times(y[j], b[j])
                /\ Times(y[j], b[j]) \in Rationals
    <2> DEFINE dj == [i \in Labels |-> d[i][j]]
    <2>1. \A i \in Labels : dj[i] = d[i][j]
      <3> HIDE DEF d
      <3> QED OBVIOUS
    <2>2. Columnwise(d, Labels, Labels)[j] = Summed(dj, Labels)
      <3> HIDE DEF d
      <3> QED BY DEF Columnwise
    <2>3. y[j] = Times(e[j], Summed(in(j), Labels))
      BY <1>1, <1>4, <1>5 DEF Reaches, Into
    <2> HIDE DEF dj, d, out, in
    <2>4. \A i \in Labels : in(j)[i] \in Rationals /\ dj[i] = Times(be[j], in(j)[i])
      BY <1>9, <2>1
    <2>5. PICK o : o = in(j)
      OBVIOUS
    <2>6. Summed(dj, Labels) = Times(be[j], Summed(o, Labels))
      BY <1>8, <2>4, <2>5, LabelsFinite, SummedScale
    <2>7. PICK z \in Rationals : z = Summed(o, Labels)
      BY <2>4, <2>5, LabelsFinite, SummedTakes
    <2>8. PICK u \in Rationals, v \in Rationals : u = b[j] /\ v = e[j]
      BY <1>5, <1>6
    <2>9. Times(Times(u, v), z) = Times(Times(v, z), u)
      <3>1. Times(Times(u, v), z) = Times(u, Times(v, z)) /\ Times(v, z) \in Rationals
        BY TimesLaws
      <3>2. Times(u, Times(v, z)) = Times(Times(v, z), u)
        BY <2>8, <3>1, TimesLaws
      <3> QED BY <3>1, <3>2
    <2>10. Times(y[j], b[j]) \in Rationals
      BY <1>4, <1>6, TimesLaws
    <2> QED BY <1>8, <2>2, <2>3, <2>5, <2>6, <2>7, <2>8, <2>9, <2>10
  <1>12. Summed(Rowwise(d, Labels, Labels), Labels) = Summed(Columnwise(d, Labels, Labels), Labels)
    <2> HIDE DEF d, in, out
    <2>1. \A i \in Labels, j \in Labels : d[i][j] \in Rationals
      BY <1>9
    <2> QED BY <2>1, LabelsFinite, SummedSwap
  <1>13. Summed(Columnwise(d, Labels, Labels), Labels) = Met(f, bw, t + 1)
    <2> DEFINE g == [j \in Labels |-> Times(f[t + 1][j], bw[t + 1][j])]
    <2>1. \A j \in Labels : Columnwise(d, Labels, Labels)[j] = g[j]
      <3> HIDE DEF d, in, out
      <3> QED BY <1>4, <1>6, <1>11
    <2> HIDE DEF d, in, out
    <2>2. Summed(Columnwise(d, Labels, Labels), Labels) = Summed(g, Labels)
      <3> HIDE DEF g
      <3> QED BY <2>1, SummedSame
    <2> QED BY <2>2 DEF Met
  <1>14. Met(f, bw, t) = Times(c, Summed(Rowwise(d, Labels, Labels), Labels))
    <2> DEFINE g == [i \in Labels |-> Times(f[t][i], bw[t][i])]
    <2>1. bw[t] = Spread(et, e, c, b)
      BY <1>0, <1>1, <1>2, <1>5, <1>6, BackwardIs
    <2>2. ASSUME NEW i \in Labels PROVE bw[t][i] = Times(c, Summed(out(i), Labels))
      BY <2>1 DEF Spread
    <2> HIDE DEF d, in, out
    <2>3. ASSUME NEW i \in Labels
          PROVE  /\ g[i] = Times(c, Rowwise(d, Labels, Labels)[i])
                 /\ Rowwise(d, Labels, Labels)[i] \in Rationals
      <3>1. PICK u \in Rationals, z \in Rationals : u = x[i] /\ z = Summed(out(i), Labels)
        BY <1>3, <1>10
      <3>2. g[i] = Times(u, Times(c, z))
        BY <1>3, <2>2, <3>1
      <3>3. Times(u, Times(c, z)) = Times(c, Times(u, z))
        <4>1. Times(u, Times(c, z)) = Times(Times(u, c), z) /\ Times(u, c) = Times(c, u)
          BY TimesLaws
        <4>2. Times(Times(c, u), z) = Times(c, Times(u, z))
          BY TimesLaws
        <4> QED BY <4>1, <4>2
      <3>4. Times(u, z) \in Rationals
        BY <3>1, TimesLaws
      <3> HIDE DEF g
      <3> QED BY <1>10, <3>1, <3>2, <3>3, <3>4
    <2>4. PICK r : r = Rowwise(d, Labels, Labels)
      OBVIOUS
    <2>5. Summed(g, Labels) = Times(c, Summed(r, Labels))
      <3> HIDE DEF g
      <3> QED BY <1>2, <2>3, <2>4, LabelsFinite, SummedScale
    <2> QED BY <2>4, <2>5 DEF Met
  <1> HIDE DEF d, in, out
  <1>15. PICK D \in Rationals, X \in Rationals :
            D = Multiplied(cs, (t + 1)..(n - 1)) /\ X = Summed(f[n - 1], Labels)
    <2>1. \A u \in (t + 1)..(n - 1) : cs[u] \in Rationals
      BY <1>1
    <2>2. Multiplied(cs, (t + 1)..(n - 1)) \in Rationals
      BY <1>1, <2>1, MultipliedInterval
    <2>3. PICK h : h = f[n - 1] /\ \A i \in Labels : h[i] \in Rationals
      BY <1>1 DEF Reaches
    <2>4. Summed(h, Labels) \in Rationals
      BY <2>3, LabelsFinite, SummedTakes
    <2> QED BY <2>2, <2>3, <2>4
  <1>16. Multiplied(cs, t..(n - 1)) = Times(c, D)
    <2>1. \A u \in t..(n - 1) : cs[u] \in Rationals
      BY <1>1
    <2>2. Multiplied(cs, t..(n - 1)) = Times(cs[t], Multiplied(cs, (t + 1)..(n - 1)))
      BY <1>1, <2>1, MultipliedInterval
    <2> QED BY <1>2, <1>15, <2>2
  <1>17. Met(f, bw, t + 1) = Times(D, X)
    BY <1>0, <1>15 DEF Meet
  <1>18. Times(c, Times(D, X)) = Times(Times(c, D), X)
    BY TimesLaws
  <1>19. Met(f, bw, t) = Times(Multiplied(cs, t..(n - 1)), X)
    BY <1>12, <1>13, <1>14, <1>16, <1>17, <1>18
  <1> QED BY <1>0, <1>15, <1>19 DEF Meet

-----------------------------------------------------------------------------
(* The paths that agree with q on items a..m *)

Pinned(n, q, a, m) == [t \in 0..(n - 1) |-> IF t \in a..m THEN {q[t]} ELSE Labels]

Pins(n, q, a, m) ==
    /\ a \in 0..(n - 1) /\ m \in a..(n - 1)
    /\ \A t \in a..m : q[t] \in Labels

\* What the step from item t to t + 1 of q contributes
StepOf(es, et, q, t) == Times(et[q[t]][q[t + 1]], es[t + 1][q[t + 1]])
StepsOf(es, et, q, a, m) == [t \in a..(m - 1) |-> StepOf(es, et, q, t)]

\* Up to item a the paths are free.
LEMMA FreeBefore ==
  ASSUME NEW n, NEW es, NEW et, Weights(n, es, et), NEW q, NEW a, NEW m, Pins(n, q, a, m),
         NEW f, Reaches(f, n, es, et, Anything(n)),
         NEW fa, Reaches(fa, n, es, et, Pinned(n, q, a, m))
  PROVE  \A t \in 0..(a - 1) : fa[t] = f[t]
  <1> DEFINE P == {t \in Nat : t <= a - 1 => fa[t] = f[t]}
  <1>1. /\ n \in Nat \ {0} /\ a \in Nat /\ a <= n - 1 /\ 0 \in 0..(n - 1)
        /\ \A t \in 0..(a - 1) : t \in 0..(n - 1) /\ t \notin a..m
    BY DEF Weights, Pins
  <1>2. ASSUME NEW t \in 0..(a - 1)
        PROVE  /\ fa[t] \in [Labels -> Rationals] /\ f[t] \in [Labels -> Rationals]
               /\ \A j \in Labels : j \in Anything(n)[t] /\ j \in Pinned(n, q, a, m)[t]
    <2>1. t \in 0..(n - 1) /\ t \notin a..m
      BY <1>1
    <2>2. fa[t] \in [Labels -> Rationals] /\ f[t] \in [Labels -> Rationals]
      BY <2>1 DEF Reaches
    <2> QED BY <2>1, <2>2 DEF Anything, Pinned
  <1>3. 0 \in P
    <2> SUFFICES ASSUME 0 <= a - 1 PROVE fa[0] = f[0]
      OBVIOUS
    <2>1. 0 \in 0..(a - 1)
      BY <1>1
    <2>2. \A j \in Labels : fa[0][j] = f[0][j]
      BY <1>2, <2>1 DEF Reaches
    <2>3. fa[0] \in [Labels -> Rationals] /\ f[0] \in [Labels -> Rationals]
      BY <1>2, <2>1
    <2> QED BY <2>2, <2>3, SameFunction
  <1>4. ASSUME NEW k \in Nat, k \in P PROVE k + 1 \in P
    <2> SUFFICES ASSUME k + 1 <= a - 1 PROVE fa[k + 1] = f[k + 1]
      OBVIOUS
    <2>1. k + 1 \in 0..(a - 1) /\ k + 1 \in 1..(n - 1) /\ (k + 1) - 1 = k /\ k <= a - 1
      BY <1>1
    <2>2. fa[k] = f[k]
      BY <1>4, <2>1
    <2>3. ASSUME NEW j \in Labels PROVE fa[k + 1][j] = f[k + 1][j]
      <3>1. Into(fa, et, k, j) = Into(f, et, k, j)
        BY <2>2 DEF Into
      <3>2. fa[k + 1][j] = Times(es[k + 1][j], Into(fa, et, k, j))
        BY <1>2, <2>1 DEF Reaches
      <3>3. f[k + 1][j] = Times(es[k + 1][j], Into(f, et, k, j))
        BY <1>2, <2>1 DEF Reaches
      <3> QED BY <3>1, <3>2, <3>3
    <2>4. fa[k + 1] \in [Labels -> Rationals] /\ f[k + 1] \in [Labels -> Rationals]
      BY <1>2, <2>1
    <2> QED BY <2>3, <2>4, SameFunction
  <1>5. Nat \subseteq P
    <2> HIDE DEF P
    <2> QED BY <1>3, <1>4, Induction
  <1> QED BY <1>1, <1>5

\* From item a to item m they go by way of q.
PinnedAt(f, fa, es, et, q, a, m, t) ==
    /\ \A j \in Labels \ {q[t]} : fa[t][j] = Whole(0)
    /\ fa[t][q[t]] = Times(f[a][q[a]], Multiplied(StepsOf(es, et, q, a, m), a..(t - 1)))

LEMMA PinnedFirst ==
  ASSUME NEW n, NEW es, NEW et, Weights(n, es, et), NEW q, NEW a, NEW m, Pins(n, q, a, m),
         NEW f, Reaches(f, n, es, et, Anything(n)),
         NEW fa, Reaches(fa, n, es, et, Pinned(n, q, a, m))
  PROVE  PinnedAt(f, fa, es, et, q, a, m, a)
  <1>1. /\ n \in Nat \ {0} /\ a \in Nat /\ a \in 0..(n - 1) /\ a \in a..m /\ q[a] \in Labels
        /\ a - 1 < a /\ a - 1 \in Int /\ a \in Int
    BY DEF Weights, Pins
  <1>2. Pinned(n, q, a, m)[a] = {q[a]} /\ Anything(n)[a] = Labels
    BY <1>1 DEF Pinned, Anything
  <1>3. ASSUME NEW j \in Labels \ {q[a]} PROVE fa[a][j] = Whole(0)
    <2>1. j \in Labels /\ j \notin Pinned(n, q, a, m)[a]
      BY <1>2
    <2>2. CASE a = 0
      BY <2>1, <2>2 DEF Reaches
    <2>3. CASE a # 0
      <3>1. a \in 1..(n - 1)
        BY <1>1, <2>3
      <3> QED BY <2>1, <3>1 DEF Reaches
    <2> QED BY <2>2, <2>3
  <1>4. fa[a][q[a]] = f[a][q[a]]
    <2>1. CASE a = 0
      BY <1>1, <1>2, <2>1 DEF Reaches
    <2>2. CASE a # 0
      <3>1. a \in 1..(n - 1) /\ a - 1 \in 0..(a - 1)
        BY <1>1, <2>2
      <3>2. fa[a - 1] = f[a - 1]
        BY <3>1, FreeBefore
      <3>3. Into(fa, et, a - 1, q[a]) = Into(f, et, a - 1, q[a])
        BY <3>2 DEF Into
      <3> QED BY <1>1, <1>2, <3>1, <3>3 DEF Reaches
    <2> QED BY <2>1, <2>2
  <1>5. Multiplied(StepsOf(es, et, q, a, m), a..(a - 1)) = Whole(1)
    <2>1. \A t \in a..(a - 1) : StepsOf(es, et, q, a, m)[t] \in Rationals
      BY <1>1
    <2> QED BY <1>1, <2>1, MultipliedInterval
  <1>6. f[a][q[a]] \in Rationals
    BY <1>1 DEF Reaches
  <1>7. Times(f[a][q[a]], Whole(1)) = f[a][q[a]]
    <2>1. PICK x \in Rationals : x = f[a][q[a]]
      BY <1>6
    <2>2. Times(x, Whole(1)) = Times(Whole(1), x) /\ Times(Whole(1), x) = x
      BY <2>1, WholeIn, TimesLaws
    <2> QED BY <2>1, <2>2
  <1> QED BY <1>3, <1>4, <1>5, <1>7 DEF PinnedAt

LEMMA StepIn ==
  ASSUME NEW n, NEW es, NEW et, Weights(n, es, et), NEW q, NEW a, NEW m, Pins(n, q, a, m),
         NEW t \in a..(m - 1)
  PROVE  /\ StepsOf(es, et, q, a, m)[t] = Times(et[q[t]][q[t + 1]], es[t + 1][q[t + 1]])
         /\ StepsOf(es, et, q, a, m)[t] \in Rationals
         /\ et[q[t]][q[t + 1]] \in Rationals /\ es[t + 1][q[t + 1]] \in Rationals
         /\ q[t] \in Labels /\ q[t + 1] \in Labels
  <1>1. t \in a..m /\ t + 1 \in a..m /\ t + 1 \in 0..(n - 1)
    BY DEF Weights, Pins
  <1>2. q[t] \in Labels /\ q[t + 1] \in Labels
    BY <1>1 DEF Pins
  <1>3. et[q[t]][q[t + 1]] \in Rationals /\ es[t + 1][q[t + 1]] \in Rationals
    BY <1>1, <1>2, PositiveIn DEF Weights
  <1>4. Times(et[q[t]][q[t + 1]], es[t + 1][q[t + 1]]) \in Rationals
    BY <1>3, TimesLaws
  <1> QED BY <1>2, <1>3, <1>4 DEF StepsOf, StepOf

LEMMA PinnedNext ==
  ASSUME NEW n, NEW es, NEW et, Weights(n, es, et), NEW q, NEW a, NEW m, Pins(n, q, a, m),
         NEW f, Reaches(f, n, es, et, Anything(n)),
         NEW fa, Reaches(fa, n, es, et, Pinned(n, q, a, m)),
         NEW t \in a..(m - 1), PinnedAt(f, fa, es, et, q, a, m, t)
  PROVE  PinnedAt(f, fa, es, et, q, a, m, t + 1)
  <1> DEFINE h == StepsOf(es, et, q, a, m)
  <1>1. /\ n \in Nat \ {0} /\ a \in Int /\ m \in Int /\ t \in Int /\ a \in 0..(n - 1)
        /\ t \in 0..(n - 1) /\ t + 1 \in 1..(n - 1) /\ t + 1 \in 0..(n - 1) /\ t + 1 \in a..m
        /\ (t + 1) - 1 = t /\ t - 1 \in Int /\ a <= t /\ a \in a..m
    BY DEF Weights, Pins
  <1>2. PICK i0 \in Labels, j \in Labels : i0 = q[t] /\ j = q[t + 1]
    BY StepIn
  <1>3. Pinned(n, q, a, m)[t + 1] = {j}
    BY <1>1, <1>2 DEF Pinned
  <1>4. ASSUME NEW k \in Labels \ {j} PROVE fa[t + 1][k] = Whole(0)
    BY <1>1, <1>3 DEF Reaches
  <1>5. fa[t + 1][j] = Times(es[t + 1][j], Into(fa, et, t, j))
    BY <1>1, <1>3 DEF Reaches
  <1>6. PICK x \in Rationals : x = fa[t][i0]
    BY <1>1 DEF Reaches
  <1>7. PICK d \in Rationals, e \in Rationals : d = et[i0][j] /\ e = es[t + 1][j]
    BY <1>2, StepIn
  <1>8. Into(fa, et, t, j) = Times(x, d)
    <2> DEFINE g == [i \in Labels |-> Times(fa[t][i], et[i][j])]
    <2>1. g[i0] = Times(x, d) /\ g[i0] \in Rationals
      <3>1. Times(x, d) \in Rationals
        BY TimesLaws
      <3> QED BY <1>6, <1>7, <3>1
    <2>2. ASSUME NEW i \in Labels \ {i0} PROVE g[i] = Whole(0)
      <3>1. fa[t][i] = Whole(0)
        BY <1>2 DEF PinnedAt
      <3>2. et[i][j] \in Rationals
        BY PositiveIn DEF Weights
      <3>3. Times(Whole(0), et[i][j]) = Whole(0)
        BY <3>2, ZeroTimes
      <3> QED BY <3>1, <3>3
    <2>3. Into(fa, et, t, j) = Summed(g, Labels)
      BY DEF Into
    <2> HIDE DEF g
    <2> QED BY <2>1, <2>2, <2>3, LabelsFinite, SummedOne
  <1>9. \A u \in a..(m - 1) : h[u] \in Rationals
    BY StepIn
  <1>10. PICK F \in Rationals, G \in Rationals :
            F = f[a][q[a]] /\ G = Multiplied(h, a..(t - 1)) /\ x = Times(F, G)
    <2>1. f[a][q[a]] \in Rationals
      <3>1. q[a] \in Labels
        BY <1>1 DEF Pins
      <3> QED BY <1>1, <3>1 DEF Reaches
    <2>2. \A u \in a..(t - 1) : h[u] \in Rationals
      BY <1>1, <1>9
    <2>3. Multiplied(h, a..(t - 1)) \in Rationals
      <3> HIDE DEF h
      <3> QED BY <1>1, <2>2, MultipliedInterval
    <2> QED BY <1>2, <1>6, <2>1, <2>3 DEF PinnedAt
  <1>11. Multiplied(h, a..t) = Times(Times(d, e), G)
    <2>1. h[t] = Times(d, e)
      BY <1>2, <1>7, StepIn
    <2>2. \A u \in a..t : h[u] \in Rationals
      BY <1>1, <1>9
    <2>3. Multiplied(h, a..t) = Times(h[t], Multiplied(h, a..(t - 1)))
      <3> HIDE DEF h
      <3> QED BY <1>1, <2>2, MultipliedInterval
    <2> QED BY <1>10, <2>1, <2>3
  <1>12. Times(e, Times(Times(F, G), d)) = Times(F, Times(Times(d, e), G))
    <2>1. PICK y \in Rationals : y = Times(d, e)
      BY TimesLaws
    <2>2. PICK z \in Rationals : z = Times(F, G)
      BY TimesLaws
    <2>3. Times(e, Times(z, d)) = Times(Times(z, d), e)
      <3>1. Times(z, d) \in Rationals
        BY TimesLaws
      <3> QED BY <3>1, TimesLaws
    <2>4. Times(Times(z, d), e) = Times(z, y)
      BY <2>1, TimesLaws
    <2>5. Times(Times(F, G), y) = Times(F, Times(G, y)) /\ Times(G, y) = Times(y, G)
      BY TimesLaws
    <2> QED BY <2>1, <2>2, <2>3, <2>4, <2>5
  <1> HIDE DEF h
  <1>13. fa[t + 1][j] = Times(F, Multiplied(h, a..((t + 1) - 1)))
    BY <1>1, <1>5, <1>7, <1>8, <1>10, <1>11, <1>12
  <1> QED BY <1>2, <1>4, <1>10, <1>13 DEF PinnedAt, h

\* Along the pinned items only q is left.
LEMMA PinnedAlong ==
  ASSUME NEW n, NEW es, NEW et, Weights(n, es, et), NEW q, NEW a, NEW m, Pins(n, q, a, m),
         NEW f, Reaches(f, n, es, et, Anything(n)),
         NEW fa, Reaches(fa, n, es, et, Pinned(n, q, a, m))
  PROVE  PinnedAt(f, fa, es, et, q, a, m, m)
  <1> DEFINE P == {t \in Int : PinnedAt(f, fa, es, et, q, a, m, t)}
  <1>1. a \in Int /\ m \in Int /\ m \in a..m
    BY DEF Weights, Pins
  <1>2. a \in P
    BY <1>1, PinnedFirst
  <1>3. ASSUME NEW k \in a..(m - 1), k \in P PROVE k + 1 \in P
    BY <1>3, PinnedNext
  <1>4. \A k \in a..m : k \in P
    <2> HIDE DEF P
    <2> QED BY <1>1, <1>2, <1>3, InductionFrom
  <1> QED BY <1>1, <1>4

\* The backward rows meet those of fa from the last pinned item on.
LEMMA MeetFrom ==
  ASSUME NEW n, NEW es, NEW et, Weights(n, es, et),
         NEW cs, \A t \in 0..(n - 1) : cs[t] \in Rationals,
         NEW q, NEW a, NEW m, Pins(n, q, a, m),
         NEW fa, Reaches(fa, n, es, et, Pinned(n, q, a, m))
  PROVE  Meet(n, fa, Backward(n, es, et, cs), cs, m)
  <1> DEFINE P == {k \in Nat : k <= (n - 1) - m => Meet(n, fa, Backward(n, es, et, cs), cs, (n - 1) - k)}
  <1>1. /\ n \in Nat \ {0} /\ m \in Int /\ m <= n - 1 /\ (n - 1) - 0 = n - 1
        /\ (n - 1) - m \in Nat /\ (n - 1) - ((n - 1) - m) = m
    BY DEF Weights, Pins
  <1>2. 0 \in P
    <2>1. Meet(n, fa, Backward(n, es, et, cs), cs, n - 1)
      BY MeetLast
    <2> QED BY <1>1, <2>1
  <1>3. ASSUME NEW k \in Nat, k \in P PROVE k + 1 \in P
    <2> SUFFICES ASSUME k + 1 <= (n - 1) - m
                 PROVE  Meet(n, fa, Backward(n, es, et, cs), cs, (n - 1) - (k + 1))
      OBVIOUS
    <2>1. PICK t \in 0..(n - 2) : t = (n - 1) - (k + 1) /\ t + 1 = (n - 1) - k /\ t + 1 > m
      <3>1. m >= 0
        BY DEF Pins
      <3> QED BY <1>1, <3>1
    <2>2. Meet(n, fa, Backward(n, es, et, cs), cs, t + 1)
      BY <1>1, <1>3, <2>1
    <2>3. Pinned(n, q, a, m)[t + 1] = Labels
      <3>1. t + 1 \in 0..(n - 1) /\ t + 1 \notin a..m
        BY <1>1, <2>1
      <3> QED BY <3>1 DEF Pinned
    <2>4. Meet(n, fa, Backward(n, es, et, cs), cs, t)
      BY <2>2, <2>3, MeetEarlier
    <2> QED BY <2>1, <2>4
  <1>4. Nat \subseteq P
    <2> HIDE DEF P
    <2> QED BY <1>2, <1>3, Induction
  <1>5. PICK k \in Nat : k = (n - 1) - m /\ k <= (n - 1) - m /\ (n - 1) - k = m
    BY <1>1
  <1>6. k \in P
    BY <1>4
  <1>7. Meet(n, fa, Backward(n, es, et, cs), cs, (n - 1) - k)
    BY <1>5, <1>6
  <1> QED BY <1>5, <1>7

LEMMA FactorsProduct ==
  ASSUME NEW es, NEW et, NEW sc, NEW path, NEW S
  PROVE  Product(S, LAMBDA t : PathFactor(es, et, sc, path, t))
            = Multiplied([t \in S |-> PathFactor(es, et, sc, path, t)], S)
  <1> DEFINE g == [t \in S |-> PathFactor(es, et, sc, path, t)]
             Body(iter) == [s \in SUBSET S |-> IF s = {} THEN Whole(1)
                               ELSE Times(PathFactor(es, et, sc, path, Some(s)), iter[s \ {Some(s)}])]
             Body2(iter) == [s \in SUBSET S |-> IF s = {} THEN Whole(1)
                               ELSE Times(g[Some(s)], iter[s \ {Some(s)}])]
  <1>1. Product(S, LAMBDA t : PathFactor(es, et, sc, path, t))
            = (CHOOSE iter : iter = Body(iter))[S]
    BY DEF Product, MapThenFoldSet, Some
  <1>2. Multiplied(g, S) = (CHOOSE iter : iter = Body2(iter))[S]
    <2> HIDE DEF g
    <2> QED BY DEF Multiplied, Product, MapThenFoldSet, Some
  <1>3. ASSUME NEW iter PROVE Body(iter) = Body2(iter)
    <2>1. \A s \in SUBSET S : s # {} => g[Some(s)] = PathFactor(es, et, sc, path, Some(s))
      BY SomeIs
    <2> HIDE DEF g
    <2> QED BY <2>1
  <1> HIDE DEF Body, Body2
  <1> QED BY <1>1, <1>2, <1>3

\* The tables after the passes, which may have more rows
Passed(n, es, et, al, be, sc, xs) ==
    LET cs == [t \in 0..(n - 1) |-> Forward(n, es, et)[t].scale]
    IN \A t \in 0..(n - 1) : /\ xs[t] = es[t] /\ sc[t] = cs[t]
                             /\ al[t] = Forward(n, es, et)[t].row
                             /\ be[t] = Backward(n, es, et, cs)[t]

\* What the passes say of the paths that are pinned to q on a..m
LEMMA PinnedMass ==
  ASSUME NEW n, NEW es, NEW et, Weights(n, es, et), NEW cs, ScalesOf(n, es, et, cs),
         NEW q, NEW a, NEW m, Pins(n, q, a, m)
  PROVE  \E F, G, M \in Rationals :
            /\ Forward(n, es, et)[a].row[q[a]] = Times(Multiplied(cs, 0..a), F)
            /\ G = Multiplied(StepsOf(es, et, q, a, m), a..(m - 1))
            /\ M = Summed(WeightOf(n, es, et), Through(n, Pinned(n, q, a, m)))
            /\ Backward(n, es, et, cs)[m][q[m]] \in Rationals
            /\ Times(Times(F, G), Backward(n, es, et, cs)[m][q[m]]) = Times(Multiplied(cs, m..(n - 1)), M)
  <1>1. /\ a \in 0..(n - 1) /\ m \in 0..(n - 1) /\ q[a] \in Labels /\ q[m] \in Labels
        /\ a \in Int /\ m \in Int
    BY DEF Weights, Pins
  <1>2. \A t \in 0..(n - 1) : cs[t] \in Rationals
    BY ScalesIn
  <1>3. PICK f : Reaches(f, n, es, et, Anything(n))
    BY ReachesExist
  <1>4. PICK fa : Reaches(fa, n, es, et, Pinned(n, q, a, m))
    BY ReachesExist
  <1>5. PICK F \in Rationals : F = f[a][q[a]]
    BY <1>1, <1>3 DEF Reaches
  <1>6. Forward(n, es, et)[a].row[q[a]] = Times(Multiplied(cs, 0..a), F)
    BY <1>1, <1>3, <1>5, AlphaReaches DEF AlphaIs
  <1>7. PICK G \in Rationals : G = Multiplied(StepsOf(es, et, q, a, m), a..(m - 1))
    <2>1. \A t \in a..(m - 1) : StepsOf(es, et, q, a, m)[t] \in Rationals
      BY StepIn
    <2>2. m - 1 \in Int
      BY <1>1
    <2> QED BY <1>1, <2>1, <2>2, MultipliedInterval
  <1>8. PICK M \in Rationals : M = Summed(WeightOf(n, es, et), Through(n, Pinned(n, q, a, m)))
    <2>1. Through(n, Pinned(n, q, a, m)) \in SUBSET Ways(n)
      BY DEF Through
    <2> QED BY <2>1, PathsFinite
  <1>9. PICK bw : bw = Backward(n, es, et, cs)
    OBVIOUS
  <1>10. PICK b \in Rationals : b = bw[m][q[m]]
    BY <1>1, <1>2, <1>9, BackwardIs
  <1>11. PinnedAt(f, fa, es, et, q, a, m, m)
    BY <1>3, <1>4, PinnedAlong
  <1>12. fa[m][q[m]] = Times(F, G)
    BY <1>5, <1>7, <1>11 DEF PinnedAt
  <1>13. Met(fa, bw, m) = Times(Times(F, G), b)
    <2> DEFINE g == [i \in Labels |-> Times(fa[m][i], bw[m][i])]
    <2>1. Met(fa, bw, m) = Summed(g, Labels)
      BY DEF Met
    <2>2. g[q[m]] = Times(Times(F, G), b) /\ g[q[m]] \in Rationals
      <3>1. Times(Times(F, G), b) \in Rationals
        <4>1. Times(F, G) \in Rationals
          BY TimesLaws
        <4> QED BY <4>1, TimesLaws
      <3> QED BY <1>1, <1>10, <1>12, <3>1
    <2>3. ASSUME NEW i \in Labels \ {q[m]} PROVE g[i] = Whole(0)
      <3>1. fa[m][i] = Whole(0)
        BY <1>11 DEF PinnedAt
      <3>2. bw[m][i] \in Rationals
        BY <1>1, <1>2, <1>9, BackwardIs
      <3> QED BY <3>1, <3>2, ZeroTimes
    <2> HIDE DEF g
    <2> QED BY <1>1, <2>1, <2>2, <2>3, LabelsFinite, SummedOne
  <1>14. Met(fa, bw, m) = Times(Multiplied(cs, m..(n - 1)), Summed(fa[n - 1], Labels))
    BY <1>2, <1>4, <1>9, MeetFrom DEF Meet
  <1>15. M = Summed(fa[n - 1], Labels)
    BY <1>4, <1>8, PathsSum
  <1> QED BY <1>6, <1>7, <1>8, <1>9, <1>10, <1>13, <1>14, <1>15

\* The scale factors that a marginal multiplies by are all of them, but for
\* the one of the first item which is there twice.
LEMMA ScaleProducts ==
  ASSUME NEW n \in Nat \ {0}, NEW cs, \A t \in 0..(n - 1) : cs[t] \in Rationals,
         NEW a \in 0..(n - 1), NEW m \in a..(n - 1)
  PROVE  /\ Multiplied(cs, 0..a) \in Rationals /\ Multiplied(cs, a..(m - 1)) \in Rationals
         /\ Multiplied(cs, m..(n - 1)) \in Rationals /\ Multiplied(cs, 0..(n - 1)) \in Rationals
         /\ Times(Times(Multiplied(cs, 0..a), Multiplied(cs, a..(m - 1))), Multiplied(cs, m..(n - 1)))
                = Times(cs[a], Multiplied(cs, 0..(n - 1)))
  <1>1. /\ 0 \in Int /\ a \in Int /\ m \in Int /\ n - 1 \in Int /\ m - 1 \in Int /\ a + 1 \in Int
        /\ 0 <= a + 1 /\ a <= n - 1 /\ a <= (m - 1) + 1 /\ m - 1 <= n - 1 /\ (m - 1) + 1 = m
        /\ \A t \in 0..a : cs[t] \in Rationals
        /\ \A t \in a..(n - 1) : cs[t] \in Rationals
        /\ \A t \in (a + 1)..(n - 1) : cs[t] \in Rationals
        /\ \A t \in a..(m - 1) : cs[t] \in Rationals
        /\ \A t \in m..(n - 1) : cs[t] \in Rationals
    OBVIOUS
  <1>2. PICK A \in Rationals : A = Multiplied(cs, 0..a)
    BY <1>1, MultipliedInterval
  <1>3. PICK B \in Rationals : B = Multiplied(cs, (a + 1)..(n - 1))
    BY <1>1, MultipliedInterval
  <1>4. PICK S \in Rationals : S = Multiplied(cs, a..(m - 1))
    BY <1>1, MultipliedInterval
  <1>5. PICK D \in Rationals : D = Multiplied(cs, m..(n - 1))
    BY <1>1, MultipliedInterval
  <1>6. PICK s \in Rationals : s = cs[a]
    OBVIOUS
  <1>7. Multiplied(cs, 0..(n - 1)) = Times(A, B)
    <2>1. Multiplied(cs, 0..(n - 1)) = Times(Multiplied(cs, 0..a), Multiplied(cs, (a + 1)..(n - 1)))
      BY <1>1, MultipliedSplit
    <2> QED BY <1>2, <1>3, <2>1
  <1>8. Multiplied(cs, a..(n - 1)) = Times(S, D)
    <2>1. Multiplied(cs, a..(n - 1)) = Times(Multiplied(cs, a..(m - 1)), Multiplied(cs, ((m - 1) + 1)..(n - 1)))
      BY <1>1, MultipliedSplit
    <2> QED BY <1>1, <1>4, <1>5, <2>1
  <1>9. Multiplied(cs, a..(n - 1)) = Times(s, B)
    <2>1. Multiplied(cs, a..(n - 1)) = Times(cs[a], Multiplied(cs, (a + 1)..(n - 1)))
      BY <1>1, MultipliedInterval
    <2> QED BY <1>3, <1>6, <2>1
  <1>10. Times(Times(A, S), D) = Times(A, Times(S, D))
    BY TimesLaws
  <1>11. Times(A, Times(s, B)) = Times(s, Times(A, B))
    <2>1. Times(A, Times(s, B)) = Times(Times(A, s), B) /\ Times(A, s) = Times(s, A)
      BY TimesLaws
    <2>2. Times(Times(s, A), B) = Times(s, Times(A, B))
      BY TimesLaws
    <2> QED BY <2>1, <2>2
  <1>12. Times(A, B) \in Rationals
    BY TimesLaws
  <1> QED BY <1>2, <1>4, <1>5, <1>6, <1>7, <1>8, <1>9, <1>10, <1>11, <1>12

\* The marginal of q is the weight of the paths that agree with it over that
\* of all.
LEMMA PathMarginalIs ==
  ASSUME NEW n, NEW es, NEW et, Weights(n, es, et),
         NEW al, NEW be, NEW sc, NEW xs, Passed(n, es, et, al, be, sc, xs),
         NEW q, NEW a, NEW m, Pins(n, q, a, m)
  PROVE  PathMarginal(al, be, sc, xs, et, q, a, m + 1)
            = Over(Summed(WeightOf(n, es, et), Through(n, Pinned(n, q, a, m))),
                   Summed(WeightOf(n, es, et), Ways(n)))
  <1>1. PICK cs : cs = [t \in 0..(n - 1) |-> Forward(n, es, et)[t].scale]
    OBVIOUS
  <1>2. ScalesOf(n, es, et, cs)
    BY <1>1 DEF ScalesOf
  <1>3. /\ n \in Nat \ {0} /\ a \in 0..(n - 1) /\ m \in 0..(n - 1) /\ m \in a..(n - 1)
        /\ q[a] \in Labels /\ q[m] \in Labels
        /\ a \in Int /\ m \in Int /\ (m + 1) - 1 = m /\ (m + 1) - 2 = m - 1 /\ m - 1 \in Int
        /\ \A t \in a..(m - 1) : t \in 0..(n - 1) /\ t + 1 \in 0..(n - 1)
        /\ 0 \in 0..(n - 1) /\ n - 1 \in 0..(n - 1)
    BY DEF Weights, Pins
  <1>4. \A t \in 0..(n - 1) : cs[t] \in Rationals /\ cs[t] \in Positive
    BY <1>2, ScalesIn
  <1>5. PICK F \in Rationals, G \in Rationals, M \in Rationals :
            /\ Forward(n, es, et)[a].row[q[a]] = Times(Multiplied(cs, 0..a), F)
            /\ G = Multiplied(StepsOf(es, et, q, a, m), a..(m - 1))
            /\ M = Summed(WeightOf(n, es, et), Through(n, Pinned(n, q, a, m)))
            /\ Backward(n, es, et, cs)[m][q[m]] \in Rationals
            /\ Times(Times(F, G), Backward(n, es, et, cs)[m][q[m]]) = Times(Multiplied(cs, m..(n - 1)), M)
    BY <1>2, PinnedMass
  <1>6. PICK A \in Rationals, S \in Rationals, D \in Rationals, C \in Rationals :
            /\ A = Multiplied(cs, 0..a) /\ S = Multiplied(cs, a..(m - 1))
            /\ D = Multiplied(cs, m..(n - 1)) /\ C = Multiplied(cs, 0..(n - 1))
            /\ Times(Times(A, S), D) = Times(cs[a], C)
    BY <1>3, <1>4, ScaleProducts
  <1>7. PICK s \in Rationals : s = cs[a] /\ s # Whole(0)
    BY <1>3, <1>4, PositiveIn
  <1>8. PICK b \in Rationals : b = Backward(n, es, et, cs)[m][q[m]]
    BY <1>5
  <1>9. al[a][q[a]] = Times(A, F) /\ be[m][q[m]] = b /\ sc[a] = s
    BY <1>1, <1>3, <1>5, <1>6, <1>7, <1>8 DEF Passed
  <1>10. Product(a..(m - 1), LAMBDA t : PathFactor(xs, et, sc, q, t)) = Times(G, S)
    <2> DEFINE h == StepsOf(es, et, q, a, m)
               g == [t \in a..(m - 1) |-> PathFactor(xs, et, sc, q, t)]
    <2>1. Product(a..(m - 1), LAMBDA t : PathFactor(xs, et, sc, q, t)) = Multiplied(g, a..(m - 1))
      BY FactorsProduct
    <2>2. ASSUME NEW t \in a..(m - 1)
          PROVE  h[t] \in Rationals /\ cs[t] \in Rationals /\ g[t] = Times(h[t], cs[t])
      <3>1. xs[t + 1] = es[t + 1] /\ sc[t] = cs[t]
        BY <1>1, <1>3 DEF Passed
      <3>2. g[t] = Times(Times(et[q[t]][q[t + 1]], xs[t + 1][q[t + 1]]), sc[t])
        BY DEF PathFactor
      <3>3. h[t] = Times(et[q[t]][q[t + 1]], es[t + 1][q[t + 1]]) /\ h[t] \in Rationals
        BY StepIn
      <3> HIDE DEF g, h
      <3> QED BY <1>3, <1>4, <3>1, <3>2, <3>3
    <2>3. IsFiniteSet(a..(m - 1))
      BY <1>3, FS_Interval
    <2> HIDE DEF g, h
    <2>4. PICK I : I = a..(m - 1)
      OBVIOUS
    <2>5. \A t \in I : h[t] \in Rationals /\ cs[t] \in Rationals /\ g[t] = Times(h[t], cs[t])
      BY <2>2, <2>4
    <2>6. Multiplied(g, I) = Times(Multiplied(h, I), Multiplied(cs, I))
      BY <2>3, <2>4, <2>5, MultipliedTimes
    <2> QED BY <1>5, <1>6, <2>1, <2>4, <2>6 DEF h
  <1>11. PICK z \in Rationals : z = Over(Times(Times(A, F), b), s)
                               /\ Times(s, z) = Times(Times(A, F), b)
    <2>1. Times(Times(A, F), b) \in Rationals
      <3>1. Times(A, F) \in Rationals
        BY TimesLaws
      <3> QED BY <3>1, TimesLaws
    <2> QED BY <1>7, <2>1, OverUndoes
  <1>12. PathMarginal(al, be, sc, xs, et, q, a, m + 1) = Times(z, Times(G, S))
    BY <1>3, <1>9, <1>10, <1>11 DEF PathMarginal
  <1>13. Times(s, Times(z, Times(G, S))) = Times(s, Times(C, M))
    <2>1. PICK gs \in Rationals : gs = Times(G, S) /\ gs = Times(S, G)
      BY TimesLaws
    <2>2. PICK fb \in Rationals : fb = Times(F, b)
      BY TimesLaws
    <2>3. Times(s, Times(z, gs)) = Times(Times(s, z), gs)
      BY TimesLaws
    <2>4. Times(Times(A, F), b) = Times(A, fb)
      BY <2>2, TimesLaws
    <2>5. Times(Times(A, fb), Times(S, G)) = Times(Times(A, S), Times(fb, G))
      BY TimesFour
    <2>6. Times(fb, G) = Times(Times(F, G), b)
      <3>1. Times(Times(F, b), G) = Times(F, Times(b, G)) /\ Times(b, G) = Times(G, b)
        BY TimesLaws
      <3>2. Times(F, Times(G, b)) = Times(Times(F, G), b)
        BY TimesLaws
      <3> QED BY <2>2, <3>1, <3>2
    <2>7. Times(Times(F, G), b) = Times(D, M)
      BY <1>5, <1>6, <1>8
    <2>8. Times(Times(A, S), Times(D, M)) = Times(Times(Times(A, S), D), M)
      <3>1. Times(A, S) \in Rationals
        BY TimesLaws
      <3> QED BY <3>1, TimesLaws
    <2>9. Times(Times(s, C), M) = Times(s, Times(C, M))
      BY TimesLaws
    <2> QED BY <1>6, <1>7, <1>11, <2>1, <2>3, <2>4, <2>5, <2>6, <2>7, <2>8, <2>9
  <1>14. Times(z, Times(G, S)) = Times(C, M)
    <2>1. PICK x \in Rationals, y \in Rationals : x = Times(z, Times(G, S)) /\ y = Times(C, M)
      <3>1. Times(G, S) \in Rationals
        BY TimesLaws
      <3> QED BY <3>1, TimesLaws
    <2>2. Times(s, x) = Times(x, s) /\ Times(s, y) = Times(y, s)
      BY TimesLaws
    <2>3. Over(Times(x, s), s) = x /\ Over(Times(y, s), s) = y
      BY <1>7, OverUndoes
    <2> QED BY <1>13, <2>1, <2>2, <2>3
  <1>15. PICK X \in Rationals : X = Summed(WeightOf(n, es, et), Ways(n)) /\ Times(C, X) = Whole(1)
    BY <1>2, <1>6, NormIs
  <1>16. X # Whole(0)
    <2>1. Times(C, Whole(0)) = Whole(0)
      BY TimesLaws
    <2>2. Whole(0) # Whole(1)
      BY DEF Whole
    <2> QED BY <1>15, <2>1, <2>2
  <1>17. Over(M, X) = Times(C, M)
    <2>1. PICK y \in Rationals : y = Times(C, M) /\ y = Times(M, C)
      BY TimesLaws
    <2>2. Times(Times(M, C), X) = Times(M, Times(C, X))
      BY TimesLaws
    <2>3. Times(M, Whole(1)) = Times(Whole(1), M) /\ Times(Whole(1), M) = M
      BY WholeIn, TimesLaws
    <2>4. Over(Times(y, X), X) = y
      BY <1>16, OverUndoes
    <2> QED BY <1>15, <2>1, <2>2, <2>3, <2>4
  <1> QED BY <1>5, <1>12, <1>14, <1>15, <1>17

\* The recursive function exists, and gives numbers.
LEMMA PowStep ==
  /\ Pow[0] = 1
  /\ \A n \in Nat : Pow[n] \in Nat \ {0} /\ Pow[n + 1] = 2 * Pow[n]
  <1> DEFINE twos == [i \in Nat |-> Whole(2)]
             count(n) == Multiplied(twos, 1..n)
             powers == [n \in Nat |-> count(n)[1]]
             U == {n \in Nat : \E v \in Nat : count(n) = Whole(v) /\ count(n + 1) = Whole(2 * v)}
  <1>1. ASSUME NEW n \in Nat
        PROVE  /\ count(n) \in Rationals
               /\ n = 0 => count(n) = Whole(1)
               /\ count(n + 1) = Times(Whole(2), count(n))
    <2>1. /\ 1 \in Int /\ n \in Int /\ n + 1 \in Int /\ 1 <= n + 1 /\ (n + 1) - 1 = n
          /\ n = 0 => n < 1
      OBVIOUS
    <2>2. (\A t \in 1..n : twos[t] \in Rationals) /\ (\A t \in 1..(n + 1) : twos[t] \in Rationals)
      BY WholeIn
    <2>3. twos[n + 1] = Whole(2)
      OBVIOUS
    <2> HIDE DEF twos
    <2>4. /\ Multiplied(twos, 1..n) \in Rationals
          /\ n < 1 => Multiplied(twos, 1..n) = Whole(1)
      BY <2>1, <2>2, MultipliedInterval
    <2>5. Multiplied(twos, 1..(n + 1)) = Times(twos[n + 1], Multiplied(twos, 1..((n + 1) - 1)))
      BY <2>1, <2>2, MultipliedInterval
    <2> QED BY <2>1, <2>3, <2>4, <2>5
  <1> HIDE DEF twos, count
  <1>2. ASSUME NEW v \in Nat PROVE Times(Whole(2), Whole(v)) = Whole(2 * v)
    <2>1. Ratio(Whole(2), 2, 1) /\ Ratio(Whole(v), v, 1) /\ Ratio(Whole(2 * v), 2 * v, 1)
      BY WholeRatio
    <2>2. Ratio(Times(Whole(2), Whole(v)), 2 * v, 1 * 1)
      BY <2>1, TimesOf
    <2>3. (2 * v) * 1 = (2 * v) * (1 * 1)
      OBVIOUS
    <2> QED BY <2>1, <2>2, <2>3, SameRatio
  <1>3. ASSUME NEW n \in Nat, NEW v \in Nat, count(n) = Whole(v) PROVE n \in U
    BY <1>1, <1>2, <1>3
  <1>4. 0 \in U
    <2>1. count(0) = Whole(1)
      BY <1>1
    <2> QED BY <1>3, <2>1
  <1>5. ASSUME NEW n \in Nat, n \in U PROVE n + 1 \in U
    <2>1. PICK v \in Nat : count(n + 1) = Whole(2 * v)
      BY <1>5
    <2> QED BY <1>3, <2>1
  <1>6. Nat \subseteq U
    <2> HIDE DEF U
    <2> QED BY <1>4, <1>5, Induction
  <1>7. ASSUME NEW n \in Nat PROVE powers[n] \in Nat /\ powers[n + 1] = 2 * powers[n]
    <2>1. PICK v \in Nat : count(n) = Whole(v) /\ count(n + 1) = Whole(2 * v)
      BY <1>6
    <2> QED BY <2>1 DEF Whole
  <1>8. powers[0] = 1
    BY <1>1 DEF Whole
  <1> DEFINE Body(f) == [n \in Nat |-> IF n = 0 THEN 1 ELSE 2 * f[n - 1]]
  <1>9. powers = Body(powers)
    <2>1. ASSUME NEW n \in Nat PROVE powers[n] = IF n = 0 THEN 1 ELSE 2 * powers[n - 1]
      <3>1. CASE n = 0
        BY <1>8, <3>1
      <3>2. CASE n # 0
        <4>1. n - 1 \in Nat /\ (n - 1) + 1 = n
          BY <3>2
        <4> HIDE DEF powers
        <4>2. powers[(n - 1) + 1] = 2 * powers[n - 1]
          BY <1>7, <4>1
        <4> QED BY <3>2, <4>1, <4>2
      <3> QED BY <3>1, <3>2
    <2>2. powers = [n \in Nat |-> powers[n]]
      OBVIOUS
    <2> HIDE DEF powers
    <2> QED BY <2>1, <2>2
  <1>10. Pow = Body(Pow)
    <2>1. Pow = CHOOSE f : f = Body(f)
      BY DEF Pow
    <2> HIDE DEF Body, powers
    <2> QED BY <1>9, <2>1
  <1>11. Pow[0] = 1 /\ \A n \in Nat : n # 0 => Pow[n] = 2 * Pow[n - 1]
    BY <1>10
  <1> HIDE DEF Body
  <1>12. ASSUME NEW n \in Nat PROVE Pow[n + 1] = 2 * Pow[n]
    <2>1. n + 1 \in Nat /\ n + 1 # 0 /\ (n + 1) - 1 = n
      OBVIOUS
    <2> QED BY <1>11, <2>1
  <1> DEFINE V == {n \in Nat : Pow[n] \in Nat \ {0}}
  <1>13. Nat \subseteq V
    <2>1. 0 \in V
      BY <1>11
    <2>2. ASSUME NEW k \in Nat, k \in V PROVE k + 1 \in V
      BY <1>12, <2>2
    <2> HIDE DEF V
    <2> QED BY <2>1, <2>2, Induction
  <1> QED BY <1>11, <1>12, <1>13

\* What the code uses of exp: it is positive and turns sums into products.
LEMMA ExpNext ==
  /\ Exp(0) = Whole(1)
  /\ \A s \in Int : Exp(s) \in Positive
  /\ \A s \in Int : Exp(s + 1) = Times(Whole(2), Exp(s))
  <1>1. ASSUME NEW s \in Nat
        PROVE  Exp(s) = Whole(Pow[s]) /\ Exp(s) \in Positive /\ Ratio(Exp(s), Pow[s], 1)
    <2>1. Pow[s] \in Nat \ {0}
      BY PowStep
    <2>2. Exp(s) = Whole(Pow[s])
      BY DEF Exp
    <2>3. Ratio(Whole(Pow[s]), Pow[s], 1) /\ Whole(Pow[s])[1] > 0
      BY <2>1, WholeRatio DEF Whole
    <2> QED BY <2>2, <2>3 DEF Positive, Ratio
  <1>2. ASSUME NEW s \in Nat
        PROVE  /\ s # 0 => Exp(-s) = <<1, Pow[s]>>
               /\ Exp(-s) \in Positive /\ Ratio(Exp(-s), 1, Pow[s])
    <2>1. Pow[s] \in Nat \ {0}
      BY PowStep
    <2>2. CASE s = 0
      <3>0. PICK y \in Int : y = -s /\ y + s = 0
        OBVIOUS
      <3>1. y + s = 0
        BY <3>0
      <3>1a. y = 0
        BY <2>2, <3>1
      <3>2. Exp(-s) = Exp(0)
        BY <3>0, <3>1a
      <3>2a. Pow[s] = 1 /\ Pow[0] = 1
        BY <2>2, PowStep
      <3>3. Exp(0) \in Positive /\ Ratio(Exp(0), Pow[0], 1)
        BY <1>1
      <3> QED BY <2>2, <3>2, <3>2a, <3>3
    <2>3. CASE s # 0
      <3>1. ~(-s >= 0) /\ -(-s) = s
        BY <2>3
      <3>2. Exp(-s) = <<1, Pow[s]>>
        BY <3>1 DEF Exp
      <3> QED BY <2>1, <3>2, PartOfOne
    <2> QED BY <2>2, <2>3
  <1>3. ASSUME NEW s \in Int PROVE Exp(s) \in Positive
    <2>1. s \in Nat \/ (-s \in Nat /\ -(-s) = s)
      OBVIOUS
    <2> QED BY <1>1, <1>2, <2>1
  <1>4. Ratio(Whole(2), 2, 1)
    BY WholeRatio
  <1>5. ASSUME NEW s \in Int PROVE Exp(s + 1) = Times(Whole(2), Exp(s))
    <2>1. CASE s >= 0
      <3>1. s \in Nat /\ s + 1 \in Nat
        BY <2>1
      <3>2. PICK v \in Nat \ {0} : v = Pow[s] /\ Pow[s + 1] = 2 * v
        BY <3>1, PowStep
      <3>3. Ratio(Exp(s), v, 1) /\ Ratio(Exp(s + 1), 2 * v, 1)
        BY <1>1, <3>1, <3>2
      <3>4. Ratio(Times(Whole(2), Exp(s)), 2 * v, 1 * 1)
        BY <1>4, <3>3, TimesOf
      <3>5. (2 * v) * 1 = (2 * v) * (1 * 1)
        OBVIOUS
      <3> QED BY <3>3, <3>4, <3>5, SameRatio
    <2>2. CASE s < 0
      <3>1. PICK k \in Nat : s = -(k + 1) /\ s + 1 = -k
        <4>1. -s - 1 \in Nat /\ s = -((-s - 1) + 1) /\ s + 1 = -(-s - 1)
          BY <2>2
        <4> QED BY <4>1
      <3>2. PICK v \in Nat \ {0} : v = Pow[k] /\ Pow[k + 1] = 2 * v
        BY PowStep
      <3>3. Ratio(Exp(s), 1, 2 * v) /\ Ratio(Exp(s + 1), 1, v)
        <4>1. k + 1 \in Nat
          OBVIOUS
        <4> QED BY <1>2, <3>1, <3>2, <4>1
      <3>4. Ratio(Times(Whole(2), Exp(s)), 2 * 1, 1 * (2 * v))
        BY <1>4, <3>3, TimesOf
      <3>5. (2 * 1) * v = 1 * (1 * (2 * v))
        OBVIOUS
      <3> QED BY <3>3, <3>4, <3>5, SameRatio
    <2> QED BY <2>1, <2>2
  <1>6. Exp(0) = Whole(1)
    BY <1>1, PowStep
  <1> QED BY <1>3, <1>5, <1>6

\* exp turns sums into products.
LEMMA ExpSum ==
  ASSUME NEW a \in Int, NEW b \in Int
  PROVE  Exp(a + b) = Times(Exp(a), Exp(b))
  <1> DEFINE U == {k \in Nat : \A s \in Int : Exp(s + k) = Times(Exp(s), Exp(k))}
  <1>1. \A s \in Int : Exp(s) \in Rationals
    BY ExpNext, PositiveIn
  <1>2. 0 \in U
    <2>1. ASSUME NEW s \in Int PROVE Exp(s + 0) = Times(Exp(s), Exp(0))
      <3>1. PICK x \in Rationals : x = Exp(s)
        BY <1>1
      <3>2. Times(x, Whole(1)) = Times(Whole(1), x) /\ Times(Whole(1), x) = x
        BY WholeIn, TimesLaws
      <3>3. s + 0 = s
        OBVIOUS
      <3> QED BY <3>1, <3>2, <3>3, ExpNext
    <2> QED BY <2>1
  <1>3. ASSUME NEW k \in Nat, k \in U PROVE k + 1 \in U
    <2>1. ASSUME NEW s \in Int PROVE Exp(s + (k + 1)) = Times(Exp(s), Exp(k + 1))
      <3>1. PICK x \in Rationals, y \in Rationals, w \in Rationals :
                x = Exp(s) /\ y = Exp(k) /\ w = Whole(2)
        BY <1>1, WholeIn
      <3>2. s + (k + 1) = (s + k) + 1 /\ s + k \in Int
        OBVIOUS
      <3>3. Exp(s + (k + 1)) = Times(w, Times(x, y))
        BY <1>3, <3>1, <3>2, ExpNext
      <3>4. Exp(k + 1) = Times(w, y)
        BY <3>1, ExpNext
      <3>5. Times(w, Times(x, y)) = Times(Times(w, x), y) /\ Times(w, x) = Times(x, w)
        BY TimesLaws
      <3>6. Times(Times(x, w), y) = Times(x, Times(w, y))
        BY TimesLaws
      <3> QED BY <3>1, <3>3, <3>4, <3>5, <3>6
    <2> QED BY <2>1
  <1>4. Nat \subseteq U
    <2> HIDE DEF U
    <2> QED BY <1>2, <1>3, Induction
  <1>5. ASSUME NEW s \in Int, NEW k \in Nat PROVE Exp(s + k) = Times(Exp(s), Exp(k))
    BY <1>4
  <1>6. CASE b >= 0
    BY <1>5, <1>6
  <1>7. CASE b < 0
    <2>1. PICK k \in Nat : b = -k
      <3>1. -b \in Nat /\ b = -(-b)
        BY <1>7
      <3> QED BY <3>1
    <2>2. a + b \in Int /\ (a + b) + k = a /\ -k \in Int /\ (-k) + k = 0
      BY <2>1
    <2>3. PICK x \in Rationals, y \in Rationals, z \in Rationals :
            x = Exp(a + b) /\ y = Exp(k) /\ z = Exp(b)
      BY <1>1, <2>2
    <2>4. Exp(a) = Times(x, y)
      BY <1>5, <2>2, <2>3
    <2>5. Times(z, y) = Whole(1)
      BY <1>5, <2>1, <2>2, <2>3, ExpNext
    <2>6. Times(Times(x, y), z) = Times(x, Times(y, z)) /\ Times(y, z) = Times(z, y)
      BY TimesLaws
    <2>7. Times(x, Whole(1)) = Times(Whole(1), x) /\ Times(Whole(1), x) = x
      BY WholeIn, TimesLaws
    <2> QED BY <2>3, <2>4, <2>5, <2>6, <2>7
  <1> QED BY <1>6, <1>7

\* The exponential of what a path scores is the weight of the path.
LEMMA PartWeight ==
  ASSUME NEW n, NEW st, NEW tr, Scores(n, st, tr), NEW es, NEW et,
         \A t \in 0..(n - 1) : \A l \in Labels : es[t][l] = Exp(st[t][l]),
         \A i, j \in Labels : et[i][j] = Exp(tr[i][j])
  PROVE  /\ Weights(n, es, et)
         /\ \A p \in Ways(n) : WeightOf(n, es, et)[p] = Exp(PathScore(n, st, tr, p))
  <1>1. /\ n \in Nat \ {0} /\ 0 \in 0..(n - 1) /\ n - 1 \in 0..(n - 1) /\ 0 \in Int /\ n - 1 \in Int
        /\ \A t \in 0..(n - 1) : \A l \in Labels : st[t][l] \in Int
        /\ \A i, j \in Labels : tr[i][j] \in Int
    BY DEF Scores
  <1>2. Weights(n, es, et)
    BY <1>1, ExpNext DEF Weights
  <1>3. ASSUME NEW p \in Ways(n)
        PROVE  WeightOf(n, es, et)[p] = Exp(PathScore(n, st, tr, p))
    <2> DEFINE h == Factors(n, es, et, p)
               P == {k \in 0..(n - 1) : Exp(Part(st, tr, p, n, k)) = Multiplied(h, 0..k)}
    <2>1. \A t \in 0..(n - 1) : p[t] \in Labels /\ h[t] = Factor(es, et, p, t) /\ h[t] \in Rationals
      BY <1>2, FactorIn DEF Ways
    <2> HIDE DEF h
    <2>2. 0 \in P
      <3>1. Multiplied(h, 0..0) = Times(h[0], Multiplied(h, 1..0)) /\ Multiplied(h, 1..0) = Whole(1)
        <4>1. /\ 0 <= 0 /\ 0 < 1 /\ 1 \in Int /\ 0 + 1 = 1
              /\ \A t \in 0..0 : h[t] \in Rationals
              /\ \A t \in 1..0 : h[t] \in Rationals
          BY <1>1, <2>1
        <4>2. Multiplied(h, 0..0) = Times(h[0], Multiplied(h, (0 + 1)..0))
          BY <1>1, <4>1, MultipliedInterval
        <4>3. Multiplied(h, 1..0) = Whole(1)
          BY <1>1, <4>1, MultipliedInterval
        <4> QED BY <4>1, <4>2, <4>3
      <3>2. h[0] = Exp(st[0][p[0]]) /\ h[0] \in Rationals
        BY <1>1, <2>1 DEF Factor
      <3>3. Times(h[0], Whole(1)) = Times(Whole(1), h[0]) /\ Times(Whole(1), h[0]) = h[0]
        BY <3>2, WholeIn, TimesLaws
      <3>4. Part(st, tr, p, n, 0) = st[0][p[0]]
        BY PartIs
      <3> QED BY <1>1, <3>1, <3>2, <3>3, <3>4
    <2>3. ASSUME NEW k \in 0..((n - 1) - 1), k \in P PROVE k + 1 \in P
      <3>1. /\ k \in 0..(n - 1) /\ k + 1 \in 1..(n - 1) /\ (k + 1) - 1 = k /\ k + 1 \in 0..(n - 1)
            /\ k + 1 # 0 /\ k + 1 \in Int /\ 0 <= k + 1
        BY <1>1
      <3>2. Multiplied(h, 0..(k + 1)) = Times(h[k + 1], Multiplied(h, 0..k))
        <4>1. \A t \in 0..(k + 1) : h[t] \in Rationals
          BY <1>1, <2>1, <3>1
        <4>2. Multiplied(h, 0..(k + 1)) = Times(h[k + 1], Multiplied(h, 0..((k + 1) - 1)))
          BY <1>1, <3>1, <4>1, MultipliedInterval
        <4> QED BY <3>1, <4>2
      <3>3. PICK x \in Int, y \in Int, z \in Int :
                /\ x = Part(st, tr, p, n, k) /\ y = tr[p[k]][p[k + 1]] /\ z = st[k + 1][p[k + 1]]
        BY <1>1, <2>1, <3>1, PartIs
      <3>4. Part(st, tr, p, n, k + 1) = x + (y + z)
        <4>1. Part(st, tr, p, n, k + 1) = Part(st, tr, p, n, (k + 1) - 1)
                    + (tr[p[(k + 1) - 1]][p[k + 1]] + st[k + 1][p[k + 1]])
          BY <3>1, PartIs
        <4> QED BY <3>1, <3>3, <4>1
      <3>5. h[k + 1] = Times(Exp(y), Exp(z))
        <4>1. h[k + 1] = Times(et[p[(k + 1) - 1]][p[k + 1]], es[k + 1][p[k + 1]])
          BY <2>1, <3>1 DEF Factor
        <4>2. et[p[k]][p[k + 1]] = Exp(y) /\ es[k + 1][p[k + 1]] = Exp(z)
          BY <2>1, <3>1, <3>3
        <4> QED BY <3>1, <4>1, <4>2
      <3>6. h[k + 1] = Exp(y + z) /\ y + z \in Int
        BY <3>5, ExpSum
      <3>7. Exp(x + (y + z)) = Times(Exp(x), Exp(y + z))
        BY <3>6, ExpSum
      <3>8. Exp(x) \in Rationals /\ Exp(y + z) \in Rationals
        BY <3>6, ExpNext, PositiveIn
      <3>9. Times(Exp(x), Exp(y + z)) = Times(Exp(y + z), Exp(x))
        BY <3>8, TimesLaws
      <3>10. Exp(x) = Multiplied(h, 0..k)
        BY <2>3, <3>3
      <3>11. Exp(Part(st, tr, p, n, k + 1)) = Multiplied(h, 0..(k + 1))
        BY <3>2, <3>4, <3>6, <3>7, <3>9, <3>10
      <3> QED BY <3>1, <3>11
    <2> HIDE DEF P
    <2>4. n - 1 \in P
      <3>1. \A k \in 0..(n - 1) : k \in P
        BY <1>1, <2>2, <2>3, InductionFrom
      <3> QED BY <1>1, <3>1
    <2>5. WeightOf(n, es, et)[p] = Multiplied(h, 0..(n - 1))
      BY DEF WeightOf, Weight, h
    <2> QED BY <2>4, <2>5, PathScoreIs DEF P
  <1> QED BY <1>2, <1>3

-----------------------------------------------------------------------------
(* The masses of paths that the features of a model m define for s *)

\* The exponentials of the scores
ExpTransOf(m) == [i \in Labels |-> [j \in Labels |-> Exp(TransScores(m)[i][j])]]
ExpStateOf(m, s) == [t \in 0..(Len(s) - 1) |-> [l \in Labels |-> Exp(RowOf(m, s, t)[l])]]

\* Mass for m and s, and the weights of the ways through s
MassOf(m, s, S) == SumBy(S, LAMBDA p : Exp(WorthOf(m, s, p)))
PathWeights(m, s) == WeightOf(Len(s), ExpStateOf(m, s), ExpTransOf(m))

\* The weight of a path is the exponential of what its features are worth.
LEMMA ModelWeights ==
  ASSUME NEW m \in Models, NEW s \in Instances
  PROVE  /\ Weights(Len(s), ExpStateOf(m, s), ExpTransOf(m))
         /\ \A p \in Ways(Len(s)) : PathWeights(m, s)[p] = Exp(WorthOf(m, s, p))
  <1> DEFINE n == Len(s)
             st == [t \in 0..(n - 1) |-> RowOf(m, s, t)]
             tr == TransScores(m)
  <1>1. /\ Scores(n, st, tr)
        /\ \A p \in Ways(n) : WorthOf(m, s, p) = PathScore(n, st, tr, p)
    <2>1. \A t \in 0..(Len(s) - 1) : st[t] = RowOf(m, s, t)
      OBVIOUS
    <2> HIDE DEF st
    <2> QED BY <2>1, WorthIsScore
  <1>2. \A t \in 0..(n - 1) : \A l \in Labels : ExpStateOf(m, s)[t][l] = Exp(st[t][l])
    BY DEF ExpStateOf
  <1>3. \A i, j \in Labels : ExpTransOf(m)[i][j] = Exp(tr[i][j])
    BY DEF ExpTransOf
  <1> HIDE DEF n, st, tr
  <1>4. /\ Weights(n, ExpStateOf(m, s), ExpTransOf(m))
        /\ \A p \in Ways(n) : WeightOf(n, ExpStateOf(m, s), ExpTransOf(m))[p]
                                = Exp(PathScore(n, st, tr, p))
    BY <1>1, <1>2, <1>3, PartWeight
  <1>5. \A p \in Ways(n) : WeightOf(n, ExpStateOf(m, s), ExpTransOf(m))[p] = Exp(WorthOf(m, s, p))
    BY <1>1, <1>4
  <1> QED BY <1>4, <1>5 DEF PathWeights, n

\* The mass of paths, which is defined by features, is a sum of weights.
LEMMA MassIs ==
  ASSUME NEW m \in Models, NEW s \in Instances, NEW S \in SUBSET Ways(Len(s))
  PROVE  MassOf(m, s, S) = Summed(PathWeights(m, s), S)
  <1> DEFINE g == PathWeights(m, s)
             Body(iter) == [R \in SUBSET S |-> IF R = {} THEN Whole(0)
                               ELSE Plus(Exp(WorthOf(m, s, Some(R))), iter[R \ {Some(R)}])]
             Body2(iter) == [R \in SUBSET S |-> IF R = {} THEN Whole(0)
                                ELSE Plus(g[Some(R)], iter[R \ {Some(R)}])]
  <1>1. MassOf(m, s, S) = (CHOOSE iter : iter = Body(iter))[S]
    BY DEF MassOf, SumBy, MapThenFoldSet, Some
  <1>2. Summed(g, S) = (CHOOSE iter : iter = Body2(iter))[S]
    <2> HIDE DEF g
    <2> QED BY DEF Summed, SumBy, MapThenFoldSet, Some
  <1>3. ASSUME NEW iter PROVE Body(iter) = Body2(iter)
    <2>1. \A p \in S : g[p] = Exp(WorthOf(m, s, p))
      BY ModelWeights
    <2> HIDE DEF g
    <2>2. \A R \in SUBSET S : R # {} => g[Some(R)] = Exp(WorthOf(m, s, Some(R)))
      BY <2>1, SomeIs
    <2> QED BY <2>2
  <1> HIDE DEF Body, Body2
  <1> QED BY <1>1, <1>2, <1>3

\* Probability for m and s
ChanceOf(m, s, S) == Over(MassOf(m, s, S), MassOf(m, s, Ways(Len(s))))

\* The paths that agree with q where q is defined
Agreeing(n, q) == {p \in Ways(n) : \A t \in DOMAIN q : p[t] = q[t]}

\* To agree with q is to be pinned to it.
LEMMA AgreeingIs ==
  ASSUME NEW n \in Nat \ {0}, NEW a \in 0..(n - 1), NEW k \in a..(n - 1), NEW q, DOMAIN q = a..k
  PROVE  Agreeing(n, q) = Through(n, Pinned(n, q, a, k))
  <1>1. a..k \subseteq 0..(n - 1)
    OBVIOUS
  <1>2. ASSUME NEW p \in Ways(n)
        PROVE  (\A t \in DOMAIN q : p[t] = q[t])
                    <=> (\A t \in 0..(n - 1) : p[t] \in Pinned(n, q, a, k)[t])
    <2>1. \A t \in 0..(n - 1) : p[t] \in Labels
      BY DEF Ways
    <2>2. \A t \in 0..(n - 1) : Pinned(n, q, a, k)[t] = IF t \in a..k THEN {q[t]} ELSE Labels
      BY DEF Pinned
    <2> DEFINE D == a..k
               N == 0..(n - 1)
    <2>3. D \subseteq N /\ DOMAIN q = D
      BY <1>1
    <2> HIDE DEF D
    <2>4. \A t \in N : Pinned(n, q, a, k)[t] = IF t \in D THEN {q[t]} ELSE Labels
      BY <2>2 DEF D
    <2>5. \A t \in N : p[t] \in Labels
      BY <2>1
    <2> HIDE DEF N
    <2>6. (\A t \in DOMAIN q : p[t] = q[t]) <=> (\A t \in N : p[t] \in Pinned(n, q, a, k)[t])
      BY <2>3, <2>4, <2>5
    <2> QED BY <2>6 DEF N
  <1> QED BY <1>2 DEF Agreeing, Through

\* The marginal of a path of the items a..k is the chance of the paths of the
\* sequence that agree with it.
LEMMA MarginalIs ==
  ASSUME NEW m \in Models, NEW s \in Instances,
         NEW al, NEW be, NEW sc, NEW xs,
         Passed(Len(s), ExpStateOf(m, s), ExpTransOf(m), al, be, sc, xs),
         NEW a \in 0..(Len(s) - 1), NEW k \in a..(Len(s) - 1), NEW q \in [a..k -> Labels]
  PROVE  PathMarginal(al, be, sc, xs, ExpTransOf(m), q, a, k + 1)
            = ChanceOf(m, s, Agreeing(Len(s), q))
  <1> DEFINE n == Len(s)
             es == ExpStateOf(m, s)
             et == ExpTransOf(m)
  <1>1. Weights(n, es, et)
    BY ModelWeights
  <1>2. n \in Nat \ {0}
    BY <1>1 DEF Weights
  <1>3. Pins(n, q, a, k)
    BY DEF Pins
  <1>4. PathMarginal(al, be, sc, xs, et, q, a, k + 1)
            = Over(Summed(WeightOf(n, es, et), Through(n, Pinned(n, q, a, k))),
                   Summed(WeightOf(n, es, et), Ways(n)))
    <2> HIDE DEF n, es, et
    <2>1. Passed(n, es, et, al, be, sc, xs)
      BY DEF n, es, et
    <2> QED BY <1>1, <1>3, <2>1, PathMarginalIs
  <1>5. Through(n, Pinned(n, q, a, k)) = Agreeing(n, q)
    <2>1. DOMAIN q = a..k
      OBVIOUS
    <2> HIDE DEF n
    <2>2. a \in 0..(n - 1) /\ k \in a..(n - 1)
      BY DEF n
    <2> QED BY <1>2, <2>1, <2>2, AgreeingIs
  <1>6. Agreeing(n, q) \in SUBSET Ways(n) /\ Ways(n) \in SUBSET Ways(n)
    BY DEF Agreeing
  <1>7. /\ MassOf(m, s, Agreeing(n, q)) = Summed(WeightOf(n, es, et), Agreeing(n, q))
        /\ MassOf(m, s, Ways(n)) = Summed(WeightOf(n, es, et), Ways(n))
    BY <1>6, MassIs DEF PathWeights
  <1> QED BY <1>4, <1>5, <1>7 DEF ChanceOf

PointPaths(n, l, t) == {p \in Ways(n) : p[t] = l}

\* The marginal of a label is that of the path of one item.
LEMMA PointIs ==
  ASSUME NEW m \in Models, NEW s \in Instances,
         NEW al, NEW be, NEW sc, NEW xs,
         Passed(Len(s), ExpStateOf(m, s), ExpTransOf(m), al, be, sc, xs),
         NEW t \in 0..(Len(s) - 1), NEW l \in Labels
  PROVE  PointMarginal(al, be, sc, l, t) = ChanceOf(m, s, PointPaths(Len(s), l, t))
  <1> DEFINE n == Len(s)
             es == ExpStateOf(m, s)
             et == ExpTransOf(m)
             cs == [u \in 0..(n - 1) |-> Forward(n, es, et)[u].scale]
             q == [u \in t..t |-> l]
  <1>1. Weights(n, es, et)
    BY ModelWeights
  <1> HIDE DEF n, es, et
  <1>2. /\ n \in Nat \ {0} /\ t \in Int /\ t \in 0..(n - 1) /\ t \in t..(n - 1)
        /\ (t + 1) - 1 = t /\ (t + 1) - 2 = t - 1
        /\ t..(t - 1) = {} /\ t..t = {t}
    BY <1>1 DEF Weights, n
  <1>3. ScalesOf(n, es, et, cs)
    BY DEF ScalesOf
  <1>4. /\ sc[t] = cs[t] /\ al[t] = Forward(n, es, et)[t].row
        /\ be[t] = Backward(n, es, et, cs)[t]
    BY <1>2 DEF Passed, n, es, et
  <1> HIDE DEF cs
  <1>5. \A u \in 0..(n - 1) : cs[u] \in Positive /\ cs[u] \in Rationals
    BY <1>1, <1>3, ScalesIn
  <1>6. Backward(n, es, et, cs)[t] \in [Labels -> Rationals]
    BY <1>1, <1>2, <1>5, BackwardIs
  <1>7. Forward(n, es, et)[t].row \in [Labels -> Positive]
    BY <1>1, <1>2, ForwardIs
  <1>8. al[t][l] \in Rationals /\ be[t][l] \in Rationals /\ sc[t] \in Rationals /\ sc[t] # Whole(0)
    BY <1>2, <1>4, <1>5, <1>6, <1>7, PositiveIn
  <1>9. PointMarginal(al, be, sc, l, t) \in Rationals
    <2>1. Times(al[t][l], be[t][l]) \in Rationals
      BY <1>8, TimesLaws
    <2> QED BY <1>8, <2>1, OverUndoes DEF PointMarginal
  <1>10. q[t] = l /\ DOMAIN q = t..t /\ q \in [t..t -> Labels]
    BY <1>2
  <1> HIDE DEF q
  <1>11. PathMarginal(al, be, sc, xs, et, q, t, t + 1) = PointMarginal(al, be, sc, l, t)
    <2>1. Product(t..(t - 1), LAMBDA u : PathFactor(xs, et, sc, q, u)) = Whole(1)
      <3>1. PICK I : I = t..(t - 1)
        OBVIOUS
      <3> DEFINE g == [u \in I |-> PathFactor(xs, et, sc, q, u)]
      <3>2. Product(I, LAMBDA u : PathFactor(xs, et, sc, q, u)) = Multiplied(g, I)
        BY FactorsProduct
      <3> HIDE DEF g
      <3>3. I = {} /\ IsFiniteSet(I) /\ \A u \in I : g[u] \in Rationals
        BY <1>2, <3>1, FS_EmptySet
      <3>4. Multiplied(g, I) = Whole(1)
        BY <3>3, MultipliedTakes
      <3> QED BY <3>1, <3>2, <3>4
    <2>2. PathMarginal(al, be, sc, xs, et, q, t, t + 1)
            = Times(PointMarginal(al, be, sc, l, t), Whole(1))
      BY <1>2, <1>10, <2>1 DEF PathMarginal, PointMarginal
    <2>3. PICK x \in Rationals : x = PointMarginal(al, be, sc, l, t)
      BY <1>9
    <2>4. Times(x, Whole(1)) = Times(Whole(1), x) /\ Times(Whole(1), x) = x
      BY WholeIn, TimesLaws
    <2> QED BY <2>2, <2>3, <2>4
  <1>12. Agreeing(n, q) = PointPaths(n, l, t)
    BY <1>2, <1>10 DEF Agreeing, PointPaths
  <1>13. PathMarginal(al, be, sc, xs, ExpTransOf(m), q, t, t + 1) = ChanceOf(m, s, Agreeing(Len(s), q))
    <2>1. PICK k : k = t
      OBVIOUS
    <2>2. k \in t..(Len(s) - 1) /\ t \in 0..(Len(s) - 1)
      BY <1>2, <2>1 DEF n
    <2>3. q \in [t..k -> Labels]
      BY <1>10, <2>1
    <2>4. PathMarginal(al, be, sc, xs, ExpTransOf(m), q, t, k + 1) = ChanceOf(m, s, Agreeing(Len(s), q))
      BY <2>2, <2>3, MarginalIs
    <2> QED BY <2>1, <2>4
  <1> QED BY <1>11, <1>12, <1>13 DEF n, et

-----------------------------------------------------------------------------
(* The tables of a sequence by itself, from the model alone *)

ForwardOf(m, s) == Forward(Len(s), ExpStateOf(m, s), ExpTransOf(m))
ScaleOf(m, s) == [t \in 0..(Len(s) - 1) |-> ForwardOf(m, s)[t].scale]
BackwardOf(m, s) == Backward(Len(s), ExpStateOf(m, s), ExpTransOf(m), ScaleOf(m, s))

Positions == 0..(T - 1)

Sizes ==
    /\ model \in Models /\ inst \in Instances \cup {<< >>}
    /\ T \in Nat /\ T = Len(inst)
    /\ \E cap \in Nat : DOMAIN state = 0..(cap - 1) /\ T <= cap
    /\ DOMAIN expState = DOMAIN state /\ DOMAIN alpha = DOMAIN state
    /\ DOMAIN beta = DOMAIN state /\ DOMAIN scale = DOMAIN state
    /\ DOMAIN back = DOMAIN state

Levels ==
    /\ level \in {"none", "set", "alphabeta"}
    /\ overwritten \in BOOLEAN
    /\ overwritten => level = "alphabeta"

\* The scores belong to the model and the sequence.
ScoresFresh ==
    /\ trans = TransScores(model) /\ expTrans = ExpTransOf(model)
    /\ \A t \in Positions : state[t] = RowOf(model, inst, t)

\* So does what the forward and the backward pass left, as level says, but
\* for the rows of alpha that Viterbi has used since.
PassesFresh ==
    level = "alphabeta" =>
        /\ \A t \in Positions :
            /\ expState[t] = ExpStateOf(model, inst)[t]
            /\ scale[t] = ScaleOf(model, inst)[t]
            /\ beta[t] = BackwardOf(model, inst)[t]
            /\ ~overwritten => alpha[t] = ForwardOf(model, inst)[t].row
        /\ norm = Norm(T, ScaleOf(model, inst))

\* The inductive invariant: what the answers are computed from
TablesInv == Sizes /\ Levels /\ ScoresFresh /\ PassesFresh

-----------------------------------------------------------------------------

LEMMA OverwriteIs ==
  ASSUME NEW table, NEW rows
  PROVE  /\ DOMAIN Overwrite(table, rows) = DOMAIN table
         /\ \A t \in DOMAIN table : t \in DOMAIN rows => Overwrite(table, rows)[t] = rows[t]
  BY DEF Overwrite

LEMMA GrownIs ==
  ASSUME NEW table, NEW cap \in Nat, NEW n \in Nat, NEW zero, DOMAIN table = 0..(cap - 1)
  PROVE  DOMAIN Grown(table, cap, n, zero) = 0..((IF n <= cap THEN cap ELSE n) - 1)
  BY DEF Grown

LEMMA SequenceSet ==
  ASSUME TablesInv, T > 0
  PROVE  inst \in Instances /\ T \in Nat \ {0}
  BY DEF TablesInv, Sizes

\* Setting a sequence leaves no score of the one before.
LEMMA SetKeeps ==
  ASSUME TablesInv, NEW s \in Instances, Set(s)
  PROVE  TablesInv'
  <1> DEFINE n == Len(s)
             zeros == [l \in Labels |-> 0]
             fractions == [l \in Labels |-> Whole(0)]
  <1>1. n \in Nat
    BY InstancesAssumption DEF InstancesAssumption
  <1>2. PICK cap \in Nat : DOMAIN state = 0..(cap - 1) /\ T <= cap
    BY DEF TablesInv, Sizes
  <1>3. Cardinality(DOMAIN state) = cap
    <2>1. Cardinality(0..(cap - 1)) = cap
      BY FS_Interval
    <2> QED BY <1>2, <2>1
  <1> DEFINE cleared == Grown(state, cap, n, zeros)
             scores == [t \in 0..(n - 1) |->
                    LET row == ResetRow(cleared[t])
                        item == ItemScores(model, s[t + 1])
                    IN [l \in Labels |-> row[l] + item[l]]]
             most == IF n <= cap THEN cap ELSE n
  <1>4. /\ inst' = s /\ T' = n
        /\ state' = Overwrite(cleared, scores)
        /\ expState' = Grown(expState, cap, n, fractions)
        /\ alpha' = Grown(alpha, cap, n, fractions)
        /\ beta' = Grown(beta, cap, n, fractions)
        /\ scale' = Grown(scale, cap, n, Whole(0))
        /\ back' = Grown(back, cap, n, zeros)
        /\ level' = "set" /\ overwritten' = FALSE
        /\ model' = model /\ trans' = trans /\ expTrans' = expTrans
    BY <1>3 DEF Set, LevelAfterSet
  <1>5. /\ DOMAIN expState = 0..(cap - 1) /\ DOMAIN alpha = 0..(cap - 1)
        /\ DOMAIN beta = 0..(cap - 1) /\ DOMAIN scale = 0..(cap - 1)
        /\ DOMAIN back = 0..(cap - 1)
    BY <1>2 DEF TablesInv, Sizes
  <1>6. DOMAIN cleared = 0..(most - 1)
    <2> HIDE DEF n, zeros
    <2> QED BY <1>1, <1>2, GrownIs
  <1>7. most \in Nat /\ n <= most
    BY <1>1
  <1>8. /\ DOMAIN expState' = 0..(most - 1) /\ DOMAIN alpha' = 0..(most - 1)
        /\ DOMAIN beta' = 0..(most - 1) /\ DOMAIN scale' = 0..(most - 1)
        /\ DOMAIN back' = 0..(most - 1)
    <2> HIDE DEF n, zeros, fractions, cleared, scores
    <2> QED BY <1>1, <1>4, <1>5, GrownIs
  <1>9. DOMAIN scores = 0..(n - 1)
    OBVIOUS
  <1>10. ASSUME NEW t \in 0..(n - 1) PROVE scores[t] = RowOf(model, s, t)
    BY DEF RowOf, ResetRow
  <1> HIDE DEF cleared, scores, most, n
  <1>11. DOMAIN state' = 0..(most - 1)
    BY <1>4, <1>6, OverwriteIs
  <1>12. ASSUME NEW t \in 0..(n - 1) PROVE state'[t] = RowOf(model, s, t)
    <2>1. t \in DOMAIN cleared /\ t \in DOMAIN scores
      BY <1>1, <1>6, <1>7, <1>9
    <2>2. state'[t] = scores[t]
      BY <1>4, <2>1, OverwriteIs
    <2> QED BY <1>10, <2>2
  <1>13. Sizes'
    BY <1>1, <1>4, <1>7, <1>8, <1>11 DEF TablesInv, Sizes, n
  <1>14. Levels'
    BY <1>4 DEF Levels
  <1>15. ScoresFresh'
    BY <1>4, <1>12 DEF TablesInv, ScoresFresh, Positions
  <1>16. PassesFresh'
    BY <1>4 DEF PassesFresh
  <1> QED BY <1>13, <1>14, <1>15, <1>16 DEF TablesInv

\* Viterbi takes the rows of alpha, and says so.
LEMMA ViterbiKeeps ==
  ASSUME TablesInv, Viterbi
  PROVE  TablesInv'
  <1>1. /\ model' = model /\ trans' = trans /\ expTrans' = expTrans /\ inst' = inst
        /\ T' = T /\ state' = state /\ expState' = expState /\ beta' = beta
        /\ scale' = scale /\ norm' = norm /\ level' = level
        /\ overwritten' = (level = "alphabeta")
    BY DEF Viterbi
  <1>2. DOMAIN alpha' = DOMAIN alpha /\ DOMAIN back' = DOMAIN back
    <2>1. /\ \E rows : alpha' = Overwrite(alpha, rows)
          /\ \E rows : back' = Overwrite(back, rows)
      BY DEF Viterbi
    <2> QED BY <2>1, OverwriteIs
  <1>3. Sizes'
    BY <1>1, <1>2 DEF TablesInv, Sizes
  <1>4. Levels'
    BY <1>1 DEF TablesInv, Levels
  <1>5. ScoresFresh'
    BY <1>1 DEF TablesInv, ScoresFresh, Positions
  <1>6. PassesFresh'
    BY <1>1 DEF TablesInv, PassesFresh, Positions
  <1> QED BY <1>3, <1>4, <1>5, <1>6 DEF TablesInv

\* What is asked of the passes finds them computed for the sequence.
LEMMA SetLevelKeeps ==
  ASSUME TablesInv, SetLevel
  PROVE  TablesInv' /\ level' = "alphabeta"
  <1>1. /\ model' = model /\ trans' = trans /\ expTrans' = expTrans /\ inst' = inst
        /\ T' = T /\ level' = "alphabeta"
    BY DEF SetLevel
  <1>2. CASE level = "alphabeta"
    <2>1. /\ state' = state /\ expState' = expState /\ alpha' = alpha /\ beta' = beta
          /\ scale' = scale /\ back' = back /\ norm' = norm /\ overwritten' = overwritten
      BY <1>2 DEF SetLevel, tables
    <2>2. Sizes'
      BY <1>1, <2>1 DEF TablesInv, Sizes
    <2>3. Levels'
      BY <1>1, <1>2, <2>1 DEF TablesInv, Levels
    <2>4. ScoresFresh'
      BY <1>1, <2>1 DEF TablesInv, ScoresFresh, Positions
    <2>5. PassesFresh'
      BY <1>1, <1>2, <2>1 DEF TablesInv, PassesFresh, Positions
    <2> QED BY <1>1, <2>2, <2>3, <2>4, <2>5 DEF TablesInv
  <1>3. CASE level # "alphabeta"
    <2> DEFINE es == [t \in 0..(T - 1) |-> [l \in Labels |-> Exp(state[t][l])]]
               fwd == Forward(T, es, expTrans)
               cs == [t \in 0..(T - 1) |-> fwd[t].scale]
               b == Backward(T, es, expTrans, cs)
    <2>1. /\ expState' = Overwrite(expState, es)
          /\ alpha' = Overwrite(alpha, [t \in 0..(T - 1) |-> fwd[t].row])
          /\ scale' = Overwrite(scale, cs)
          /\ norm' = Norm(T, cs)
          /\ beta' = Overwrite(beta, [t \in 0..(T - 1) |-> b[t]])
          /\ overwritten' = FALSE
          /\ state' = state /\ back' = back
      BY <1>3 DEF SetLevel
    <2>2. T = Len(inst) /\ expTrans = ExpTransOf(model)
      BY DEF TablesInv, Sizes, ScoresFresh
    <2>3. es = ExpStateOf(model, inst)
      BY <2>2 DEF TablesInv, ScoresFresh, Positions, ExpStateOf
    <2> HIDE DEF es
    <2>4. fwd = ForwardOf(model, inst)
      BY <2>2, <2>3 DEF ForwardOf
    <2> HIDE DEF fwd
    <2>5. cs = ScaleOf(model, inst)
      BY <2>2, <2>4 DEF ScaleOf
    <2>6. DOMAIN cs = Positions /\ DOMAIN es = Positions
      BY DEF Positions, es
    <2> HIDE DEF cs
    <2>7. b = BackwardOf(model, inst)
      BY <2>2, <2>3, <2>5 DEF BackwardOf
    <2> HIDE DEF b
    <2> DEFINE rowsOf == [t \in 0..(T - 1) |-> fwd[t].row]
               backOf == [t \in 0..(T - 1) |-> b[t]]
    <2>8. /\ DOMAIN rowsOf = Positions /\ DOMAIN backOf = Positions
          /\ \A t \in Positions : rowsOf[t] = fwd[t].row /\ backOf[t] = b[t]
      BY DEF Positions
    <2>9. alpha' = Overwrite(alpha, rowsOf) /\ beta' = Overwrite(beta, backOf)
      BY <2>1
    <2> HIDE DEF rowsOf, backOf
    <2>10. /\ DOMAIN expState' = DOMAIN expState /\ DOMAIN alpha' = DOMAIN alpha
           /\ DOMAIN beta' = DOMAIN beta /\ DOMAIN scale' = DOMAIN scale
      BY <2>1, <2>9, OverwriteIs
    <2>11. Sizes'
      BY <1>1, <2>1, <2>10 DEF TablesInv, Sizes
    <2>12. Levels'
      BY <1>1, <2>1 DEF Levels
    <2>13. ScoresFresh'
      BY <1>1, <2>1 DEF TablesInv, ScoresFresh, Positions
    <2>14. ASSUME NEW t \in Positions
           PROVE  /\ expState'[t] = es[t] /\ scale'[t] = cs[t]
                  /\ alpha'[t] = rowsOf[t] /\ beta'[t] = backOf[t]
      <3>1. /\ t \in DOMAIN expState /\ t \in DOMAIN alpha
            /\ t \in DOMAIN beta /\ t \in DOMAIN scale
        BY DEF TablesInv, Sizes, Positions
      <3> QED BY <2>1, <2>6, <2>8, <2>9, <3>1, OverwriteIs
    <2>15. PassesFresh'
      <3>1. Positions' = Positions
        BY <1>1 DEF Positions
      <3>2. norm' = Norm(T, ScaleOf(model, inst))
        BY <2>1, <2>5
      <3>3. ASSUME NEW t \in Positions
            PROVE  /\ expState'[t] = ExpStateOf(model, inst)[t]
                   /\ scale'[t] = ScaleOf(model, inst)[t]
                   /\ beta'[t] = BackwardOf(model, inst)[t]
                   /\ alpha'[t] = ForwardOf(model, inst)[t].row
        BY <2>3, <2>4, <2>5, <2>7, <2>8, <2>14
      <3> QED BY <1>1, <3>1, <3>2, <3>3 DEF PassesFresh
    <2> QED BY <1>1, <2>11, <2>12, <2>13, <2>15 DEF TablesInv
  <1> QED BY <1>2, <1>3

LEMMA TablesStart == Init => TablesInv
  <1> SUFFICES ASSUME Init PROVE TablesInv
    OBVIOUS
  <1>1. Sizes
    <2>1. DOMAIN << >> = 0..(0 - 1) /\ Len(<< >>) = 0
      OBVIOUS
    <2>2. 0 \in Nat /\ 0 <= 0
      OBVIOUS
    <2> QED BY <2>1, <2>2 DEF Init, Sizes
  <1>2. Levels
    BY DEF Init, Levels
  <1>3. ScoresFresh
    <2>1. Positions = {}
      BY DEF Init, Positions
    <2> QED BY <2>1 DEF Init, ScoresFresh, ExpTransOf
  <1>4. PassesFresh
    BY DEF Init, PassesFresh
  <1> QED BY <1>1, <1>2, <1>3, <1>4 DEF TablesInv

LEMMA TablesStep == TablesInv /\ [Next]_vars => TablesInv'
  <1> SUFFICES ASSUME TablesInv, [Next]_vars PROVE TablesInv'
    OBVIOUS
  <1>1. ASSUME NEW s \in Instances, Set(s) PROVE TablesInv'
    BY <1>1, SetKeeps
  <1>2. ASSUME Viterbi PROVE TablesInv'
    BY <1>2, ViterbiKeeps
  <1>3. ASSUME NEW path \in Paths(0, T), Score(path) PROVE TablesInv'
    BY <1>3 DEF Score, tables, TablesInv, Sizes, Levels, ScoresFresh, PassesFresh, Positions
  <1>4. ASSUME Lognorm PROVE TablesInv'
    BY <1>4, SetLevelKeeps DEF Lognorm
  <1>5. ASSUME NEW l \in Labels, NEW t \in 0..(T - 1), MarginalPoint(l, t) PROVE TablesInv'
    BY <1>5, SetLevelKeeps DEF MarginalPoint
  <1>6. ASSUME NEW path, NEW begin, NEW end, MarginalPath(path, begin, end) PROVE TablesInv'
    BY <1>6, SetLevelKeeps DEF MarginalPath
  <1>7. CASE UNCHANGED vars
    BY <1>7 DEF vars, tables, TablesInv, Sizes, Levels, ScoresFresh, PassesFresh, Positions
  <1> QED BY <1>1, <1>2, <1>3, <1>4, <1>5, <1>6, <1>7 DEF Next

\* Whatever the client asks in whatever order, the tables have rows for every
\* item, the scores are those of the model and the sequence that is set, and
\* what the passes left is theirs as far as level and the rows that
\* tagger_viterbi() has used say so.
THEOREM TablesInvariant == Spec => []TablesInv
  BY TablesStart, TablesStep, PTL DEF Spec

\* The tables have the types and sizes that crf1dc_set_num_items() gives them.
THEOREM TypeCorrect == Spec => []TypeOK
  <1>1. TablesInv => TypeOK
    <2> SUFFICES ASSUME TablesInv PROVE TypeOK
      OBVIOUS
    <2>1. 0..(T - 1) \subseteq DOMAIN state
      BY DEF TablesInv, Sizes
    <2> QED BY <2>1 DEF TablesInv, Sizes, Levels, TypeOK
  <1> QED BY <1>1, TablesInvariant, PTL

-----------------------------------------------------------------------------
(* Answers *)

LEMMA OtherAnswers ==
  /\ \A s : Set(s) => answer'.op = "none"
  /\ Lognorm => answer'.op = "lognorm"
  /\ \A l, t : MarginalPoint(l, t) => answer'.op = "point"
  /\ \A path, begin, end : MarginalPath(path, begin, end) => answer'.op = "path"
  <1>1. ASSUME NEW s, Set(s) PROVE answer'.op = "none"
    BY <1>1 DEF Set, Nothing
  <1>2. ASSUME Lognorm PROVE answer'.op = "lognorm"
    BY <1>2 DEF Lognorm, Answer
  <1>3. ASSUME NEW l, NEW t, MarginalPoint(l, t) PROVE answer'.op = "point"
    BY <1>3 DEF MarginalPoint, Answer
  <1>4. ASSUME NEW path, NEW begin, NEW end, MarginalPath(path, begin, end)
        PROVE  answer'.op = "path"
    BY <1>4 DEF MarginalPath, Answer
  <1> QED BY <1>1, <1>2, <1>3, <1>4

LEMMA WorthIs ==
  ASSUME NEW path
  PROVE  Worth(path) = WorthOf(model, inst, path)
  BY DEF Worth, WorthOf

\* ViterbiIsBest in constants, so that a step keeps it with its variables
BestFor(m, s, n, path, value) ==
    /\ path \in Ways(Len(s)) /\ value = WorthOf(m, s, path)
    /\ \A p \in Ways(Len(s)) : WorthOf(m, s, p) <= WorthOf(m, s, path)
    /\ \A p \in Ways(Len(s)) \ {path} : WorthOf(m, s, p) = WorthOf(m, s, path) =>
            \E t \in 0..(n - 1) : /\ path[t] < p[t]
                                  /\ \A u \in (t + 1)..(n - 1) : path[u] = p[u]

BestAnswer == answer.op = "viterbi" => BestFor(model, inst, T, answer.arg, answer.value)

LEMMA BestAnswerIs == BestAnswer => ViterbiIsBest
  <1>1. AllPaths = Ways(Len(inst))
    BY DEF AllPaths, Paths, Ways
  <1>2. \A path : Worth(path) = WorthOf(model, inst, path)
    BY WorthIs
  <1> QED BY <1>1, <1>2 DEF BestAnswer, BestFor, ViterbiIsBest

LEMMA BestAnswerStep == TablesInv /\ BestAnswer /\ [Next]_vars => BestAnswer'
  <1> SUFFICES ASSUME TablesInv, BestAnswer, [Next]_vars, answer'.op = "viterbi"
               PROVE  BestFor(model', inst', T', answer'.arg, answer'.value)
    BY DEF BestAnswer
  <1>1. CASE Viterbi
    <2> DEFINE rows == ViterbiRows(T, state, trans)
               path == Trace(T, rows, BackEdges(T, rows, trans))
    <2>1. /\ answer' = [op |-> "viterbi", arg |-> path, value |-> rows[T - 1][path[T - 1]]]
          /\ model' = model /\ inst' = inst /\ T' = T /\ T > 0
      BY <1>1 DEF Viterbi, Answer
    <2>2. model \in Models /\ inst \in Instances /\ T = Len(inst) /\ trans = TransScores(model)
      BY <2>1, SequenceSet DEF TablesInv, Sizes, ScoresFresh
    <2>3. \A t \in 0..(Len(inst) - 1) : state[t] = RowOf(model, inst, t)
      BY <2>2 DEF TablesInv, ScoresFresh, Positions
    <2>4. LET n == Len(inst)
              r == ViterbiRows(n, state, TransScores(model))
              p == Trace(n, r, BackEdges(n, r, TransScores(model)))
          IN /\ p \in Ways(n)
             /\ r[n - 1][p[n - 1]] = WorthOf(model, inst, p)
             /\ \A q \in Ways(n) :
                 /\ WorthOf(model, inst, q) <= WorthOf(model, inst, p)
                 /\ q # p /\ WorthOf(model, inst, q) = WorthOf(model, inst, p) =>
                     \E t \in 0..(n - 1) : /\ p[t] < q[t]
                                           /\ \A u \in (t + 1)..(n - 1) : p[u] = q[u]
      BY <2>2, <2>3, ViterbiRight
    <2>5. /\ path \in Ways(T)
          /\ rows[T - 1][path[T - 1]] = WorthOf(model, inst, path)
          /\ \A q \in Ways(T) :
              /\ WorthOf(model, inst, q) <= WorthOf(model, inst, path)
              /\ q # path /\ WorthOf(model, inst, q) = WorthOf(model, inst, path) =>
                  \E t \in 0..(T - 1) : /\ path[t] < q[t]
                                        /\ \A u \in (t + 1)..(T - 1) : path[u] = q[u]
      BY <2>2, <2>4
    <2> HIDE DEF rows, path
    <2> QED BY <2>1, <2>2, <2>5 DEF BestFor
  <1>2. CASE UNCHANGED vars
    <2>1. model' = model /\ inst' = inst /\ T' = T /\ answer' = answer
      BY <1>2 DEF vars
    <2> QED BY <2>1 DEF BestAnswer
  <1>3. CASE Next /\ ~Viterbi
    <2>1. ASSUME NEW path, Score(path) PROVE answer'.op = "score"
      BY <2>1 DEF Score, Answer
    <2> QED BY <1>3, <2>1, OtherAnswers DEF Next
  <1> QED BY <1>1, <1>2, <1>3

\* Viterbi answers with a best path and its score, and with the same one of
\* several best, for every model and every sequence and after any calls.
THEOREM ViterbiIsBestAlways == Spec => []ViterbiIsBest
  <1>1. Init => BestAnswer
    BY DEF Init, Nothing, BestAnswer
  <1> QED BY <1>1, TablesStart, TablesStep, BestAnswerStep, BestAnswerIs, PTL DEF Spec

WorthAnswer == answer.op = "score" => answer.value = WorthOf(model, inst, answer.arg)

LEMMA WorthAnswerStep == TablesInv /\ WorthAnswer /\ [Next]_vars => WorthAnswer'
  <1> SUFFICES ASSUME TablesInv, WorthAnswer, [Next]_vars, answer'.op = "score"
               PROVE  answer'.value = WorthOf(model', inst', answer'.arg)
    BY DEF WorthAnswer
  <1>1. ASSUME NEW path \in Paths(0, T), Score(path)
        PROVE  answer'.value = WorthOf(model', inst', answer'.arg)
    <2>1. /\ answer' = [op |-> "score", arg |-> path, value |-> PathScore(T, state, trans, path)]
          /\ model' = model /\ inst' = inst /\ T > 0
      BY <1>1 DEF Score, Answer
    <2>2. model \in Models /\ inst \in Instances /\ T = Len(inst) /\ trans = TransScores(model)
      BY <2>1, SequenceSet DEF TablesInv, Sizes, ScoresFresh
    <2>3. \A t \in 0..(Len(inst) - 1) : state[t] = RowOf(model, inst, t)
      BY <2>2 DEF TablesInv, ScoresFresh, Positions
    <2>4. path \in Ways(Len(inst))
      BY <2>2 DEF Paths, Ways
    <2>5. WorthOf(model, inst, path) = PathScore(Len(inst), state, TransScores(model), path)
      BY <2>2, <2>3, <2>4, WorthIsScore
    <2> QED BY <2>1, <2>2, <2>5
  <1>2. CASE UNCHANGED vars
    <2>1. model' = model /\ inst' = inst /\ answer' = answer
      BY <1>2 DEF vars
    <2> QED BY <2>1 DEF WorthAnswer
  <1>3. CASE Next /\ ~\E path \in Paths(0, T) : Score(path)
    <2>1. Viterbi => answer'.op = "viterbi"
      BY DEF Viterbi, Answer
    <2> QED BY <1>3, <2>1, OtherAnswers DEF Next
  <1> QED BY <1>1, <1>2, <1>3

\* What the passes computed, in terms of the features
PassesHold ==
    level = "alphabeta" /\ T > 0 =>
        /\ norm = MassOf(model, inst, Ways(Len(inst)))
        /\ ~overwritten => Passed(Len(inst), ExpStateOf(model, inst), ExpTransOf(model),
                                  alpha, beta, scale, expState)

\* The tables that are fresh hold the masses of the paths.
LEMMA PassesDone == TablesInv => PassesHold
  <1> SUFFICES ASSUME TablesInv, level = "alphabeta", T > 0
               PROVE  /\ norm = MassOf(model, inst, Ways(Len(inst)))
                      /\ ~overwritten => Passed(Len(inst), ExpStateOf(model, inst), ExpTransOf(model),
                                                alpha, beta, scale, expState)
    BY DEF PassesHold
  <1>1. model \in Models /\ inst \in Instances /\ T = Len(inst)
    BY SequenceSet DEF TablesInv, Sizes
  <1> DEFINE n == Len(inst)
             es == ExpStateOf(model, inst)
             et == ExpTransOf(model)
             cs == ScaleOf(model, inst)
  <1>2. cs = [t \in 0..(n - 1) |-> Forward(n, es, et)[t].scale]
    BY DEF ScaleOf, ForwardOf
  <1>3. norm = MassOf(model, inst, Ways(n))
    <2>1. norm = Norm(n, cs)
      BY <1>1 DEF TablesInv, PassesFresh
    <2>2. Weights(n, es, et) /\ ScalesOf(n, es, et, cs)
      BY <1>1, <1>2, ModelWeights DEF ScalesOf
    <2>3. Norm(n, cs) = Summed(WeightOf(n, es, et), Ways(n))
      BY <2>2, NormIs
    <2>4. MassOf(model, inst, Ways(n)) = Summed(WeightOf(n, es, et), Ways(n))
      <3>1. Ways(n) \in SUBSET Ways(n)
        OBVIOUS
      <3> QED BY <1>1, <3>1, MassIs DEF PathWeights
    <2> QED BY <2>1, <2>3, <2>4
  <1>4. ASSUME ~overwritten PROVE Passed(n, es, et, alpha, beta, scale, expState)
    <2>1. \A t \in 0..(n - 1) : /\ expState[t] = es[t] /\ scale[t] = cs[t]
                                /\ beta[t] = Backward(n, es, et, cs)[t]
                                /\ alpha[t] = Forward(n, es, et)[t].row
      BY <1>1, <1>4 DEF TablesInv, PassesFresh, Positions, BackwardOf, ForwardOf
    <2> HIDE DEF n, es, et
    <2> QED BY <1>2, <2>1 DEF Passed
  <1> QED BY <1>3, <1>4

\* ScoresRight's and MarginalsRight's in constants
MassAnswer == answer.op = "lognorm" => answer.value = MassOf(model, inst, Ways(Len(inst)))

LEMMA MassAnswerStep == TablesInv /\ MassAnswer /\ [Next]_vars => MassAnswer'
  <1> SUFFICES ASSUME TablesInv, MassAnswer, [Next]_vars, answer'.op = "lognorm"
               PROVE  answer'.value = MassOf(model', inst', Ways(Len(inst')))
    BY DEF MassAnswer
  <1>1. CASE Lognorm
    <2>1. TablesInv' /\ level' = "alphabeta" /\ T' > 0 /\ answer'.value = norm'
      BY <1>1, SetLevelKeeps DEF Lognorm, Answer, SetLevel
    <2>2. PassesHold'
      BY <2>1, PassesDone, PTL
    <2> QED BY <2>1, <2>2 DEF PassesHold
  <1>2. CASE UNCHANGED vars
    <2>1. model' = model /\ inst' = inst /\ answer' = answer
      BY <1>2 DEF vars
    <2> QED BY <2>1 DEF MassAnswer
  <1>3. CASE Next /\ ~Lognorm
    <2>1. Viterbi => answer'.op = "viterbi"
      BY DEF Viterbi, Answer
    <2>2. ASSUME NEW path, Score(path) PROVE answer'.op = "score"
      BY <2>2 DEF Score, Answer
    <2> QED BY <1>3, <2>1, <2>2, OtherAnswers DEF Next
  <1> QED BY <1>1, <1>2, <1>3

\* score() returns the weight of the features that fire on the path and
\* lognorm() the logarithm of the sum over all paths, whatever the tables held
\* before the sequence was set and whether or not Viterbi has used them since.
THEOREM ScoresRightAlways == Spec => []ScoresRight
  <1>1. Init => WorthAnswer /\ MassAnswer
    BY DEF Init, Nothing, WorthAnswer, MassAnswer
  <1>2. WorthAnswer /\ MassAnswer => ScoresRight
    <2>1. \A path : Worth(path) = WorthOf(model, inst, path)
      BY WorthIs
    <2>2. Mass(AllPaths) = MassOf(model, inst, Ways(Len(inst)))
      <3>1. AllPaths = Ways(Len(inst))
        BY DEF AllPaths, Paths, Ways
      <3>2. ASSUME NEW S PROVE Mass(S) = MassOf(model, inst, S)
        BY DEF Mass, MassOf, Worth, WorthOf
      <3> QED BY <3>1, <3>2
    <2> QED BY <2>1, <2>2 DEF WorthAnswer, MassAnswer, ScoresRight
  <1> QED BY <1>1, <1>2, TablesStart, TablesStep, WorthAnswerStep, MassAnswerStep, PTL DEF Spec

MarginalAnswer ==
    ~overwritten =>
        /\ answer.op = "point" =>
                answer.value = ChanceOf(model, inst, PointPaths(Len(inst), answer.arg[1], answer.arg[2]))
        /\ answer.op = "path" =>
                answer.value = ChanceOf(model, inst, Agreeing(Len(inst), answer.arg))

LEMMA MarginalAnswerStep == TablesInv /\ MarginalAnswer /\ [Next]_vars => MarginalAnswer'
  <1> SUFFICES ASSUME TablesInv, MarginalAnswer, [Next]_vars, ~overwritten'
               PROVE  /\ answer'.op = "point" =>
                            answer'.value = ChanceOf(model', inst',
                                PointPaths(Len(inst'), answer'.arg[1], answer'.arg[2]))
                      /\ answer'.op = "path" =>
                            answer'.value = ChanceOf(model', inst', Agreeing(Len(inst'), answer'.arg))
    BY DEF MarginalAnswer
  <1>1. ASSUME SetLevel
        PROVE  /\ model' \in Models /\ inst' \in Instances /\ T' = Len(inst')
               /\ expTrans = ExpTransOf(model') /\ T' = T
               /\ Passed(Len(inst'), ExpStateOf(model', inst'), ExpTransOf(model'),
                         alpha', beta', scale', expState')
    <2>1. TablesInv' /\ level' = "alphabeta"
      BY <1>1, SetLevelKeeps
    <2>2. /\ T' = T /\ T > 0 /\ model' = model /\ inst' = inst /\ expTrans' = expTrans
      BY <1>1 DEF SetLevel
    <2>3. PassesHold'
      BY <2>1, PassesDone, PTL
    <2>4. model \in Models /\ inst \in Instances /\ T = Len(inst) /\ expTrans = ExpTransOf(model)
      BY <2>2, SequenceSet DEF TablesInv, Sizes, ScoresFresh
    <2> QED BY <2>1, <2>2, <2>3, <2>4 DEF PassesHold
  <1>2. ASSUME NEW l \in Labels, NEW t \in 0..(T - 1), MarginalPoint(l, t)
        PROVE  /\ answer'.op = "point"
               /\ answer'.value = ChanceOf(model', inst',
                                    PointPaths(Len(inst'), answer'.arg[1], answer'.arg[2]))
    <2>1. SetLevel /\ answer' = [op |-> "point", arg |-> <<l, t>>,
                                 value |-> PointMarginal(alpha', beta', scale', l, t)]
      BY <1>2 DEF MarginalPoint, Answer
    <2>2. PointMarginal(alpha', beta', scale', l, t)
            = ChanceOf(model', inst', PointPaths(Len(inst'), l, t))
      BY <1>1, <2>1, PointIs
    <2> QED BY <2>1, <2>2
  <1>3. ASSUME NEW begin \in 0..(T - 1), NEW end \in (begin + 1)..T, NEW path \in Paths(begin, end),
               MarginalPath(path, begin, end)
        PROVE  /\ answer'.op = "path"
               /\ answer'.value = ChanceOf(model', inst', Agreeing(Len(inst'), answer'.arg))
    <2>1. SetLevel /\ answer' = [op |-> "path", arg |-> path,
                                 value |-> PathMarginal(alpha', beta', scale', expState', expTrans,
                                                        path, begin, end)]
      BY <1>3 DEF MarginalPath, Answer
    <2>2. PICK k : k = end - 1
      OBVIOUS
    <2>3. T \in Nat
      BY DEF TablesInv, Sizes
    <2>4. /\ begin \in 0..(Len(inst') - 1) /\ k \in begin..(Len(inst') - 1) /\ end = k + 1
      BY <1>1, <2>1, <2>2, <2>3
    <2>5. path \in [begin..k -> Labels]
      BY <2>2 DEF Paths
    <2>6. PathMarginal(alpha', beta', scale', expState', expTrans, path, begin, k + 1)
            = ChanceOf(model', inst', Agreeing(Len(inst'), path))
      BY <1>1, <2>1, <2>4, <2>5, MarginalIs
    <2> QED BY <2>1, <2>4, <2>6
  <1>4. CASE UNCHANGED vars
    <2>1. model' = model /\ inst' = inst /\ answer' = answer /\ overwritten' = overwritten
      BY <1>4 DEF vars
    <2> QED BY <2>1 DEF MarginalAnswer
  <1>5. ASSUME NEW s \in Instances, Set(s) PROVE answer'.op = "none"
    BY <1>5, OtherAnswers
  <1>6. Viterbi => answer'.op = "viterbi"
    BY DEF Viterbi, Answer
  <1>7. ASSUME NEW path, Score(path) PROVE answer'.op = "score"
    BY <1>7 DEF Score, Answer
  <1>8. Lognorm => answer'.op = "lognorm"
    BY OtherAnswers
  <1> QED BY <1>2, <1>3, <1>4, <1>5, <1>6, <1>7, <1>8 DEF Next

\* A marginal probability is the share that the paths which agree with what
\* was asked for have of the mass of all, as long as Viterbi has not taken the
\* rows of alpha for itself since the pass that computed them.
THEOREM MarginalsRightAlways == Spec => []MarginalsRight
  <1>1. Init => MarginalAnswer
    BY DEF Init, Nothing, MarginalAnswer
  <1>2. MarginalAnswer => MarginalsRight
    <2>1. AllPaths = Ways(Len(inst))
      BY DEF AllPaths, Paths, Ways
    <2>2. ASSUME NEW S PROVE Probability(S) = ChanceOf(model, inst, S)
      <3>1. \A R : Mass(R) = MassOf(model, inst, R)
        BY DEF Mass, MassOf, Worth, WorthOf
      <3> QED BY <2>1, <3>1 DEF Probability, ChanceOf
    <2> QED BY <2>1, <2>2 DEF MarginalAnswer, MarginalsRight, RightMarginal, PointPaths, Agreeing
  <1> QED BY <1>1, <1>2, TablesStart, TablesStep, MarginalAnswerStep, PTL DEF Spec
=============================================================================
