-------------------------------- MODULE Crf1d --------------------------------
(***************************************************************************)
(* The algorithms of crf1d_context.c on one sequence of items: the scores  *)
(* a model gives to labels, Viterbi, scaled forward-backward.              *)
(*                                                                         *)
(* A score is an integer, and exp(s) is 2^s: what the code uses of exp is  *)
(* that it is positive and turns sums into products. What the code keeps   *)
(* in the exp domain is a fraction (Fractions), so rounding is left out.   *)
(* Tables have rows 0, 1, ...                                              *)
(***************************************************************************)
EXTENDS Fractions, Sequences

CONSTANT NumLabels  \* L

ASSUME LabelsAssumption == NumLabels \in Nat \ {0}

Labels == 0..(NumLabels - 1)

-----------------------------------------------------------------------------
(* Numbers *)

\* The powers of 2
Pow[n \in Nat] == IF n = 0 THEN 1 ELSE 2 * Pow[n - 1]

Exp(s) == IF s >= 0 THEN Whole(Pow[s]) ELSE <<1, Pow[-s]>>

-----------------------------------------------------------------------------
(* Scores. A model is [state, trans]: for each attribute the features      *)
(* [dst, weight] that refer to it, for each label those of its transitions.*)

\* The scores of the labels for one item, a sequence of [aid, value].
ItemScores(model, item) ==
    [l \in Labels |->
        MapThenSumSet(LAMBDA c :
            MapThenSumSet(LAMBDA f : f.weight * item[c].value,
                          {f \in model.state[item[c].aid] : f.dst = l}),
            DOMAIN item)]

\* The transition matrix: zero where the model has no feature.
TransScores(model) ==
    [i \in Labels |-> [j \in Labels |->
        LET edges == {f \in model.trans[i] : f.dst = j}
        IN IF edges = {} THEN 0 ELSE (CHOOSE f \in edges : TRUE).weight]]

\* crf1dc_score(): path is a function on 0..T-1.
PathScore(T, state, trans, path) ==
    state[0][path[0]]
    + MapThenSumSet(LAMBDA t : trans[path[t - 1]][path[t]] + state[t][path[t]], 1..(T - 1))

-----------------------------------------------------------------------------
(* Viterbi *)

\* The best way to come from row prev to label j.
BestInto(prev, trans, j) == Max({prev[i] + trans[i][j] : i \in Labels})

\* Mutant of BackInto: the predecessor is chosen by its own score.
BackByScore(prev, trans, j) == Min({i \in Labels : prev[i] = Max({prev[k] : k \in Labels})})

\* The backward edge of label j: the first label that is a best predecessor.
BackInto(prev, trans, j) ==
    Min({i \in Labels : prev[i] + trans[i][j] = BestInto(prev, trans, j)})

\* The rows of best scores of the prefixes that end in each label.
ViterbiRows(T, state, trans) ==
    LET row[t \in 0..(T - 1)] ==
            IF t = 0 THEN state[0]
            ELSE LET prev == row[t - 1]
                 IN [j \in Labels |-> BestInto(prev, trans, j) + state[t][j]]
    IN row

\* The backward edges into rows 1..T-1.
BackEdges(T, rows, trans) ==
    [t \in 1..(T - 1) |-> [j \in Labels |-> BackInto(rows[t - 1], trans, j)]]

\* The labels found by following the edges from the best last label.
Trace(T, rows, back) ==
    LET last == rows[T - 1]
        path[t \in 0..(T - 1)] ==
            IF t = T - 1 THEN Min({i \in Labels : \A k \in Labels : last[k] <= last[i]})
            ELSE back[t + 1][path[t + 1]]
    IN [t \in 0..(T - 1) |-> path[t]]

-----------------------------------------------------------------------------
(* Forward-backward. Each row is scaled to sum up to 1 by a factor that is *)
(* kept; es and et are the exponentials of state and transition scores.    *)

Scaled(row) ==
    LET sum == SumBy(Labels, LAMBDA l : row[l])
        c == IF sum[1] # 0 THEN Over(Whole(1), sum) ELSE Whole(1)
    IN [row |-> [l \in Labels |-> Times(row[l], c)], scale |-> c]

\* The scaled rows alpha[t], each with its factor.
Forward(T, es, et) ==
    LET step[t \in 0..(T - 1)] ==
            IF t = 0 THEN Scaled(es[0])
            ELSE LET prev == step[t - 1].row
                 IN Scaled([j \in Labels |->
                        Times(es[t][j], SumBy(Labels, LAMBDA i : Times(prev[i], et[i][j])))])
    IN step

\* The rows beta[t], scaled by the factors of the forward pass.
Backward(T, es, et, scale) ==
    LET row[t \in 0..(T - 1)] ==
            IF t = T - 1 THEN [i \in Labels |-> scale[T - 1]]
            ELSE LET next == row[t + 1]
                 IN [i \in Labels |->
                        Times(scale[t], SumBy(Labels, LAMBDA j :
                            Times(et[i][j], Times(next[j], es[t + 1][j]))))]
    IN row

\* exp(log_norm)
Norm(T, scale) == Over(Whole(1), Product(0..(T - 1), LAMBDA t : scale[t]))

PointMarginal(alpha, beta, scale, l, t) ==
    Over(Times(alpha[t][l], beta[t][l]), scale[t])

\* Mutant of PathFactor: the scale of the later of the two items.
LaterFactor(es, et, scale, path, t) ==
    Times(Times(et[path[t]][path[t + 1]], es[t + 1][path[t + 1]]), scale[t + 1])

\* What the step from item t to t + 1 contributes to a path's probability.
PathFactor(es, et, scale, path, t) ==
    Times(Times(et[path[t]][path[t + 1]], es[t + 1][path[t + 1]]), scale[t])

\* path is a function on begin..end-1.
PathMarginal(alpha, beta, scale, es, et, path, begin, end) ==
    Times(Over(Times(alpha[begin][path[begin]], beta[end - 1][path[end - 1]]), scale[begin]),
          Product(begin..(end - 2), LAMBDA t : PathFactor(es, et, scale, path, t)))
=============================================================================
