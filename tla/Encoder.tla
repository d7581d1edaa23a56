------------------------------- MODULE Encoder -------------------------------
(***************************************************************************)
(* The encoder of the training library (crf1d_encode.c) with the features  *)
(* it generates from the data (crf1d_feature.c) and its context: a client  *)
(* sets weights, then an instance, and asks for scores, labels, the        *)
(* partition factor, and for the objective with its gradients.             *)
(*                                                                         *)
(* level says how much of the tables is valid for the weights and the      *)
(* instance set last. Scores are integers, exp(s) is 2^s (Crf1d).          *)
(***************************************************************************)
EXTENDS Crf1d, SequencesExt

CONSTANTS
    Data,      \* data sets: sequences of [items, labels, weight]
    Options,   \* [all_states, all_edges, minfreq]: the feature.* options
    Vectors,   \* weights a client may set, each as long as any feature array
    Scales,    \* scales it may set them with (decay, in train_l2sgd.c)
    Gains      \* gains it may ask gradients for, fractions

ASSUME EncoderAssumption ==
    \A d \in Data : \A k \in DOMAIN d :
        Len(d[k].items) > 0 /\ Len(d[k].labels) = Len(d[k].items)

VARIABLES
    ds, features,  \* the data set, the feature array generated from it
    weights,       \* self->w and self->scale as [w, scale]; << >> before
    inst,          \* self->inst, a position in ds; 0 before
    level,         \* self->level
    ctx,           \* the tables of crf1d_context_t
    answer,        \* the last answer to the client: [op, arg, value]
    moved,         \* history: the client's weights have changed since set
    misused        \* history: Viterbi or a second pass spoilt the marginals

vars == <<ds, features, weights, inst, level, ctx, answer, moved, misused>>

NONE == 0       \* enum LEVEL_*
WEIGHT == 1
INSTANCE_ == 2
ALPHABETA == 3
MARGINAL == 4

Nothing == [op |-> "none", arg |-> << >>, value |-> << >>]

-----------------------------------------------------------------------------
(* Features (crf1df_generate()) *)

Items(x) == 1..Len(x.items)
Contents(x, t) == ToSet(x.items[t])
Attributes(d) == {c.aid : c \in UNION {UNION {Contents(x, t) : t \in Items(x)} : x \in ToSet(d)}}

Candidates(d) == [type : {"state"}, src : Attributes(d), dst : Labels]
                 \cup [type : {"trans"}, src : Labels, dst : Labels]

\* What an instance adds to the frequency of a feature.
FreqIn(x, f) ==
    x.weight * MapThenSumSet(LAMBDA t :
        IF x.labels[t] # f.dst THEN 0
        ELSE IF f.type = "trans" THEN IF t > 1 /\ x.labels[t - 1] = f.src THEN 1 ELSE 0
        ELSE MapThenSumSet(LAMBDA c : IF x.items[t][c].aid = f.src THEN x.items[t][c].value
                                      ELSE 0,
                           DOMAIN x.items[t]),
        Items(x))

\* A feature is generated where the data has it, or for all labels at once.
Generated(d, opt, f) ==
    IF f.type = "trans"
    THEN opt.all_edges \/ \E x \in ToSet(d) : \E t \in Items(x) \ {1} :
                              x.labels[t - 1] = f.src /\ x.labels[t] = f.dst
    ELSE \E x \in ToSet(d) : \E t \in Items(x) :
            /\ f.src \in {c.aid : c \in Contents(x, t)}
            /\ opt.all_states \/ x.labels[t] = f.dst

\* featureset_comp(): state features first, then by source and destination.
Before(f, g) ==
    \/ f.type = "state" /\ g.type = "trans"
    \/ f.type = g.type /\ (f.src < g.src \/ (f.src = g.src /\ f.dst < g.dst))

Frequency(d, f) == FoldLeft(LAMBDA n, x : n + FreqIn(x, f), 0, d)

FeatureArray(d, opt) ==
    LET kept == {f \in Candidates(d) : Generated(d, opt, f) /\ opt.minfreq <= Frequency(d, f)}
        kth(k) == CHOOSE f \in kept : Cardinality({g \in kept : Before(g, f)}) = k - 1
    IN [k \in 1..Cardinality(kept) |-> kth(k) @@ [freq |-> Frequency(d, kth(k))]]

\* crf1df_init_references(): the features of an attribute or from a label.
Refs(type, n) == {k \in DOMAIN features : features[k].type = type /\ features[k].src = n}

-----------------------------------------------------------------------------
(* The context. Rows of its tables are numbered from 0.                    *)

Rows(n, zero) == [t \in 0..(n - 1) |-> zero]
Zeros == [l \in Labels |-> 0]
ZeroRow == [l \in Labels |-> Whole(0)]
Matrix(row) == [l \in Labels |-> row]

\* crf1dc_new(): room for n items.
NewContext(n) ==
    [T |-> 0, trans |-> Matrix(Zeros), et |-> Matrix(ZeroRow), mtrans |-> Matrix(ZeroRow),
     state |-> Rows(n, Zeros), es |-> Rows(n, ZeroRow), mstate |-> Rows(n, ZeroRow),
     alpha |-> Rows(n, ZeroRow), beta |-> Rows(n, ZeroRow),
     scale |-> Rows(n, Whole(0)), norm |-> Whole(1)]

\* Mutant of Longest: room for the first instance.
FirstLength(d) == Len(d[1].items)

\* The longest instance of the data set.
Longest(d) == Max({Len(x.items) : x \in ToSet(d)})

\* Mutant of ClearExpectations: they are kept.
KeepExpectations(c) == [c EXCEPT !.norm = Whole(1)]

\* crf1dc_reset(): whatever is reset, so are the expectations.
ClearExpectations(c) == [c EXCEPT !.mstate = Rows(c.T, ZeroRow) @@ c.mstate,
                                  !.mtrans = Matrix(ZeroRow), !.norm = Whole(1)]

\* LEVEL_WEIGHT: the transition scores, zero where there is no feature.
WithWeights(c, w, scale) ==
    [ClearExpectations(c) EXCEPT !.trans =
        [i \in Labels |-> [j \in Labels |->
            MapThenSumSet(LAMBDA k : w[k] * scale,
                          {k \in Refs("trans", i) : features[k].dst = j})]]]

\* LEVEL_INSTANCE: the state scores of its items.
WithInstance(c, x, w, scale) ==
    LET score(t, l) ==
            MapThenSumSet(LAMBDA p :
                MapThenSumSet(LAMBDA k : w[k] * (x.items[t][p].value * scale),
                              {k \in Refs("state", x.items[t][p].aid) : features[k].dst = l}),
                DOMAIN x.items[t])
        n == Len(x.items)
        sized == ClearExpectations([c EXCEPT !.T = n])
    IN [sized EXCEPT !.state = [t \in 0..(n - 1) |-> [l \in Labels |-> score(t + 1, l)]]
                               @@ c.state]

\* LEVEL_ALPHABETA: exponentials, forward and backward scores.
WithAlphaBeta(c) ==
    LET et == [i \in Labels |-> [j \in Labels |-> Exp(c.trans[i][j])]]
        es == [t \in 0..(c.T - 1) |-> [l \in Labels |-> Exp(c.state[t][l])]]
        forward == Forward(c.T, es, et)
        scale == [t \in 0..(c.T - 1) |-> forward[t].scale]
    IN [c EXCEPT !.et = et, !.es = es @@ c.es, !.scale = scale @@ c.scale,
                 !.alpha = [t \in 0..(c.T - 1) |-> forward[t].row] @@ c.alpha,
                 !.beta = Backward(c.T, es, et, scale) @@ c.beta,
                 !.norm = Norm(c.T, scale)]

\* LEVEL_MARGINAL: the expectations of states are stored, those of
\* transitions added to what the matrix holds.
WithMarginals(c) ==
    [c EXCEPT
        !.mstate = [t \in 0..(c.T - 1) |-> [l \in Labels |->
                        PointMarginal(c.alpha, c.beta, c.scale, l, t)]] @@ c.mstate,
        !.mtrans = [i \in Labels |-> [j \in Labels |->
            Plus(c.mtrans[i][j],
                 SumBy(0..(c.T - 2), LAMBDA t :
                    Times(c.alpha[t][i],
                          Times(c.et[i][j], Times(c.beta[t + 1][j], c.es[t + 1][j])))))]]]

\* set_level(): computes what lies between the two levels.
Raised(c, from, to) ==
    LET c1 == IF ALPHABETA <= to /\ from < ALPHABETA THEN WithAlphaBeta(c) ELSE c
    IN IF MARGINAL <= to /\ from < MARGINAL THEN WithMarginals(c1) ELSE c1

-----------------------------------------------------------------------------
(* Gradients *)

\* What a feature is worth on an instance by table: by the labels of its
\* items in crf1de_observation_expectation() ...
Observed(x, k) ==
    IF features[k].type = "state"
    THEN MapThenSumSet(LAMBDA t :
            MapThenSumSet(LAMBDA p : x.items[t][p].value,
                          {p \in DOMAIN x.items[t] : k \in Refs("state", x.items[t][p].aid)}),
            {t \in Items(x) : x.labels[t] = features[k].dst})
    ELSE Cardinality({t \in Items(x) \ {1} : /\ k \in Refs("trans", x.labels[t - 1])
                                             /\ x.labels[t] = features[k].dst})

\* ... and by the expectations in crf1de_model_expectation().
Expected(c, x, k) ==
    LET f == features[k]
    IN IF f.type = "trans" THEN c.mtrans[f.src][f.dst]
       ELSE SumBy(Items(x), LAMBDA t :
                SumBy({p \in DOMAIN x.items[t] : x.items[t][p].aid = f.src}, LAMBDA p :
                    Times(Whole(x.items[t][p].value), c.mstate[t - 1][f.dst])))

\* exp() of the objective of one instance.
ObjectiveOf(c, x) ==
    LET score == PathScore(c.T, c.state, c.trans, [t \in 0..(c.T - 1) |-> x.labels[t + 1]])
    IN Product(1..x.weight, LAMBDA n : Over(c.norm, Exp(score)))

-----------------------------------------------------------------------------
(* The client's calls *)

\* encoder_initialize()
Init ==
    /\ ds \in Data
    /\ \E opt \in Options : features = FeatureArray(ds, opt)
    /\ ctx = NewContext(Longest(ds))
    /\ weights = << >> /\ inst = 0 /\ level = NONE
    /\ answer = Nothing /\ moved = FALSE /\ misused = FALSE

Answer(op, arg, value) == answer' = [op |-> op, arg |-> arg, value |-> value]

\* encoder_set_weights()
SetWeights(w, scale) ==
    /\ weights' = [w |-> w, scale |-> scale]
    /\ ctx' = WithWeights(ctx, w, scale)
    /\ level' = WEIGHT
    /\ answer' = Nothing /\ moved' = FALSE /\ misused' = FALSE
    /\ UNCHANGED <<ds, features, inst>>

\* encoder_set_instance(). l2sgd() sets the weights anew before the next
\* instance once they have moved; the state scores would be read from the
\* moved weights, the transition scores are not.
SetInstance(n) ==
    /\ level >= WEIGHT /\ ~moved
    /\ inst' = n
    /\ ctx' = WithInstance(ctx, ds[n], weights.w, weights.scale)
    /\ level' = INSTANCE_
    /\ answer' = Nothing /\ misused' = FALSE
    /\ UNCHANGED <<ds, features, weights, moved>>

\* encoder_score()
Score(path) ==
    /\ level >= INSTANCE_
    /\ Answer("score", path, PathScore(ctx.T, ctx.state, ctx.trans, path))
    /\ UNCHANGED <<ds, features, weights, inst, level, ctx, moved, misused>>

\* encoder_viterbi(): the forward scores are overwritten.
Viterbi ==
    /\ level >= INSTANCE_
    /\ LET rows == ViterbiRows(ctx.T, ctx.state, ctx.trans)
           path == Trace(ctx.T, rows, BackEdges(ctx.T, rows, ctx.trans))
       IN /\ Answer("viterbi", path, rows[ctx.T - 1][path[ctx.T - 1]])
          /\ ctx' = [ctx EXCEPT !.alpha = [t \in 0..(ctx.T - 1) |->
                                    [l \in Labels |-> Whole(rows[t][l])]] @@ ctx.alpha]
    /\ misused' = (misused \/ level = ALPHABETA)
    /\ UNCHANGED <<ds, features, weights, inst, level, moved>>

\* encoder_partition_factor(): the level falls back from LEVEL_MARGINAL. A
\* bound keeps it from doing so again and again for one instance.
PartitionFactor ==
    /\ level >= INSTANCE_
    /\ level = MARGINAL => ~misused
    /\ ctx' = Raised(ctx, level, ALPHABETA)
    /\ Answer("norm", << >>, ctx'.norm)
    /\ level' = ALPHABETA
    /\ misused' = (misused \/ level = MARGINAL)
    /\ UNCHANGED <<ds, features, weights, inst, moved>>

\* encoder_objective_and_gradients(): g is the client's array of weights, or
\* another one that l2sgd() does not have; its elements move by the answer.
ObjectiveAndGradients(gain) ==
    /\ level >= INSTANCE_
    /\ ctx' = Raised(ctx, level, MARGINAL)
    /\ LET x == ds[inst]
           step == Times(gain, Whole(x.weight))
           delta(k) == Times(step, Plus(Whole(Observed(x, k)),
                                        Times(Whole(-1), Expected(ctx', x, k))))
       IN Answer("gradients", gain,
                 [f |-> ObjectiveOf(ctx', x), g |-> [k \in DOMAIN features |-> delta(k)]])
    /\ level' = MARGINAL /\ moved' = TRUE
    /\ UNCHANGED <<ds, features, weights, inst, misused>>

\* encoder_objective_and_gradients_batch(), of which LEVEL_NONE is demanded:
\* the frequencies, negated, plus the model's expectations of each instance.
Batch(w) ==
    /\ level = NONE
    /\ LET step(r, x) ==
               LET c == WithMarginals(WithAlphaBeta(WithInstance(r.ctx, x, w, 1)))
               IN [ctx |-> c, f |-> Times(r.f, ObjectiveOf(c, x)),
                   g |-> [k \in DOMAIN features |->
                            Plus(r.g[k], Times(Whole(x.weight), Expected(c, x, k)))]]
           r == FoldLeft(step,
                         [ctx |-> WithWeights(ctx, w, 1), f |-> Whole(1),
                          g |-> [k \in DOMAIN features |-> Whole(-features[k].freq)]],
                         ds)
       IN /\ ctx' = r.ctx
          /\ Answer("batch", w, [f |-> r.f, g |-> r.g])
    /\ UNCHANGED <<ds, features, weights, inst, level, moved, misused>>

PathsOf(x) == [0..(Len(x.items) - 1) -> Labels]

Next ==
    \/ \E w \in Vectors, s \in Scales : SetWeights(w, s)
    \/ \E n \in DOMAIN ds : SetInstance(n)
    \/ \E path \in [0..(ctx.T - 1) -> Labels] : Score(path)
    \/ Viterbi
    \/ PartitionFactor
    \/ \E gain \in Gains : ObjectiveAndGradients(gain)
    \/ \E w \in Vectors : Batch(w)

Spec == Init /\ [][Next]_vars

-----------------------------------------------------------------------------
(* Properties, from the features that fire on a path and from all paths    *)

\* How often, by value, feature k fires when path is given to x.
Fires(x, k, path) ==
    LET f == features[k]
    IN MapThenSumSet(LAMBDA t :
           IF path[t] # f.dst THEN 0
           ELSE IF f.type = "trans" THEN IF t > 0 /\ path[t - 1] = f.src THEN 1 ELSE 0
           ELSE FoldLeft(LAMBDA n, c : IF c.aid = f.src THEN n + c.value ELSE n,
                         0, x.items[t + 1]),
           DOMAIN path)

Worth(x, w, path) == MapThenSumSet(LAMBDA k : w[k] * Fires(x, k, path), DOMAIN features)
Mass(x, w) == SumBy(PathsOf(x), LAMBDA p : Exp(Worth(x, w, p)))
LabelsOf(x) == [t \in 0..(Len(x.items) - 1) |-> x.labels[t + 1]]

\* The expectation of feature k over all paths.
Mean(x, w, k) ==
    Over(SumBy(PathsOf(x), LAMBDA p : Times(Whole(Fires(x, k, p)), Exp(Worth(x, w, p)))),
         Mass(x, w))

\* 1 / probability of the labels, to the power of the instance's weight
Surprise(x, w) ==
    Product(1..x.weight, LAMBDA n : Over(Mass(x, w), Exp(Worth(x, w, LabelsOf(x)))))

Gradient(x, w, k) ==
    Times(Whole(x.weight), Plus(Whole(Fires(x, k, LabelsOf(x))),
                                Times(Whole(-1), Mean(x, w, k))))

\* The types of the state; every table keeps the rows that crf1dc_new() gave
\* it for the longest instance, and no instance needs more.
TypeOK ==
    LET cap == Max({Len(ds[n].items) : n \in DOMAIN ds})
    IN /\ {DOMAIN ctx.state, DOMAIN ctx.es, DOMAIN ctx.mstate, DOMAIN ctx.alpha,
           DOMAIN ctx.beta, DOMAIN ctx.scale} = {0..(cap - 1)}
       /\ level \in NONE..MARGINAL /\ inst \in 0..Len(ds)
       /\ level >= INSTANCE_ => inst > 0 /\ ctx.T = Len(ds[inst].items)
       /\ features = << >> \/ \A k \in 2..Len(features) : Before(features[k - 1], features[k])

\* Whatever was asked of the encoder before and whatever other instances left
\* in its tables: a score is the weight of the features that fire on the path,
\* Viterbi's labels have the highest score, the partition factor is the sum
\* over all paths, the objective of an instance is its negative logarithmic
\* probability and each weight moves by gain times observed minus expected
\* value of its feature; and the batch objective and gradients are the sum of
\* those over the data. Gradients are excepted where Viterbi has overwritten
\* the forward scores they are computed from, and where the partition factor
\* was asked for after gradients, so that expectations are added up twice.
AnswersRight ==
    LET x == ds[inst]
        w == [k \in DOMAIN features |-> weights.w[k] * weights.scale]
        v == answer.value
    IN CASE answer.op = "score" -> v = Worth(x, w, answer.arg)
         [] answer.op = "viterbi" ->
                /\ v = Worth(x, w, answer.arg)
                /\ \A p \in PathsOf(x) : Worth(x, w, p) <= v
         [] answer.op = "norm" -> v = Mass(x, w)
         [] answer.op = "gradients" ->
                /\ v.f = Surprise(x, w)
                /\ ~misused => \A k \in DOMAIN features :
                        v.g[k] = Times(answer.arg, Gradient(x, w, k))
         [] answer.op = "batch" ->
                /\ v.f = Product(DOMAIN ds, LAMBDA n : Surprise(ds[n], answer.arg))
                /\ \A k \in DOMAIN features :
                        v.g[k] = Times(Whole(-1), SumBy(DOMAIN ds, LAMBDA n :
                                                    Gradient(ds[n], answer.arg, k)))
         [] OTHER -> TRUE
=============================================================================
