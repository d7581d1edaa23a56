-------------------------------- MODULE Tagger --------------------------------
(***************************************************************************)
(* One crfsuite_tagger_t of crf1d_tag.c with its context: a client sets a  *)
(* sequence and asks, in any order, for the Viterbi labels, for the score  *)
(* of a path, the partition factor and for marginal probabilities.         *)
(*                                                                         *)
(* The context's tables are shared by the operations, are allocated for    *)
(* the longest sequence seen and keep their contents: level says whether   *)
(* alpha and beta belong to the sequence that is set.                      *)
(***************************************************************************)
EXTENDS Crf1d

CONSTANTS
    Models,     \* the models to choose from, [state, trans]
    Instances   \* the sequences a client may set, each of one item or more

\* An attribute has an id of the model's dictionary and a value.
ASSUME InstancesAssumption ==
    /\ Instances \subseteq Seq(Seq([aid : Nat, value : Int]))
    /\ \A s \in Instances : Len(s) > 0

\* The features of an attribute or a label are finitely many. They come from
\* a set in which a transition occurs once.
ASSUME ModelsAssumption ==
    \A m \in Models :
        /\ \A s \in Instances : \A t \in DOMAIN s : \A c \in DOMAIN s[t] :
                s[t][c].aid \in DOMAIN m.state
        /\ \A a \in DOMAIN m.state : /\ IsFiniteSet(m.state[a])
                                     /\ \A f \in m.state[a] : f.weight \in Int
        /\ \A i \in Labels : /\ IsFiniteSet(m.trans[i])
                             /\ \A f \in m.trans[i] : f.weight \in Int
                             /\ \A f, g \in m.trans[i] : f.dst = g.dst => f = g

VARIABLES
    model,
    inst,       \* the sequence set last, << >> before the first
    T,          \* ctx->num_items
    trans,      \* ctx->trans
    expTrans,   \* ctx->exp_trans
    state,      \* ctx->state, with ctx->cap_items rows
    expState,   \* ctx->exp_state
    alpha,      \* ctx->alpha_score: forward scores or Viterbi's
    beta,       \* ctx->beta_score
    scale,      \* ctx->scale_factor
    back,       \* ctx->backward_edge
    norm,       \* exp(ctx->log_norm)
    level,      \* crf1dt->level
    answer,     \* the last answer to a client: [op, arg, value]
    overwritten \* Viterbi has run since alpha and beta were computed

tables == <<state, expState, alpha, beta, scale, back, norm>>
vars == <<model, trans, expTrans, inst, T, tables, level, answer, overwritten>>

Nothing == [op |-> "none", arg |-> << >>, value |-> << >>]

\* crf1dt_new() on a model
Init ==
    /\ model \in Models
    /\ trans = TransScores(model)
    /\ expTrans = [i \in Labels |-> [j \in Labels |-> Exp(trans[i][j])]]
    /\ inst = << >> /\ T = 0
    /\ state = << >> /\ expState = << >> /\ alpha = << >> /\ beta = << >>
    /\ scale = << >> /\ back = << >> /\ norm = Whole(1)
    /\ level = "none" /\ answer = Nothing /\ overwritten = FALSE

-----------------------------------------------------------------------------
(* Set *)

\* Mutant of Overwrite: a table of just these rows.
JustRows(table, rows) == rows

\* The table with its first rows replaced.
Overwrite(table, rows) ==
    [t \in DOMAIN table |-> IF t \in DOMAIN rows THEN rows[t] ELSE table[t]]

\* A table for n items: the old one, or a larger one cleared by calloc().
\* (exp_state is not cleared, and not read before it is written.)
Grown(table, old, n, zero) ==
    IF n <= old THEN table ELSE [t \in 0..(n - 1) |-> zero]

\* crf1dc_reset(RF_STATE) on a row
ResetRow(row) == [l \in Labels |-> 0]

\* Mutant of LevelAfterSet: what was computed is taken to be still valid.
LevelUnchanged(old) == IF old = "none" THEN "set" ELSE old

LevelAfterSet(old) == "set"

\* tagger_set()
Set(s) ==
    LET n == Len(s)
        cap == Cardinality(DOMAIN state)
        zeros == [l \in Labels |-> 0]
        fractions == [l \in Labels |-> Whole(0)]
        cleared == Grown(state, cap, n, zeros)
        scores == [t \in 0..(n - 1) |->
                    LET row == ResetRow(cleared[t])
                        item == ItemScores(model, s[t + 1])
                    IN [l \in Labels |-> row[l] + item[l]]]
    IN /\ inst' = s /\ T' = n
       /\ state' = Overwrite(cleared, scores)
       /\ expState' = Grown(expState, cap, n, fractions)
       /\ alpha' = Grown(alpha, cap, n, fractions)
       /\ beta' = Grown(beta, cap, n, fractions)
       /\ scale' = Grown(scale, cap, n, Whole(0))
       /\ back' = Grown(back, cap, n, zeros)
       /\ norm' = Whole(1)
       /\ level' = LevelAfterSet(level)
       /\ answer' = Nothing /\ overwritten' = FALSE
       /\ UNCHANGED <<model, trans, expTrans>>

Answer(op, arg, value) == answer' = [op |-> op, arg |-> arg, value |-> value]

\* tagger_viterbi(): the rows go where the forward scores are.
Viterbi ==
    /\ T > 0
    /\ LET rows == ViterbiRows(T, state, trans)
           edges == BackEdges(T, rows, trans)
           path == Trace(T, rows, edges)
       IN /\ alpha' = Overwrite(alpha, [t \in 0..(T - 1) |->
                                            [l \in Labels |-> Whole(rows[t][l])]])
          /\ back' = Overwrite(back, edges)
          /\ Answer("viterbi", path, rows[T - 1][path[T - 1]])
    /\ overwritten' = (level = "alphabeta")
    /\ UNCHANGED <<model, trans, expTrans, inst, T, state, expState, beta, scale, norm, level>>

\* tagger_score()
Score(path) ==
    /\ T > 0
    /\ Answer("score", path, PathScore(T, state, trans, path))
    /\ UNCHANGED <<model, trans, expTrans, inst, T, tables, level, overwritten>>

\* crf1dt_set_level(LEVEL_ALPHABETA): computes what is not there yet.
SetLevel ==
    /\ T > 0
    /\ IF level = "alphabeta"
       THEN UNCHANGED <<tables, overwritten>>
       ELSE LET es == [t \in 0..(T - 1) |-> [l \in Labels |-> Exp(state[t][l])]]
                fwd == Forward(T, es, expTrans)
                cs == [t \in 0..(T - 1) |-> fwd[t].scale]
            IN /\ expState' = Overwrite(expState, es)
               /\ alpha' = Overwrite(alpha, [t \in 0..(T - 1) |-> fwd[t].row])
               /\ scale' = Overwrite(scale, cs)
               /\ norm' = Norm(T, cs)
               /\ beta' = Overwrite(beta, LET b == Backward(T, es, expTrans, cs)
                                          IN [t \in 0..(T - 1) |-> b[t]])
               /\ overwritten' = FALSE
               /\ UNCHANGED <<state, back>>
    /\ level' = "alphabeta"
    /\ UNCHANGED <<model, trans, expTrans, inst, T>>

\* tagger_lognorm()
Lognorm ==
    /\ SetLevel
    /\ Answer("lognorm", << >>, norm')

\* tagger_marginal_point()
MarginalPoint(l, t) ==
    /\ SetLevel
    /\ Answer("point", <<l, t>>, PointMarginal(alpha', beta', scale', l, t))

\* tagger_marginal_path(), path being a function on begin..end-1
MarginalPath(path, begin, end) ==
    /\ SetLevel
    /\ Answer("path", path,
              PathMarginal(alpha', beta', scale', expState', expTrans, path, begin, end))

Paths(begin, end) == [begin..(end - 1) -> Labels]

Next ==
    \/ \E s \in Instances : Set(s)
    \/ Viterbi
    \/ \E path \in Paths(0, T) : Score(path)
    \/ Lognorm
    \/ \E l \in Labels, t \in 0..(T - 1) : MarginalPoint(l, t)
    \/ \E begin \in 0..(T - 1) : \E end \in (begin + 1)..T :
            \E path \in Paths(begin, end) : MarginalPath(path, begin, end)

Spec == Init /\ [][Next]_vars

-----------------------------------------------------------------------------
(* Properties. What a path is worth is defined by the features that fire   *)
(* on it, apart from the tables.                                           *)

\* The weights of the features that fire when path is given to inst.
Worth(path) ==
    MapThenSumSet(LAMBDA t :
        MapThenSumSet(LAMBDA c :
            MapThenSumSet(LAMBDA f : f.weight * inst[t + 1][c].value,
                          {f \in model.state[inst[t + 1][c].aid] : f.dst = path[t]}),
            DOMAIN inst[t + 1])
        + (IF t = 0 THEN 0
           ELSE MapThenSumSet(LAMBDA f : f.weight,
                              {f \in model.trans[path[t - 1]] : f.dst = path[t]})),
        0..(Len(inst) - 1))

AllPaths == Paths(0, Len(inst))
Mass(S) == SumBy(S, LAMBDA p : Exp(Worth(p)))

\* The probability of the paths in S.
Probability(S) == Over(Mass(S), Mass(AllPaths))

\* The tables have as many rows as the longest sequence so far.
TypeOK ==
    /\ model \in Models /\ inst \in Instances \cup {<< >>}
    /\ T = Len(inst)
    /\ \A table \in {DOMAIN expState, DOMAIN alpha, DOMAIN beta, DOMAIN scale, DOMAIN back} :
            table = DOMAIN state
    /\ 0..(T - 1) \subseteq DOMAIN state
    /\ level \in {"none", "set", "alphabeta"}
    /\ overwritten => level = "alphabeta"

\* Whatever was asked before, and whatever an earlier sequence left in the
\* tables, viterbi() returns a path of the highest score with its score, and
\* of several such paths always the same one, that with the smallest labels
\* from the end.
ViterbiIsBest ==
    answer.op = "viterbi" =>
        LET path == answer.arg
            Before(p, q) == \E t \in 0..(T - 1) : /\ p[t] < q[t]
                                                  /\ \A u \in (t + 1)..(T - 1) : p[u] = q[u]
        IN /\ path \in AllPaths /\ answer.value = Worth(path)
           /\ \A p \in AllPaths : Worth(p) <= Worth(path)
           /\ \A p \in AllPaths \ {path} : Worth(p) = Worth(path) => Before(path, p)

\* score() is the weight of the features that fire on the path, whatever the
\* tables held before the sequence was set, and lognorm() the logarithm of the
\* sum over all paths, also when Viterbi has used the tables since.
ScoresRight ==
    /\ answer.op = "score" => answer.value = Worth(answer.arg)
    /\ answer.op = "lognorm" => answer.value = Mass(AllPaths)

\* A marginal probability is that of the paths that agree with what was
\* asked for.
RightMarginal ==
    /\ answer.op = "point" =>
            answer.value = Probability({p \in AllPaths : p[answer.arg[2]] = answer.arg[1]})
    /\ answer.op = "path" =>
            answer.value = Probability({p \in AllPaths :
                                \A t \in DOMAIN answer.arg : p[t] = answer.arg[t]})

\* Marginal probabilities are right unless Viterbi ran between the pass that
\* computed alpha and the question. (crfsuite.h makes no such exception; the
\* extension only asks for labels.)
MarginalsRight == ~overwritten => RightMarginal
=============================================================================
