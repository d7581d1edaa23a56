------------------------------- MODULE Training -------------------------------
(***************************************************************************)
(* Training by stochastic gradient descent (train_l2sgd.c): the options as *)
(* the driver sets them and the algorithm reads them, the shuffled data    *)
(* set, the calibration of the learning rate, the epochs, and which        *)
(* weights are saved.                                                      *)
(*                                                                         *)
(* One feature stands for all: each is updated by the same factors. Its    *)
(* gradient for an instance is any of Gradients or not finite (an exp()    *)
(* that overflows makes loss and gradients NaN), the objective of an epoch *)
(* any of Losses. Numbers are exact fractions (Fractions).                 *)
(***************************************************************************)
EXTENDS Fractions, SequencesExt

CONSTANTS N,          \* number of training instances
          Configs,    \* what the tool may be called with: [c2, max_iterations, epsilon]
          Defaults,   \* the declared options: name |-> [type, val]
          Losses,     \* finite objectives of an epoch or trial
          Gradients,  \* finite gradients of an instance
          NotFinite,  \* NaN or an infinity
          Null

ASSUME TrainingAssumption ==
    /\ N \in Nat \ {0}
    /\ Losses \subseteq Nat \ {0} /\ Gradients \subseteq Int
    /\ NotFinite \notin Losses \cup Gradients

\* The options l2sgd() reads are declared with the types it asks for, a period
\* has at least one epoch, and the tool asks for a number of iterations.
ASSUME OptionsAssumption ==
    /\ \A name \in DOMAIN Defaults :
            Defaults[name] = [type |-> Defaults[name].type, val |-> Defaults[name].val]
    /\ {"max_iterations", "period", "delta"} \subseteq DOMAIN Defaults
    /\ Defaults["max_iterations"].type = "int"
    /\ Defaults["period"].type = "int" /\ Defaults["period"].val \in Nat \ {0}
    /\ Defaults["delta"].type = "float"
    /\ \A c \in Configs : c.max_iterations \in Nat

IsPositive(x) == x \in Int \X (Nat \ {0}) /\ x[1] > 0 /\ x = Frac(x[1], x[2])

\* So are those of the calibration; it starts at a positive rate and changes it
\* by a factor above one. There is a regularization: without one (c2 = 0) the
\* code divides by zero.
ASSUME CalibrationAssumption ==
    /\ {"c2", "calibration.eta", "calibration.rate", "calibration.samples",
        "calibration.candidates", "calibration.max_trials"} \subseteq DOMAIN Defaults
    /\ \A name \in {"c2", "calibration.eta", "calibration.rate"} :
            Defaults[name].type = "float"
    /\ \A name \in {"calibration.samples", "calibration.candidates",
                    "calibration.max_trials"} :
            Defaults[name].type = "int" /\ Defaults[name].val \in Nat \ {0}
    /\ IsPositive(Defaults["calibration.eta"].val)
    /\ IsPositive(Defaults["calibration.rate"].val)
    /\ Defaults["calibration.rate"].val[1] > Defaults["calibration.rate"].val[2]
    /\ \A c \in Configs : IsPositive(c.c2)

VARIABLES config,  \* TrainingConfig of this run
          params,  \* crfsuite_params_t
          pc,      \* where the program is
          perm,    \* dataset_t.perm
          t0, t, i, epoch,      \* l2sgd(): as in the code
          w, decay,             \* l2sgd(): stored weight, its pending factor
          pf, best,             \* l2sgd(): last objectives; [sum, w] of the best epoch
          cal,                  \* l2sgd_calibration(): its locals
          ret, saved,           \* result of training, weights given to save_model()
          eager, tried, ends    \* history: textbook weight, trials, epochs
vars == <<config, params, pc, perm, t0, t, i, epoch, w, decay, pf, best, cal,
          ret, saved, eager, tried, ends>>
data == <<config, params>>
history == <<tried, ends>>

Zero == Whole(0)
One == Whole(1)
Less(x, y) == x[1] * y[2] < y[1] * x[2]

-----------------------------------------------------------------------------
(* Options (params.c) *)

\* set_int() and set_float(): an unknown name or another type is refused,
\* and nobody looks at the result.
SetOption(ps, name, type, val) ==
    IF name \in DOMAIN ps /\ ps[name].type = type
    THEN [ps EXCEPT ![name].val = val] ELSE ps

\* get_int() and get_float(): the variable keeps its garbage where refused.
Option(name, type) ==
    IF name \in DOMAIN params /\ params[name].type = type THEN params[name].val ELSE Null

C2 == Option("c2", "float")
MaxIterations == Option("max_iterations", "int")
Period == Option("period", "int")
Delta == Option("delta", "float")
InitialEta == Option("calibration.eta", "float")
Rate == Option("calibration.rate", "float")
Candidates == Option("calibration.candidates", "int")
MaxTrials == Option("calibration.max_trials", "int")

\* lambda = 2 * c2 / N
Lambda == Times(Frac(2, N), C2)

-----------------------------------------------------------------------------
(* The data set (dataset.c) *)

Least(a, b) == IF a < b THEN a ELSE b
Samples == Least(N, Option("calibration.samples", "int"))

\* Mutant of Swapped: without the temporary.
SwappedOneWay(p, a, b) == [p EXCEPT ![b] = p[a]]

Swapped(p, a, b) == [p EXCEPT ![b] = p[a], ![a] = p[b]]

\* Every outcome of dataset_shuffle(): position k changes places with a
\* position drawn from all of them, for k = 1, ..., N.
Shuffles(p) ==
    {FoldLeft(LAMBDA q, k : Swapped(q, k, drawn[k]), p, [k \in 1..N |-> k]) :
        drawn \in [1..N -> 1..N]}

-----------------------------------------------------------------------------
(* The driver and the preparations *)

Init == /\ config \in Configs
        /\ params = Defaults
        /\ pc = "created"
        /\ perm = [k \in 1..N |-> k]
        /\ t0 = Zero /\ t = 0 /\ i = 0 /\ epoch = 0
        /\ w = Null /\ decay = One
        /\ pf = <<>> /\ best = Null /\ cal = Null
        /\ ret = "ok" /\ saved = Null
        /\ eager = Zero /\ tried = <<>> /\ ends = <<>>

\* train_crf_model() sets what the command line asks for.
Configure ==
    /\ pc = "created"
    /\ params' = SetOption(SetOption(SetOption(params,
                     "c2", "float", config.c2),
                     "max_iterations", "int", config.max_iterations),
                     "epsilon", "float", config.epsilon)
    /\ pc' = "configured"
    /\ UNCHANGED <<config, perm, t0, t, i, epoch, w, decay, pf, best, cal, ret, saved,
                   eager, history>>

\* No memory for the weights: save_model() is called with none.
NoWeights ==
    /\ pc = "configured"
    /\ ret' = "out of memory"
    /\ pc' = "save"
    /\ UNCHANGED <<data, perm, t0, t, i, epoch, w, decay, pf, best, cal, saved,
                   eager, history>>

\* l2sgd() is entered: all weights zero, decay and time reset.
Enter(rate0) ==
    /\ t0' = rate0 /\ t' = 0 /\ i' = 0 /\ epoch' = 1
    /\ w' = Zero /\ decay' = One /\ eager' = Zero

T0For(eta) == Over(One, Times(Lambda, eta))

\* l2sgd_calibration() up to the first trial: the samples are the first
\* instances of a new order, the initial loss that of zero weights.
Calibrate(initLoss, order) ==
    /\ pc = "configured"
    /\ perm' = order
    /\ cal' = [num |-> Candidates, dec |-> FALSE, trials |-> 1, eta |-> InitialEta,
               bestLoss |-> NotFinite, bestEta |-> InitialEta, initLoss |-> initLoss]
    /\ Enter(T0For(InitialEta))
    /\ pc' = "trial"
    /\ UNCHANGED <<data, pf, best, ret, saved, history>>

-----------------------------------------------------------------------------
(* One instance *)

\* A learning rate that falls with the time: 1 / (lambda * (t0 + t)).
Eta == Over(One, Times(Lambda, Plus(t0, Whole(t))))
Shrink == Plus(One, Times(Whole(-1), Times(Eta, Lambda)))

\* Mutant of Gain: computed before decay has shrunk.
LateGain(old, new) == Over(Eta, old)

\* gain = eta / decay, after decay has shrunk.
Gain(old, new) == Over(Eta, new)

\* The shrinking of all weights is left to decay; the stored weight gets the
\* gradient divided by it. A decay of zero makes the gain infinite.
Update(g) ==
    /\ \/ pc = "trial" /\ i < Samples
       \/ pc = "epoch" /\ i < N
    /\ decay' = Times(decay, Shrink)
    /\ w' = IF NotFinite \in {w, g} \/ decay' = Zero THEN NotFinite
            ELSE Plus(w, Times(Gain(decay, decay'), Whole(g)))
    /\ eager' = IF w' = NotFinite THEN Zero
                ELSE Plus(Times(Shrink, eager), Times(Eta, Whole(g)))
    /\ t' = t + 1 /\ i' = i + 1
    /\ UNCHANGED <<data, pc, perm, t0, epoch, pf, best, cal, ret, saved, history>>

-----------------------------------------------------------------------------
(* Calibration *)

\* Mutant of Improves: the last of several best is taken.
NoWorse(loss, than) == loss # NotFinite /\ (than = NotFinite \/ loss <= than)

Improves(loss, than) == loss # NotFinite /\ (than = NotFinite \/ loss < than)

\* The best rate so far, after a trial with this loss.
Better(c, loss) ==
    IF Improves(loss, c.bestLoss)
    THEN [c EXCEPT !.bestLoss = loss, !.bestEta = c.eta] ELSE c

\* The next rate: up while trials beat the initial loss, for as many as there
\* are candidates, then down from below the first one.
NextRate(c, loss) ==
    LET ok == Improves(loss, c.initLoss)
        num == IF ok THEN c.num - 1 ELSE c.num
        d == [c EXCEPT !.num = num, !.trials = c.trials + 1]
    IN CASE c.dec -> [d EXCEPT !.eta = Over(c.eta, Rate)]
         [] ~c.dec /\ ok /\ num > 0 -> [d EXCEPT !.eta = Times(c.eta, Rate)]
         [] OTHER -> [d EXCEPT !.dec = TRUE, !.num = Candidates,
                               !.eta = Over(InitialEta, Rate)]

Calibrated(c) == c.trials >= MaxTrials \/ (c.num <= 0 /\ c.dec)

\* A trial ends: with weights that are not finite so is its loss, whether by
\* the overflow test or by the norm.
EndTrial(loss) ==
    /\ pc = "trial" /\ i = Samples
    /\ (loss = NotFinite) <=> (w = NotFinite)
    /\ tried' = Append(tried, [eta |-> cal.eta, loss |-> loss,
                               sample |-> SubSeq(perm, 1, Samples)])
    /\ cal' = NextRate(Better(cal, loss), loss)
    /\ IF Calibrated(cal')
       THEN /\ t0' = T0For(cal'.bestEta)
            /\ w' = IF w = NotFinite THEN w ELSE Times(w, decay)
            /\ pc' = "calibrated"
            /\ UNCHANGED <<t, i, epoch, decay, eager>>
       ELSE /\ Enter(T0For(cal'.eta))
            /\ pc' = pc
    /\ UNCHANGED <<data, perm, pf, best, ret, saved, ends>>

-----------------------------------------------------------------------------
(* Epochs *)

\* l2sgd() proper. The trials are no longer needed.
StartTraining ==
    /\ pc = "calibrated"
    /\ pf' = [k \in 0..(Period - 1) |-> Null]
    /\ best' = [sum |-> NotFinite, w |-> Zero]
    /\ Enter(t0)
    /\ cal' = Null /\ tried' = <<>>
    /\ pc' = "shuffle"
    /\ UNCHANGED <<data, perm, ret, saved, ends>>

\* No memory for pf or best_w: the weights of the last trial are saved.
NoBuffers ==
    /\ pc = "calibrated"
    /\ ret' = "out of memory"
    /\ pc' = "save"
    /\ UNCHANGED <<data, perm, t0, t, i, epoch, w, decay, pf, best, cal, saved,
                   eager, history>>

Shuffle(order) ==
    /\ pc = "shuffle" /\ epoch <= MaxIterations
    /\ perm' = order
    /\ i' = 0
    /\ pc' = "epoch"
    /\ UNCHANGED <<data, t0, t, epoch, w, decay, pf, best, cal, ret, saved,
                   eager, history>>

\* The slot of an epoch in the ring of the last objectives.
Slot(e) == (e - 1) % Period

\* improvement < epsilon; false of what is not finite, and untested in the
\* first period.
Converged(sum) ==
    /\ Period < epoch
    /\ NotFinite \notin {sum, pf[Slot(epoch)]}
    /\ Less(Frac(pf[Slot(epoch)] - sum, sum), Delta)

\* The last instance's loss is not finite.
Overflow ==
    /\ pc = "epoch" /\ i = N /\ w = NotFinite
    /\ ret' = "overflow"
    /\ pc' = "save"
    /\ UNCHANGED <<data, perm, t0, t, i, epoch, w, decay, pf, best, cal, saved,
                   eager, history>>

\* The last instance's loss is finite, the objective of the epoch perhaps not
\* (weights of other features, or the norm, are not).
EndEpoch(sum) ==
    /\ pc = "epoch" /\ i = N
    /\ (sum = NotFinite) <=> (w = NotFinite)
    /\ w' = IF w = NotFinite THEN w ELSE Times(w, decay)
    /\ decay' = One
    /\ best' = IF Improves(sum, best.sum) THEN [sum |-> sum, w |-> w'] ELSE best
    /\ pf' = [pf EXCEPT ![Slot(epoch)] = sum]
    /\ ends' = Append(ends, [sum |-> sum, w |-> w'])
    /\ IF Converged(sum) THEN pc' = "ended" /\ UNCHANGED epoch
       ELSE pc' = "shuffle" /\ epoch' = epoch + 1
    /\ UNCHANGED <<data, perm, t0, t, i, cal, ret, saved, eager, tried>>

\* Mutant of Restore: the last weights are kept.
RestoreLast(b) == w

\* The weights of the best epoch are copied back.
Restore(b) == b.w

Finish ==
    /\ pc = "ended" \/ (pc = "shuffle" /\ epoch > MaxIterations)
    /\ w' = Restore(best)
    /\ pc' = "save"
    /\ UNCHANGED <<data, perm, t0, t, i, epoch, decay, pf, best, cal, ret, saved,
                   eager, history>>

\* crfsuite_train_train() saves whatever the algorithm left, and returns 0;
\* without weights save_model() reads through a null pointer.
Save ==
    /\ pc = "save"
    /\ saved' = w
    /\ pc' = IF w = Null THEN "crashed" ELSE "done"
    /\ UNCHANGED <<data, perm, t0, t, i, epoch, w, decay, pf, best, cal, ret,
                   eager, history>>

Next ==
    \/ Configure
    \/ NoWeights
    \/ \E loss \in Losses, order \in Shuffles(perm) : Calibrate(loss, order)
    \/ \E g \in Gradients \cup {NotFinite} : Update(g)
    \/ \E loss \in Losses \cup {NotFinite} : EndTrial(loss)
    \/ StartTraining
    \/ NoBuffers
    \/ \E order \in Shuffles(perm) : Shuffle(order)
    \/ Overflow
    \/ \E sum \in Losses \cup {NotFinite} : EndEpoch(sum)
    \/ Finish
    \/ Save

Spec == Init /\ [][Next]_vars

-----------------------------------------------------------------------------
(* Properties *)

IsFraction(x) == x \in Int \X (Nat \ {0})
IsWeight(x) == x \in {Null, NotFinite} \/ IsFraction(x)

\* The types of the state; the order of the instances is a permutation of
\* them, so that an epoch sees each of them once (dataset_shuffle()), and the
\* ring of objectives is indexed within its length.
TypeOK ==
    /\ config \in Configs
    /\ DOMAIN params = DOMAIN Defaults
    /\ perm \in [1..N -> 1..N] /\ ToSet(perm) = 1..N
    /\ t \in Nat /\ i \in 0..N /\ epoch \in Nat
    /\ IsWeight(w) /\ IsWeight(saved) /\ IsFraction(decay) /\ IsFraction(t0)
    /\ pf # <<>> => DOMAIN pf = 0..(Period - 1)
    /\ ret \in {"ok", "out of memory", "overflow"}

\* Scaling late is scaling at once: the stored weight times the pending decay
\* is the weight that w := w - eta * (lambda * w) + eta * gradient gives at
\* every step, across epochs, wherever the weights are finite (l2sgd()).
LazyIsEager ==
    pc \in {"trial", "epoch", "shuffle"} /\ w # NotFinite => Times(decay, w) = eager

\* Calibration compares like with like and keeps the best: all trials run over
\* the same instances, with learning rates that differ and form an unbroken
\* range around the initial one, fewer than max_trials (or one); the rate
\* training starts with is the first of least finite loss, the initial one if
\* no loss was finite (l2sgd_calibration()).
BestRate ==
    LET etas == {tried[k].eta : k \in DOMAIN tried}
        finite == {k \in DOMAIN tried : tried[k].loss # NotFinite}
        least == {k \in finite : \A j \in finite : tried[k].loss <= tried[j].loss}
        first == CHOOSE k \in least : \A j \in least : k <= j
    IN pc = "calibrated" =>
        /\ \A k, j \in DOMAIN tried : tried[k].sample = tried[j].sample
        /\ Cardinality(etas) = Len(tried)
        /\ \A eta \in etas \ {InitialEta} :
                IF Less(InitialEta, eta) THEN Over(eta, Rate) \in etas
                ELSE eta = Over(InitialEta, Rate) \/ Times(eta, Rate) \in etas
        /\ Len(tried) < MaxTrials \/ Len(tried) = 1
        /\ T0For(IF finite = {} THEN InitialEta ELSE tried[first].eta) = t0

\* Training that reports no error ran for the iterations asked for, or up to
\* the first epoch whose objective has improved by less than the default delta
\* over the last period (the epsilon of the command line reaches nothing), and
\* saves the weights as they were after the best of its epochs, the first of
\* least finite objective; zeros if no objective was finite.
EndsAtBest ==
    LET period == Defaults["period"].val
        sum(e) == ends[e].sum
        last == Len(ends)
        stalled(e) == /\ e > period /\ NotFinite \notin {sum(e), sum(e - period)}
                      /\ Less(Frac(sum(e - period) - sum(e), sum(e)), Defaults["delta"].val)
        finite == {e \in DOMAIN ends : sum(e) # NotFinite}
        least == {e \in finite : \A f \in finite : sum(e) <= sum(f)}
    IN pc = "done" /\ ret = "ok" =>
        /\ last = config.max_iterations \/ (last < config.max_iterations /\ stalled(last))
        /\ \A e \in 1..(last - 1) : ~stalled(e)
        /\ saved = IF least = {} THEN Zero
                   ELSE ends[CHOOSE e \in least : \A f \in least : e <= f].w
=============================================================================
