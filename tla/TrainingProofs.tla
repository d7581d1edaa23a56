---------------------------- MODULE TrainingProofs ----------------------------
(***************************************************************************)
(* What training ends with, for every number of instances, iterations and  *)
(* length of the period, and whatever the losses of its epochs are.        *)
(*                                                                         *)
(* EndsAtBest looks at the epochs there were (ends), the code only at the  *)
(* ring pf and the pair best. The invariant ties the two together: the     *)
(* ring holds the objectives of the last period, each in its own slot      *)
(* (RingIsRecent), and best is the first least of all (BestSoFar). That    *)
(* the run stops where it should then follows from the options the         *)
(* algorithm reads being those that were set (OptionsReach).               *)
(***************************************************************************)
EXTENDS Training, Foundations, SequenceTheorems

DefaultPeriod == Defaults["period"].val
DefaultDelta == Defaults["delta"].val

Objective(e) == ends[e].sum

\* Epoch e has improved too little over the last period.
Stalled(e) ==
    /\ e > DefaultPeriod
    /\ NotFinite \notin {Objective(e), Objective(e - DefaultPeriod)}
    /\ Less(Frac(Objective(e - DefaultPeriod) - Objective(e), Objective(e)), DefaultDelta)

\* Epoch e is the first of least finite objective.
FirstLeast(e) ==
    /\ Objective(e) # NotFinite
    /\ \A f \in 1..Len(ends) :
        Objective(f) # NotFinite => /\ Objective(e) <= Objective(f)
                                    /\ f < e => Objective(e) < Objective(f)

NoneFinite == \A e \in 1..Len(ends) : Objective(e) = NotFinite

-----------------------------------------------------------------------------

\* The arguments of set_int() and set_float() get through, except for epsilon.
OptionsReach ==
    /\ config \in Configs
    /\ pc = "created" => params = Defaults
    /\ pc # "created" => /\ MaxIterations = config.max_iterations
                         /\ Period = DefaultPeriod
                         /\ Delta = DefaultDelta

EpochsAreRecorded ==
    /\ Len(ends) \in Nat
    /\ ends = [e \in 1..Len(ends) |-> ends[e]]
    /\ \A e \in 1..Len(ends) : Objective(e) \in Losses \cup {NotFinite}

\* Where the loop is; it is left by its condition or where it has converged.
Counting ==
    /\ pc \in {"created", "configured", "trial", "calibrated"} => ends = <<>> /\ ret = "ok"
    /\ pc \in {"shuffle", "epoch"} =>
        /\ ret = "ok"
        /\ epoch = Len(ends) + 1
        /\ \A e \in 1..Len(ends) : ~Stalled(e)
    /\ pc = "shuffle" => epoch <= config.max_iterations + 1
    /\ pc = "epoch" => epoch <= config.max_iterations
    /\ pc = "ended" => /\ ret = "ok"
                       /\ Len(ends) \in 1..config.max_iterations
                       /\ Stalled(Len(ends))
                       /\ \A e \in 1..(Len(ends) - 1) : ~Stalled(e)

\* The ring holds the objectives of the last epochs, up to one period of them.
RingIsRecent ==
    pc \in {"shuffle", "epoch"} =>
        /\ DOMAIN pf = 0..(DefaultPeriod - 1)
        /\ \A e \in 1..Len(ends) :
            e > Len(ends) - DefaultPeriod => pf[(e - 1) % DefaultPeriod] = Objective(e)

BestSoFar ==
    pc \in {"shuffle", "epoch", "ended"} =>
        \/ best.sum = NotFinite /\ best.w = Zero /\ NoneFinite
        \/ \E e \in 1..Len(ends) :
            FirstLeast(e) /\ best.sum = Objective(e) /\ best.w = ends[e].w

\* The loop is over, and v are the weights to save.
Trained(v) ==
    /\ \/ Len(ends) = config.max_iterations
       \/ Len(ends) < config.max_iterations /\ Stalled(Len(ends))
    /\ \A e \in 1..(Len(ends) - 1) : ~Stalled(e)
    /\ \/ NoneFinite /\ v = Zero
       \/ \E e \in 1..Len(ends) : FirstLeast(e) /\ v = ends[e].w

Outcome ==
    /\ pc = "save" /\ ret = "ok" => Trained(w)
    /\ pc = "done" /\ ret = "ok" => Trained(saved)

EpochsInv ==
    /\ OptionsReach
    /\ EpochsAreRecorded
    /\ Counting
    /\ RingIsRecent
    /\ BestSoFar
    /\ Outcome

-----------------------------------------------------------------------------

\* An option that is declared with this type is read as it is set last; the
\* setting of another name does not change it.
LEMMA SetIsRead ==
  ASSUME NEW ps, NEW name \in DOMAIN ps, NEW val,
         ps[name] = [type |-> ps[name].type, val |-> ps[name].val]
  PROVE  LET set == SetOption(ps, name, ps[name].type, val)
         IN /\ DOMAIN set = DOMAIN ps
            /\ set[name] = [type |-> ps[name].type, val |-> val]
  BY DEF SetOption

LEMMA SetLeavesOthers ==
  ASSUME NEW ps, NEW name, NEW type, NEW val, NEW other \in DOMAIN ps, other # name
  PROVE  LET set == SetOption(ps, name, type, val)
         IN /\ DOMAIN set = DOMAIN ps
            /\ set[other] = ps[other]
  BY DEF SetOption

LEMMA ConfigureReaches ==
  ASSUME OptionsAssumption, params = Defaults, Configure, config \in Configs
  PROVE  /\ (MaxIterations)' = config.max_iterations
         /\ (Period)' = DefaultPeriod
         /\ (Delta)' = DefaultDelta
  <1> DEFINE one == SetOption(params, "c2", "float", config.c2)
             two == SetOption(one, "max_iterations", "int", config.max_iterations)
             three == SetOption(two, "epsilon", "float", config.epsilon)
  <1>1. params' = three
    BY DEF Configure
  <1>2. {"max_iterations", "period", "delta"} \subseteq DOMAIN params
    BY DEF OptionsAssumption
  <1>3. /\ {"max_iterations", "period", "delta"} \subseteq DOMAIN one
        /\ \A name \in {"max_iterations", "period", "delta"} : one[name] = params[name]
    BY <1>2, SetLeavesOthers
  <1>4. /\ "max_iterations" \in DOMAIN two
        /\ two["max_iterations"] = [type |-> "int", val |-> config.max_iterations]
    <2>1. one["max_iterations"].type = "int"
      BY <1>3 DEF OptionsAssumption
    <2>2. one["max_iterations"]
            = [type |-> one["max_iterations"].type, val |-> one["max_iterations"].val]
      BY <1>2, <1>3 DEF OptionsAssumption
    <2>3. two = SetOption(one, "max_iterations", one["max_iterations"].type,
                          config.max_iterations)
      BY <2>1
    <2>4. "max_iterations" \in DOMAIN one
      BY <1>3
    <2> HIDE DEF one, two
    <2>5. /\ DOMAIN two = DOMAIN one
          /\ two["max_iterations"] = [type |-> one["max_iterations"].type,
                                      val |-> config.max_iterations]
      BY <2>2, <2>3, <2>4, SetIsRead
    <2> QED BY <2>1, <2>4, <2>5
  <1>5. /\ {"period", "delta"} \subseteq DOMAIN two
        /\ \A name \in {"period", "delta"} : two[name] = params[name]
    <2> HIDE DEF one
    <2> QED BY <1>3, SetLeavesOthers
  <1>6. /\ {"max_iterations", "period", "delta"} \subseteq DOMAIN three
        /\ \A name \in {"max_iterations", "period", "delta"} : three[name] = two[name]
    <2> HIDE DEF two
    <2> QED BY <1>4, <1>5, SetLeavesOthers
  <1> HIDE DEF one, two, three
  <1>7. /\ "max_iterations" \in DOMAIN params' /\ params'["max_iterations"].type = "int"
        /\ params'["max_iterations"].val = config.max_iterations
    BY <1>1, <1>4, <1>6
  <1>8. /\ "period" \in DOMAIN params' /\ params'["period"].type = "int"
        /\ params'["period"].val = DefaultPeriod
    BY <1>1, <1>5, <1>6 DEF OptionsAssumption, DefaultPeriod
  <1>9. /\ "delta" \in DOMAIN params' /\ params'["delta"].type = "float"
        /\ params'["delta"].val = DefaultDelta
    BY <1>1, <1>5, <1>6 DEF OptionsAssumption, DefaultDelta
  <1> QED BY <1>7, <1>8, <1>9 DEF MaxIterations, Period, Delta, Option

\* Where the invariant's variables stay and the weights are not yet for saving.
LEMMA Undisturbed ==
  ASSUME EpochsInv, UNCHANGED <<config, params, pc, epoch, pf, best, ret, ends>>,
         pc \in {"save", "done"} => UNCHANGED <<w, saved>>
  PROVE  EpochsInv'
  <1>1. OptionsReach'
    BY DEF EpochsInv, OptionsReach, MaxIterations, Period, Delta, Option
  <1>2. EpochsAreRecorded'
    BY DEF EpochsInv, EpochsAreRecorded, Objective
  <1>3. Counting'
    BY DEF EpochsInv, Counting, Stalled, Objective
  <1>4. RingIsRecent'
    BY DEF EpochsInv, RingIsRecent, Objective
  <1>5. BestSoFar'
    BY DEF EpochsInv, BestSoFar, NoneFinite, FirstLeast, Objective
  <1>6. Outcome'
    BY DEF EpochsInv, Outcome, Trained, NoneFinite, FirstLeast, Stalled, Objective
  <1> QED BY <1>1, <1>2, <1>3, <1>4, <1>5, <1>6 DEF EpochsInv

Early == {"created", "configured", "trial", "calibrated"}

LEMMA NoEpochs ==
  ASSUME ends = <<>>
  PROVE  EpochsAreRecorded /\ Len(ends) = 0 /\ 1..Len(ends) = {}
  <1>1. Len(ends) = 0
    OBVIOUS
  <1>2. 1..Len(ends) = {}
    BY <1>1
  <1>3. ends = [e \in 1..Len(ends) |-> ends[e]]
    BY <1>1
  <1> QED BY <1>1, <1>2, <1>3 DEF EpochsAreRecorded

LEMMA InitHolds == Init => EpochsInv
  <1> SUFFICES ASSUME Init PROVE EpochsInv
    OBVIOUS
  <1>1. pc = "created" /\ ends = <<>> /\ ret = "ok"
    BY DEF Init
  <1>2. OptionsReach
    BY DEF Init, OptionsReach
  <1>3. EpochsAreRecorded
    BY <1>1, NoEpochs
  <1>4. Counting
    BY <1>1 DEF Counting
  <1>5. RingIsRecent /\ BestSoFar /\ Outcome
    BY <1>1 DEF RingIsRecent, BestSoFar, Outcome
  <1> QED BY <1>2, <1>3, <1>4, <1>5 DEF EpochsInv

LEMMA OptionsStay ==
  ASSUME OptionsAssumption, OptionsReach, Next
  PROVE  OptionsReach'
  <1>1. CASE Configure
    <2>1. pc = "created" /\ pc' = "configured" /\ config' = config
      BY <1>1 DEF Configure
    <2>2. config \in Configs /\ params = Defaults
      BY <2>1 DEF OptionsReach
    <2> QED BY <1>1, <2>1, <2>2, ConfigureReaches DEF OptionsReach
  <1>2. CASE ~Configure
    <2>1. UNCHANGED <<config, params>>
      BY <1>2 DEF Next, NoWeights, Calibrate, Update, EndTrial, StartTraining, NoBuffers,
                  Shuffle, Overflow, EndEpoch, Finish, Save, data
    <2>2. pc # "created" /\ pc' # "created"
      <3>1. CASE \/ NoWeights \/ StartTraining \/ NoBuffers \/ Overflow \/ Finish \/ Save
        BY <3>1 DEF NoWeights, StartTraining, NoBuffers, Overflow, Finish, Save
      <3>2. CASE \E loss \in Losses, order \in Shuffles(perm) : Calibrate(loss, order)
        BY <3>2 DEF Calibrate
      <3>3. CASE \E g \in Gradients \cup {NotFinite} : Update(g)
        BY <3>3 DEF Update
      <3>4. CASE \E loss \in Losses \cup {NotFinite} : EndTrial(loss)
        BY <3>4 DEF EndTrial
      <3>5. CASE \E order \in Shuffles(perm) : Shuffle(order)
        BY <3>5 DEF Shuffle
      <3>6. CASE \E sum \in Losses \cup {NotFinite} : EndEpoch(sum)
        BY <3>6 DEF EndEpoch
      <3> QED BY <1>2, <3>1, <3>2, <3>3, <3>4, <3>5, <3>6 DEF Next
    <2> QED BY <2>1, <2>2 DEF OptionsReach, MaxIterations, Period, Delta, Option
  <1> QED BY <1>1, <1>2

\* No epoch is recorded before the loop is entered, and nothing is said of a
\* training that reports an error.
LEMMA OutsideTheLoop ==
  ASSUME EpochsInv, OptionsReach', ends' = ends,
         \/ pc \in Early /\ pc' \in Early /\ ret' = ret
         \/ pc' = "save" /\ ret' # "ok"
  PROVE  EpochsInv'
  <1>1. EpochsAreRecorded'
    BY DEF EpochsInv, EpochsAreRecorded, Objective
  <1>2. Counting'
    BY DEF EpochsInv, Counting, Early
  <1>3. RingIsRecent' /\ BestSoFar' /\ Outcome'
    BY DEF Early, RingIsRecent, BestSoFar, Outcome
  <1> QED BY <1>1, <1>2, <1>3 DEF EpochsInv

LEMMA StartTrainingStep ==
  ASSUME OptionsAssumption, EpochsInv, OptionsReach', StartTraining
  PROVE  EpochsInv'
  <1>1. /\ pc = "calibrated" /\ pc' = "shuffle" /\ ret' = ret /\ ends' = ends
        /\ epoch' = 1 /\ config' = config
        /\ pf' = [k \in 0..(Period - 1) |-> Null]
        /\ best' = [sum |-> NotFinite, w |-> Zero]
    BY DEF StartTraining, Enter, data
  <1>2. ends = <<>> /\ ret = "ok"
    BY <1>1 DEF EpochsInv, Counting
  <1>3. EpochsAreRecorded /\ Len(ends) = 0 /\ 1..Len(ends) = {}
    BY <1>2, NoEpochs
  <1>4. Period = DefaultPeriod /\ config.max_iterations \in Nat
    BY <1>1 DEF EpochsInv, OptionsReach, OptionsAssumption
  <1>5. EpochsAreRecorded'
    BY <1>1, <1>3 DEF EpochsAreRecorded, Objective
  <1>6. Counting'
    <2>1. 1 <= config.max_iterations + 1
      BY <1>4
    <2>2. \A e \in 1..Len(ends') : (~Stalled(e))'
      BY <1>1, <1>3
    <2> QED BY <1>1, <1>2, <1>3, <2>1, <2>2 DEF Counting
  <1>7. RingIsRecent'
    BY <1>1, <1>3, <1>4 DEF RingIsRecent, DefaultPeriod
  <1>8. BestSoFar'
    BY <1>1, <1>3 DEF BestSoFar, NoneFinite
  <1>9. Outcome'
    BY <1>1 DEF Outcome
  <1> QED BY <1>5, <1>6, <1>7, <1>8, <1>9 DEF EpochsInv

LEMMA ShuffleStep ==
  ASSUME EpochsInv, OptionsReach', NEW order \in Shuffles(perm), Shuffle(order)
  PROVE  EpochsInv'
  <1>1. /\ pc = "shuffle" /\ pc' = "epoch"
        /\ UNCHANGED <<config, epoch, pf, best, ret, ends>>
    BY DEF Shuffle, data, history
  <1>2. epoch <= config.max_iterations
    <2>1. MaxIterations = config.max_iterations
      BY <1>1 DEF EpochsInv, OptionsReach
    <2>2. epoch <= MaxIterations
      BY DEF Shuffle
    <2> QED BY <2>1, <2>2
  <1>3. EpochsAreRecorded'
    BY <1>1 DEF EpochsInv, EpochsAreRecorded, Objective
  <1>4. Counting'
    BY <1>1, <1>2 DEF EpochsInv, Counting, Stalled, Objective
  <1>5. RingIsRecent'
    BY <1>1 DEF EpochsInv, RingIsRecent, Objective
  <1>6. BestSoFar'
    BY <1>1 DEF EpochsInv, BestSoFar, NoneFinite, FirstLeast, Objective
  <1>7. Outcome'
    BY <1>1 DEF Outcome
  <1> QED BY <1>3, <1>4, <1>5, <1>6, <1>7 DEF EpochsInv

-----------------------------------------------------------------------------
(* The end of an epoch *)

LEMMA AppendOne ==
  ASSUME NEW s, Len(s) \in Nat, s = [k \in 1..Len(s) |-> s[k]], NEW x
  PROVE  /\ Len(Append(s, x)) = Len(s) + 1
         /\ Append(s, x) = [k \in 1..(Len(s) + 1) |-> Append(s, x)[k]]
         /\ \A k \in 1..Len(s) : Append(s, x)[k] = s[k]
         /\ Append(s, x)[Len(s) + 1] = x
  <1> DEFINE S == {s[k] : k \in 1..Len(s)} \cup {x}
  <1>1. s \in [1..Len(s) -> S]
    <2>1. \A k \in 1..Len(s) : s[k] \in S
      OBVIOUS
    <2> HIDE DEF S
    <2> QED BY <2>1
  <1>2. s \in Seq(S)
    <2> HIDE DEF S
    <2> QED BY <1>1
  <1>3. x \in S
    OBVIOUS
  <1> HIDE DEF S
  <1>4. Append(s, x) \in Seq(S)
    BY <1>2, <1>3
  <1>5. /\ Len(Append(s, x)) = Len(s) + 1
        /\ \A k \in 1..Len(s) : Append(s, x)[k] = s[k]
        /\ Append(s, x)[Len(s) + 1] = x
    BY <1>2, <1>3
  <1>6. Append(s, x) = [k \in 1..(Len(s) + 1) |-> Append(s, x)[k]]
    <2>1. Append(s, x) \in [1..Len(Append(s, x)) -> S]
      BY <1>4, LenProperties
    <2> QED BY <1>5, <2>1
  <1> QED BY <1>5, <1>6

\* What an epoch leaves in the record, n being its number.
Recorded(n, sum) ==
    /\ n \in 1..config.max_iterations
    /\ Len(ends) = n - 1 /\ Len(ends') = n
    /\ \A e \in 1..(n - 1) : ends'[e] = ends[e]
    /\ ends'[n] = [sum |-> sum, w |-> w']

LEMMA EpochIsRecorded ==
  ASSUME OptionsAssumption, EpochsInv,
         NEW sum \in Losses \cup {NotFinite}, EndEpoch(sum)
  PROVE  EpochsAreRecorded' /\ \E n \in Nat : n = epoch /\ Recorded(n, sum)
  <1>1. /\ pc = "epoch" /\ ends' = Append(ends, [sum |-> sum, w |-> w'])
    BY DEF EndEpoch
  <1>2. Len(ends) \in Nat /\ ends = [e \in 1..Len(ends) |-> ends[e]]
    BY DEF EpochsInv, EpochsAreRecorded
  <1>3. epoch = Len(ends) + 1 /\ epoch <= config.max_iterations
    BY <1>1 DEF EpochsInv, Counting
  <1>4. config.max_iterations \in Nat
    BY DEF EpochsInv, OptionsReach, OptionsAssumption
  <1>5. PICK n \in Nat : n = epoch
    BY <1>2, <1>3
  <1>6. /\ Len(ends') = Len(ends) + 1
        /\ ends' = [k \in 1..(Len(ends) + 1) |-> ends'[k]]
        /\ \A k \in 1..Len(ends) : ends'[k] = ends[k]
        /\ ends'[Len(ends) + 1] = [sum |-> sum, w |-> w']
    BY <1>1, <1>2, AppendOne
  <1>7. n \in 1..config.max_iterations /\ Len(ends) = n - 1
    BY <1>2, <1>3, <1>4, <1>5
  <1>8. Len(ends') = n /\ ends'[n] = [sum |-> sum, w |-> w']
    <2>1. Len(ends) + 1 = n
      BY <1>7
    <2> QED BY <1>6, <2>1
  <1>9. Recorded(n, sum)
    BY <1>6, <1>7, <1>8 DEF Recorded
  <1>10. EpochsAreRecorded'
    <2>1. ends' = [k \in 1..n |-> ends'[k]]
      <3>1. Len(ends) + 1 = n
        BY <1>7
      <3> QED BY <1>6, <3>1
    <2>2. ASSUME NEW e \in 1..n PROVE ends'[e].sum \in Losses \cup {NotFinite}
      <3>1. CASE e = n
        BY <1>8, <3>1
      <3>2. CASE e # n
        <4>1. e \in 1..Len(ends) /\ ends'[e] = ends[e]
          BY <1>6, <1>7, <3>2
        <4>2. ends[e].sum \in Losses \cup {NotFinite}
          BY <4>1 DEF EpochsInv, EpochsAreRecorded, Objective
        <4> QED BY <4>1, <4>2
      <3> QED BY <3>1, <3>2
    <2> QED BY <1>8, <2>1, <2>2 DEF EpochsAreRecorded, Objective
  <1> QED BY <1>5, <1>9, <1>10

\* The loop stops after an epoch just when that epoch is one to stop after,
\* and this says the same of the epochs before as before.
LEMMA ConvergedIsStalled ==
  ASSUME OptionsAssumption, EpochsInv, pc = "epoch",
         NEW sum \in Losses \cup {NotFinite},
         NEW n \in Nat, n = epoch, Recorded(n, sum)
  PROVE  /\ Converged(sum) <=> (Stalled(n))'
         /\ \A e \in 1..(n - 1) : ~(Stalled(e))'
  <1> DEFINE p == DefaultPeriod
  <1>1. p \in Nat \ {0} /\ Period = p /\ Delta = DefaultDelta
    BY DEF EpochsInv, OptionsReach, OptionsAssumption, DefaultPeriod
  <1>2. /\ Len(ends) = n - 1
        /\ \A e \in 1..(n - 1) : ends'[e].sum = Objective(e)
        /\ ends'[n].sum = sum
    BY DEF Recorded, Objective
  <1>3. ASSUME p < n
        PROVE  n - p \in 1..(n - 1) /\ pf[Slot(epoch)] = Objective(n - p)
    <2>1. n - p \in 1..Len(ends) /\ n - p > Len(ends) - p
      BY <1>1, <1>2, <1>3
    <2>2. pf[((n - p) - 1) % p] = Objective(n - p)
      BY <2>1 DEF EpochsInv, RingIsRecent
    <2>3. ((n - p) - 1) % p = (n - 1) % p
      <3>1. (n - p) - 1 \in Nat /\ ((n - p) - 1) + p = n - 1
        BY <1>1, <1>3
      <3> QED BY <1>1, <3>1, SlotRepeats
    <2>4. Slot(epoch) = (n - 1) % p
      BY <1>1 DEF Slot
    <2> QED BY <1>2, <2>1, <2>2, <2>3, <2>4
  <1> HIDE DEF p
  <1>4. Converged(sum) <=> (Stalled(n))'
    <2>1. CASE p < n
      <3>1. n - p \in 1..(n - 1) /\ pf[Slot(epoch)] = Objective(n - p)
        BY <1>3, <2>1
      <3>2. ends'[n - p].sum = Objective(n - p)
        BY <1>2, <3>1
      <3>3. n > p
        BY <1>1, <2>1
      <3>4. Period < epoch
        BY <1>1, <2>1
      <3>5. Converged(sum) <=>
              /\ NotFinite \notin {sum, Objective(n - p)}
              /\ Less(Frac(Objective(n - p) - sum, sum), DefaultDelta)
        BY <1>1, <3>1, <3>4 DEF Converged
      <3>6. (Stalled(n))' <=>
              /\ NotFinite \notin {sum, Objective(n - p)}
              /\ Less(Frac(Objective(n - p) - sum, sum), DefaultDelta)
        BY <1>2, <3>2, <3>3 DEF Stalled, Objective, p
      <3> QED BY <3>5, <3>6
    <2>2. CASE ~(p < n)
      <3>1. ~(Period < epoch) /\ ~(n > p)
        BY <1>1, <2>2
      <3> QED BY <3>1 DEF Converged, Stalled, p
    <2> QED BY <2>1, <2>2
  <1>5. ASSUME NEW e \in 1..(n - 1) PROVE ~(Stalled(e))'
    <2>1. ~Stalled(e)
      BY <1>2 DEF EpochsInv, Counting
    <2>2. ends'[e].sum = Objective(e)
      BY <1>2
    <2>3. CASE e > p
      <3>1. e - p \in 1..(n - 1)
        BY <1>1, <2>3
      <3>2. ends'[e - p].sum = Objective(e - p)
        BY <1>2, <3>1
      <3> QED BY <2>1, <2>2, <3>2 DEF Stalled, Objective, p
    <2>4. CASE ~(e > p)
      BY <2>4 DEF Stalled, p
    <2> QED BY <2>3, <2>4
  <1> QED BY <1>4, <1>5

\* The epoch takes the slot of the one that has left the period.
LEMMA RingStaysRecent ==
  ASSUME OptionsAssumption, EpochsInv, pc = "epoch",
         NEW sum \in Losses \cup {NotFinite}, EndEpoch(sum),
         NEW n \in Nat, n = epoch, Recorded(n, sum)
  PROVE  RingIsRecent'
  <1> DEFINE p == DefaultPeriod
  <1>1. p \in Nat \ {0} /\ Period = p
    BY DEF EpochsInv, OptionsReach, OptionsAssumption, DefaultPeriod
  <1>2. /\ Len(ends) = n - 1 /\ Len(ends') = n
        /\ \A e \in 1..(n - 1) : ends'[e].sum = Objective(e)
        /\ ends'[n].sum = sum
    BY DEF Recorded, Objective
  <1>3. /\ DOMAIN pf = 0..(p - 1)
        /\ \A e \in 1..(n - 1) : e > (n - 1) - p => pf[(e - 1) % p] = Objective(e)
    BY <1>2 DEF EpochsInv, RingIsRecent
  <1>4. n \in Nat \ {0}
    BY DEF Recorded
  <1> HIDE DEF p
  <1>5. pf' = [pf EXCEPT ![(n - 1) % p] = sum] /\ (n - 1) % p \in 0..(p - 1)
    <2>1. n - 1 \in Nat
      BY <1>4
    <2>2. (n - 1) % p \in 0..(p - 1)
      BY <1>1, <2>1, Division
    <2> QED BY <1>1, <2>2 DEF EndEpoch, Slot
  <1>6. ASSUME NEW e \in 1..n, e > n - p
        PROVE  pf'[(e - 1) % p] = ends'[e].sum
    <2>1. CASE e = n
      BY <1>2, <1>3, <1>5, <2>1
    <2>2. CASE e # n
      <3>1. e \in 1..(n - 1) /\ e > (n - 1) - p
        BY <1>1, <1>6, <2>2
      <3>2. (e - 1) % p # (n - 1) % p
        <4>1. e - 1 \in Nat /\ n - 1 \in Nat /\ e - 1 < n - 1 /\ n - 1 < (e - 1) + p
          BY <1>1, <1>6, <3>1
        <4> QED BY <1>1, <4>1, SlotsDiffer
      <3>3. (e - 1) % p \in 0..(p - 1)
        <4>1. e - 1 \in Nat
          BY <3>1
        <4> QED BY <1>1, <4>1, Division
      <3>4. pf'[(e - 1) % p] = pf[(e - 1) % p]
        BY <1>3, <1>5, <3>2, <3>3
      <3> QED BY <1>2, <1>3, <3>1, <3>4
    <2> QED BY <2>1, <2>2
  <1>7. DOMAIN pf' = 0..(p - 1)
    BY <1>3, <1>5
  <1> QED BY <1>2, <1>6, <1>7 DEF RingIsRecent, Objective, p

\* The pair best is replaced just when the epoch is a new least.
LEMMA BestStaysBest ==
  ASSUME TrainingAssumption, EpochsInv, pc = "epoch",
         NEW sum \in Losses \cup {NotFinite}, EndEpoch(sum),
         NEW n \in Nat, n = epoch, Recorded(n, sum)
  PROVE  BestSoFar'
  <1>1. /\ Len(ends) = n - 1 /\ Len(ends') = n /\ n \in 1..n
        /\ \A e \in 1..(n - 1) : ends'[e] = ends[e]
        /\ ends'[n] = [sum |-> sum, w |-> w']
    BY DEF Recorded
  <1>2. /\ \A e \in 1..(n - 1) : Objective(e) \in Losses \cup {NotFinite}
        /\ \A e \in 1..(n - 1) : ends'[e].sum = Objective(e) /\ ends'[e].w = ends[e].w
        /\ ends'[n].sum = sum /\ ends'[n].w = w'
    BY <1>1 DEF EpochsInv, EpochsAreRecorded, Objective
  <1>3. /\ \A x \in Losses : x \in Int
        /\ NotFinite \notin Losses
    BY DEF TrainingAssumption
  <1>4. best' = IF Improves(sum, best.sum) THEN [sum |-> sum, w |-> w'] ELSE best
    BY DEF EndEpoch
  <1>5. \/ best.sum = NotFinite /\ best.w = Zero /\ NoneFinite
        \/ \E e \in 1..(n - 1) :
            FirstLeast(e) /\ best.sum = Objective(e) /\ best.w = ends[e].w
    BY <1>1 DEF EpochsInv, BestSoFar
  <1>6. SUFFICES \/ best'.sum = NotFinite /\ best'.w = Zero /\ NoneFinite'
                 \/ \E e \in 1..n :
                     /\ FirstLeast(e)'
                     /\ best'.sum = ends'[e].sum /\ best'.w = ends'[e].w
    BY <1>1 DEF BestSoFar, Objective
  <1>7. CASE Improves(sum, best.sum)
    <2>1. sum # NotFinite /\ sum \in Losses
      BY <1>7 DEF Improves
    <2>2. ASSUME NEW f \in 1..(n - 1), Objective(f) # NotFinite
          PROVE  sum < Objective(f)
      <3>1. Objective(f) \in Losses
        BY <1>2, <2>2
      <3>2. PICK e \in 1..(n - 1) : FirstLeast(e) /\ best.sum = Objective(e)
        BY <1>1, <1>5, <2>2 DEF NoneFinite
      <3>3. Objective(e) \in Losses /\ Objective(e) <= Objective(f)
        BY <1>1, <1>2, <2>2, <3>2 DEF FirstLeast
      <3>4. sum < Objective(e)
        BY <1>3, <1>7, <3>2, <3>3 DEF Improves
      <3>5. sum \in Int /\ Objective(e) \in Int /\ Objective(f) \in Int
        BY <1>3, <2>1, <3>1, <3>3
      <3> QED BY <3>3, <3>4, <3>5
    <2>3. FirstLeast(n)'
      <3>1. ends'[n].sum # NotFinite
        BY <1>2, <2>1
      <3>2. ASSUME NEW f \in 1..n, ends'[f].sum # NotFinite
            PROVE  /\ ends'[n].sum <= ends'[f].sum
                   /\ f < n => ends'[n].sum < ends'[f].sum
        <4>1. CASE f = n
          <5>1. ends'[f].sum = sum /\ sum <= sum
            BY <1>2, <1>3, <2>1, <4>1
          <5> QED BY <1>2, <4>1, <5>1
        <4>2. CASE f # n
          <5>1. f \in 1..(n - 1)
            BY <4>2
          <5>2. sum < Objective(f) /\ ends'[f].sum = Objective(f)
            BY <1>2, <2>2, <3>2, <5>1
          <5>3. Objective(f) \in Int /\ sum \in Int
            BY <1>2, <1>3, <2>1, <3>2, <5>1
          <5> QED BY <1>2, <5>2, <5>3
        <4> QED BY <4>1, <4>2
      <3> QED BY <1>1, <3>1, <3>2 DEF FirstLeast, Objective
    <2>4. best'.sum = ends'[n].sum /\ best'.w = ends'[n].w
      BY <1>2, <1>4, <1>7
    <2> QED BY <1>1, <2>3, <2>4
  <1>8. CASE ~Improves(sum, best.sum)
    <2>1. best' = best
      BY <1>4, <1>8
    <2>2. CASE best.sum = NotFinite /\ best.w = Zero /\ NoneFinite
      <3>1. sum = NotFinite
        BY <1>8, <2>2 DEF Improves
      <3>2. ASSUME NEW e \in 1..n PROVE ends'[e].sum = NotFinite
        <4>1. CASE e = n
          BY <1>2, <3>1, <4>1
        <4>2. CASE e # n
          <5>1. e \in 1..(n - 1)
            BY <4>2
          <5> QED BY <1>1, <1>2, <2>2, <5>1 DEF NoneFinite
        <4> QED BY <4>1, <4>2
      <3>3. NoneFinite'
        BY <1>1, <3>2 DEF NoneFinite, Objective
      <3> QED BY <2>1, <2>2, <3>3
    <2>3. ASSUME NEW e \in 1..(n - 1), FirstLeast(e), best.sum = Objective(e),
                 best.w = ends[e].w
          PROVE  /\ FirstLeast(e)'
                 /\ best'.sum = ends'[e].sum /\ best'.w = ends'[e].w
      <3>1. Objective(e) \in Losses /\ ends'[e].sum = Objective(e)
        BY <1>2, <2>3 DEF FirstLeast
      <3>2. sum = NotFinite \/ Objective(e) <= sum
        <4>1. best.sum # NotFinite
          BY <2>3 DEF FirstLeast
        <4>2. sum = NotFinite \/ ~(sum < Objective(e))
          BY <1>8, <2>3, <4>1 DEF Improves
        <4>3. Objective(e) \in Int /\ (sum # NotFinite => sum \in Int)
          BY <1>3, <3>1
        <4>4. CASE sum # NotFinite
          BY <4>2, <4>3, <4>4
        <4> QED BY <4>4
      <3>3. ASSUME NEW f \in 1..n, ends'[f].sum # NotFinite
            PROVE  /\ ends'[e].sum <= ends'[f].sum
                   /\ f < e => ends'[e].sum < ends'[f].sum
        <4>1. CASE f = n
          <5>1. ends'[f].sum = sum /\ ~(f < e)
            BY <1>2, <4>1
          <5> QED BY <3>1, <3>2, <3>3, <5>1
        <4>2. CASE f # n
          <5>1. f \in 1..(n - 1)
            BY <4>2
          <5> QED BY <1>1, <1>2, <2>3, <3>1, <3>3, <5>1 DEF FirstLeast
        <4> QED BY <4>1, <4>2
      <3>4. FirstLeast(e)'
        <4>1. ends'[e].sum # NotFinite
          BY <2>3, <3>1 DEF FirstLeast
        <4> QED BY <1>1, <3>3, <4>1 DEF FirstLeast, Objective
      <3> QED BY <1>2, <2>1, <2>3, <3>4
    <2>4. 1..(n - 1) \subseteq 1..n
      OBVIOUS
    <2>5. CASE \E e \in 1..(n - 1) :
                FirstLeast(e) /\ best.sum = Objective(e) /\ best.w = ends[e].w
      BY <2>3, <2>4, <2>5
    <2> QED BY <1>5, <2>2, <2>5
  <1> QED BY <1>7, <1>8

LEMMA EndEpochStep ==
  ASSUME TrainingAssumption, OptionsAssumption, EpochsInv, OptionsReach',
         NEW sum \in Losses \cup {NotFinite}, EndEpoch(sum)
  PROVE  EpochsInv'
  <1>1. pc = "epoch" /\ UNCHANGED <<config, ret>>
    BY DEF EndEpoch, data
  <1>2. PICK n \in Nat : n = epoch /\ Recorded(n, sum)
    BY EpochIsRecorded
  <1>3. EpochsAreRecorded'
    BY EpochIsRecorded
  <1>4. /\ Converged(sum) <=> (Stalled(n))'
        /\ \A e \in 1..(n - 1) : ~(Stalled(e))'
    BY <1>1, <1>2, ConvergedIsStalled
  <1>5. RingIsRecent'
    BY <1>1, <1>2, RingStaysRecent
  <1>6. BestSoFar'
    BY <1>1, <1>2, BestStaysBest
  <1>7. ret = "ok" /\ ret' = "ok"
    BY <1>1 DEF EpochsInv, Counting
  <1>8. /\ n \in 1..config'.max_iterations /\ Len(ends') = n
        /\ config'.max_iterations \in Nat
    BY <1>1, <1>2 DEF Recorded, EpochsInv, OptionsReach, OptionsAssumption
  <1>9. CASE Converged(sum)
    <2>1. pc' = "ended"
      BY <1>9 DEF EndEpoch
    <2>2. Stalled(Len(ends))'
      <3>1. (Stalled(n))'
        BY <1>4, <1>9
      <3> QED BY <1>8, <3>1 DEF Stalled, Objective
    <2>3. Counting'
      BY <1>4, <1>7, <1>8, <2>1, <2>2 DEF Counting
    <2>4. Outcome'
      BY <2>1 DEF Outcome
    <2> QED BY <1>3, <1>5, <1>6, <2>3, <2>4 DEF EpochsInv
  <1>10. CASE ~Converged(sum)
    <2>1. pc' = "shuffle" /\ epoch' = n + 1
      BY <1>2, <1>10 DEF EndEpoch
    <2>2. ASSUME NEW e \in 1..n PROVE ~(Stalled(e))'
      <3>1. CASE e = n
        BY <1>4, <1>10, <3>1
      <3>2. CASE e # n
        BY <1>4, <3>2
      <3> QED BY <3>1, <3>2
    <2>3. Counting'
      <3>1. epoch' <= config'.max_iterations + 1
        BY <1>8, <2>1
      <3>2. \A e \in 1..Len(ends') : ~(Stalled(e))'
        BY <1>8, <2>2
      <3> QED BY <1>7, <1>8, <2>1, <3>1, <3>2 DEF Counting
    <2>4. Outcome'
      BY <2>1 DEF Outcome
    <2> QED BY <1>3, <1>5, <1>6, <2>3, <2>4 DEF EpochsInv
  <1> QED BY <1>9, <1>10

-----------------------------------------------------------------------------
(* The end of the training *)

LEMMA FinishStep ==
  ASSUME OptionsAssumption, EpochsInv, OptionsReach', Finish
  PROVE  EpochsInv'
  <1>1. /\ pc \in {"ended", "shuffle"} /\ pc' = "save" /\ w' = best.w
        /\ UNCHANGED <<config, ret, ends>>
    BY DEF Finish, Restore, data, history
  <1>2. ret = "ok" /\ Len(ends) \in Nat /\ config.max_iterations \in Nat
    BY <1>1 DEF EpochsInv, Counting, EpochsAreRecorded, OptionsReach, OptionsAssumption
  <1>3. /\ \/ Len(ends) = config.max_iterations
           \/ Len(ends) < config.max_iterations /\ Stalled(Len(ends))
        /\ \A e \in 1..(Len(ends) - 1) : ~Stalled(e)
    <2>1. CASE pc = "ended"
      <3>1. /\ Len(ends) \in 1..config.max_iterations /\ Stalled(Len(ends))
            /\ \A e \in 1..(Len(ends) - 1) : ~Stalled(e)
        BY <2>1 DEF EpochsInv, Counting
      <3> QED BY <1>2, <3>1
    <2>2. CASE pc = "shuffle"
      <3>1. /\ epoch = Len(ends) + 1 /\ epoch <= config.max_iterations + 1
            /\ \A e \in 1..Len(ends) : ~Stalled(e)
        BY <2>2 DEF EpochsInv, Counting
      <3>2. epoch > config.max_iterations
        <4>1. MaxIterations = config.max_iterations
          BY <2>2 DEF EpochsInv, OptionsReach
        <4>2. epoch > MaxIterations
          BY <2>2 DEF Finish
        <4> QED BY <4>1, <4>2
      <3>3. Len(ends) = config.max_iterations
        BY <1>2, <3>1, <3>2
      <3>4. 1..(Len(ends) - 1) \subseteq 1..Len(ends)
        BY <1>2
      <3> QED BY <3>1, <3>3, <3>4
    <2> QED BY <1>1, <2>1, <2>2
  <1>4. \/ NoneFinite /\ best.w = Zero
        \/ \E e \in 1..Len(ends) : FirstLeast(e) /\ best.w = ends[e].w
    BY <1>1 DEF EpochsInv, BestSoFar
  <1>5. Trained(best.w)
    BY <1>3, <1>4 DEF Trained
  <1>6. Outcome'
    <2>1. Trained(w)'
      BY <1>1, <1>5 DEF Trained, NoneFinite, FirstLeast, Stalled, Objective
    <2> QED BY <1>1, <2>1 DEF Outcome
  <1>7. EpochsAreRecorded'
    BY <1>1 DEF EpochsInv, EpochsAreRecorded, Objective
  <1>8. Counting' /\ RingIsRecent' /\ BestSoFar'
    BY <1>1 DEF Counting, RingIsRecent, BestSoFar
  <1> QED BY <1>6, <1>7, <1>8 DEF EpochsInv

LEMMA SaveStep ==
  ASSUME EpochsInv, OptionsReach', Save
  PROVE  EpochsInv'
  <1>1. /\ pc = "save" /\ pc' \in {"crashed", "done"} /\ saved' = w
        /\ UNCHANGED <<config, ret, ends>>
    BY DEF Save, data, history
  <1>2. Outcome'
    <2>1. ASSUME ret = "ok" PROVE Trained(saved)'
      <3>1. Trained(w)
        BY <1>1, <2>1 DEF EpochsInv, Outcome
      <3> QED BY <1>1, <3>1 DEF Trained, NoneFinite, FirstLeast, Stalled, Objective
    <2> QED BY <1>1, <2>1 DEF Outcome
  <1>3. EpochsAreRecorded'
    BY <1>1 DEF EpochsInv, EpochsAreRecorded, Objective
  <1>4. Counting' /\ RingIsRecent' /\ BestSoFar'
    BY <1>1 DEF Counting, RingIsRecent, BestSoFar
  <1> QED BY <1>2, <1>3, <1>4 DEF EpochsInv

LEMMA StepKeepsEpochsInv ==
  ASSUME TrainingAssumption, OptionsAssumption, EpochsInv, [Next]_vars
  PROVE  EpochsInv'
  <1>1. CASE UNCHANGED vars
    <2>1. UNCHANGED <<config, params, pc, epoch, pf, best, ret, ends, w, saved>>
      BY <1>1 DEF vars
    <2> QED BY <2>1, Undisturbed
  <1>2. CASE Next
    <2>1. OptionsReach'
      BY <1>2, OptionsStay DEF EpochsInv
    <2>2. CASE Configure
      BY <2>1, <2>2, OutsideTheLoop DEF Configure, Early, history
    <2>3. CASE NoWeights \/ NoBuffers \/ Overflow
      <3>1. pc' = "save" /\ ret' # "ok" /\ ends' = ends
        BY <2>3 DEF NoWeights, NoBuffers, Overflow, history
      <3> QED BY <2>1, <3>1, OutsideTheLoop
    <2>4. ASSUME NEW loss \in Losses, NEW order \in Shuffles(perm), Calibrate(loss, order)
          PROVE  EpochsInv'
      BY <2>1, <2>4, OutsideTheLoop DEF Calibrate, Early, history
    <2>5. ASSUME NEW g \in Gradients \cup {NotFinite}, Update(g)
          PROVE  EpochsInv'
      <3>1. pc \in {"trial", "epoch"}
        BY <2>5 DEF Update
      <3>2. UNCHANGED <<config, params, pc, epoch, pf, best, ret, ends>>
        BY <2>5 DEF Update, data, history
      <3> QED BY <3>1, <3>2, Undisturbed
    <2>6. ASSUME NEW loss \in Losses \cup {NotFinite}, EndTrial(loss)
          PROVE  EpochsInv'
      <3>1. pc \in Early /\ pc' \in Early /\ ret' = ret /\ ends' = ends
        BY <2>6 DEF EndTrial, Early
      <3> QED BY <2>1, <3>1, OutsideTheLoop
    <2>7. CASE StartTraining
      BY <2>1, <2>7, StartTrainingStep
    <2>8. ASSUME NEW order \in Shuffles(perm), Shuffle(order)
          PROVE  EpochsInv'
      BY <2>1, <2>8, ShuffleStep
    <2>9. ASSUME NEW sum \in Losses \cup {NotFinite}, EndEpoch(sum)
          PROVE  EpochsInv'
      BY <2>1, <2>9, EndEpochStep
    <2>10. CASE Finish
      BY <2>1, <2>10, FinishStep
    <2>11. CASE Save
      BY <2>1, <2>11, SaveStep
    <2> QED BY <1>2, <2>2, <2>3, <2>4, <2>5, <2>6, <2>7, <2>8, <2>9, <2>10, <2>11 DEF Next
  <1> QED BY <1>1, <1>2

-----------------------------------------------------------------------------

\* The ring and the pair best stand for all epochs so far, whatever their
\* number, the length of the period and the losses are (l2sgd()).
THEOREM EpochsInvariant == Spec => []EpochsInv
  <1>1. EpochsInv /\ [Next]_vars => EpochsInv'
    BY StepKeepsEpochsInv, TrainingAssumption, OptionsAssumption
  <1> QED BY <1>1, InitHolds, PTL DEF Spec

\* Training that reports no error ran for the iterations asked for, or up to
\* the first epoch that has improved too little over the last period, and
\* saves the weights of the first epoch of least finite objective, zeros if
\* there is none.
THEOREM EndsAtBestAlways == Spec => []EndsAtBest
  <1>1. ASSUME EpochsInv PROVE EndsAtBest
    <2> SUFFICES ASSUME pc = "done", ret = "ok" PROVE EndsAtBest
      BY DEF EndsAtBest
    <2>1. Trained(saved)
      BY <1>1 DEF EpochsInv, Outcome
    <2>2. DOMAIN ends = 1..Len(ends) /\ Len(ends) \in Nat
      BY <1>1 DEF EpochsInv, EpochsAreRecorded
    <2> DEFINE finite == {e \in DOMAIN ends : ends[e].sum # NotFinite}
               least == {e \in finite : \A f \in finite : ends[e].sum <= ends[f].sum}
               v == IF least = {} THEN Zero
                    ELSE ends[CHOOSE e \in least : \A f \in least : e <= f].w
    <2>3. saved = v
      <3>1. CASE NoneFinite /\ saved = Zero
        <4>1. finite = {}
          BY <2>2, <3>1 DEF NoneFinite, Objective
        <4>2. least = {}
          BY <4>1
        <4> QED BY <3>1, <4>2
      <3>2. ASSUME NEW e \in 1..Len(ends), FirstLeast(e), saved = ends[e].w
            PROVE  saved = v
        <4>1. e \in finite
          BY <2>2, <3>2 DEF FirstLeast, Objective
        <4>2. /\ \A f \in finite : ends[e].sum <= ends[f].sum
              /\ \A f \in finite : f < e => ends[e].sum < ends[f].sum
          BY <2>2, <3>2 DEF FirstLeast, Objective
        <4>3. \A f \in finite : ends[f].sum \in Int
          <5>1. \A f \in 1..Len(ends) : ends[f].sum \in Losses \cup {NotFinite}
            BY <1>1 DEF EpochsInv, EpochsAreRecorded, Objective
          <5>2. \A x \in Losses : x \in Int
            BY TrainingAssumption DEF TrainingAssumption
          <5> QED BY <2>2, <5>1, <5>2
        <4>4. e \in least
          BY <4>1, <4>2
        <4>5. ASSUME NEW f \in least PROVE e <= f
          <5>1. f \in finite /\ ends[f].sum <= ends[e].sum /\ f \in Nat /\ e \in Nat
            BY <2>2, <4>1
          <5>2. ~(ends[e].sum < ends[f].sum)
            BY <4>1, <4>3, <5>1
          <5> QED BY <4>2, <5>1, <5>2
        <4>6. ASSUME NEW c \in least, \A f \in least : c <= f PROVE c = e
          <5>1. c \in Nat /\ e \in Nat
            BY <2>2
          <5>2. c <= e /\ e <= c
            BY <4>4, <4>5, <4>6
          <5> QED BY <5>1, <5>2
        <4>7. (CHOOSE c \in least : \A f \in least : c <= f) = e
          BY <4>4, <4>5, <4>6
        <4>8. v = ends[e].w
          <5> HIDE DEF least
          <5>1. least # {}
            BY <4>4
          <5> QED BY <4>7, <5>1
        <4> QED BY <3>2, <4>8
      <3> QED BY <2>1, <3>1, <3>2 DEF Trained
    <2> QED BY <2>1, <2>3 DEF EndsAtBest, Trained, Stalled, Objective, DefaultPeriod,
                              DefaultDelta
  <1>2. EpochsInv => EndsAtBest
    BY <1>1
  <1> QED BY <1>2, EpochsInvariant, PTL

-----------------------------------------------------------------------------
(* The state, the weights and the calibration *)

\* The orders of the training instances
Orders == {p \in [1..N -> 1..N] : ToSet(p) = 1..N}

LEMMA SwappedOrders ==
  ASSUME NEW p \in Orders, NEW a \in 1..N, NEW b \in 1..N
  PROVE  Swapped(p, a, b) \in Orders
  <1> DEFINE q == Swapped(p, a, b)
  <1>1. q \in [1..N -> 1..N] /\ DOMAIN p = 1..N
    BY DEF Orders, Swapped
  <1>2. /\ q[a] = p[b] /\ q[b] = p[a]
        /\ \A k \in 1..N : k # a /\ k # b => q[k] = p[k]
    BY DEF Orders, Swapped
  <1>3. \A v \in 1..N : \E k \in 1..N : p[k] = v
    BY <1>1 DEF Orders, ToSet
  <1> HIDE DEF q
  <1>4. ASSUME NEW v \in 1..N PROVE \E k \in 1..N : q[k] = v
    <2>1. PICK k \in 1..N : p[k] = v
      BY <1>3
    <2>2. CASE k = a
      BY <1>2, <2>1, <2>2
    <2>3. CASE k = b
      BY <1>2, <2>1, <2>3
    <2>4. CASE k # a /\ k # b
      BY <1>2, <2>1, <2>4
    <2> QED BY <2>2, <2>3, <2>4
  <1>5. DOMAIN q = 1..N /\ ToSet(q) = {q[k] : k \in 1..N}
    BY <1>1 DEF ToSet
  <1>6. ToSet(q) = 1..N
    BY <1>1, <1>4, <1>5
  <1>7. q \in Orders
    BY <1>1, <1>6 DEF Orders
  <1> QED BY <1>7 DEF q

\* Whatever is drawn, dataset_shuffle() leaves an order of all instances.
LEMMA ShufflesAreOrders ==
  ASSUME TrainingAssumption, NEW p \in Orders, NEW order \in Shuffles(p)
  PROVE  order \in Orders
  <1>1. PICK drawn \in [1..N -> 1..N] :
          order = FoldLeft(LAMBDA q, k : Swapped(q, k, drawn[k]), p, [k \in 1..N |-> k])
    BY DEF Shuffles
  <1> DEFINE seq == [k \in 1..N |-> k]
             Body(iter) == [s \in SUBSET DOMAIN seq |->
                              IF s = {} THEN p
                              ELSE Swapped(iter[s \ {Max(s)}], seq[Max(s)], drawn[seq[Max(s)]])]
             it == CHOOSE iter : iter = Body(iter)
             pick == [s \in SUBSET (1..N) |-> Max(s)]
             step == [x \in (1..N) \X Orders |-> Swapped(x[2], x[1], drawn[x[1]])]
  <1>2. order = it[DOMAIN seq]
    BY <1>1 DEF FoldLeft, MapThenFoldSet
  <1>3. N \in Nat /\ IsFiniteSet(1..N)
    BY FS_Interval DEF TrainingAssumption
  <1>4. \A s \in SUBSET (1..N) : s # {} => Max(s) \in s /\ pick[s] = Max(s)
    BY <1>3, GreatestIs
  <1>5. Picks(pick, 1..N)
    BY <1>4 DEF Picks
  <1>6. /\ step \in [(1..N) \X Orders -> Orders]
        /\ \A k \in 1..N, q \in Orders : step[<<k, q>>] = Swapped(q, k, drawn[k])
    <2>1. ASSUME NEW x \in (1..N) \X Orders PROVE Swapped(x[2], x[1], drawn[x[1]]) \in Orders
      BY SwappedOrders
    <2> QED BY <2>1
  <1> HIDE DEF pick, step
  <1>7. PICK F : FoldsOver(F, 1..N, Orders, p, pick, step)
    BY <1>3, <1>5, <1>6, FoldsExist
  <1>8. ASSUME NEW s \in SUBSET (1..N), s # {}
        PROVE  /\ s \ {Max(s)} \in SUBSET (1..N)
               /\ Max(s) \in 1..N /\ seq[Max(s)] = Max(s)
               /\ F[s] = Swapped(F[s \ {Max(s)}], seq[Max(s)], drawn[seq[Max(s)]])
    <2>1. Max(s) \in 1..N /\ s \ {Max(s)} \in SUBSET (1..N) /\ pick[s] = Max(s)
      BY <1>4, <1>8
    <2>2. F[s \ {Max(s)}] \in Orders
      BY <1>7, <2>1 DEF FoldsOver
    <2>3. F[s] = step[<<Max(s), F[s \ {Max(s)}]>>]
      BY <1>7, <1>8, <2>1 DEF FoldsOver
    <2>4. seq[Max(s)] = Max(s)
      BY <2>1
    <2> HIDE DEF seq
    <2> QED BY <1>6, <2>1, <2>2, <2>3, <2>4
  <1>9. F = Body(F)
    <2>1. F = [s \in SUBSET (1..N) |-> F[s]] /\ DOMAIN seq = 1..N /\ F[{}] = p
      BY <1>7 DEF FoldsOver
    <2> HIDE DEF seq
    <2>2. \A s \in SUBSET (1..N) :
            F[s] = IF s = {} THEN p
                   ELSE Swapped(F[s \ {Max(s)}], seq[Max(s)], drawn[seq[Max(s)]])
      BY <1>8, <2>1
    <2> QED BY <2>1, <2>2
  <1>10. it = Body(it)
    <2> HIDE DEF Body
    <2> QED BY <1>9
  <1>11. /\ it[{}] = p
         /\ \A s \in SUBSET (1..N) : s # {} =>
              it[s] = Swapped(it[s \ {Max(s)}], seq[Max(s)], drawn[seq[Max(s)]])
    <2>1. DOMAIN seq = 1..N
      OBVIOUS
    <2> HIDE DEF it, seq
    <2> QED BY <1>10, <2>1
  <1> HIDE DEF it, Body
  <1> DEFINE P == {s \in SUBSET (1..N) : it[s] = F[s]}
  <1>12. SUBSET (1..N) \subseteq P
    <2>1. {} \in P
      BY <1>7, <1>11 DEF FoldsOver
    <2>2. ASSUME NEW s \in SUBSET (1..N), s # {}, s \ {pick[s]} \in P
          PROVE  s \in P
      <3>1. it[s \ {Max(s)}] = F[s \ {Max(s)}]
        BY <1>4, <2>2
      <3> HIDE DEF seq
      <3> QED BY <1>8, <1>11, <2>2, <3>1
    <2> HIDE DEF P
    <2>3. \A s \in SUBSET (1..N) : s # {} /\ s \ {pick[s]} \in P => s \in P
      BY <2>2
    <2>4. PICK I : I = 1..N
      OBVIOUS
    <2>5. /\ IsFiniteSet(I) /\ Picks(pick, I)
          /\ \A s \in SUBSET I : s # {} /\ s \ {pick[s]} \in P => s \in P
      BY <1>3, <1>5, <2>3, <2>4
    <2>6. SUBSET I \subseteq P
      BY <2>1, <2>5, SubsetInduction
    <2> QED BY <2>4, <2>6
  <1>13. it[1..N] = F[1..N] /\ DOMAIN seq = 1..N
    <2>1. 1..N \in P
      BY <1>12
    <2> QED BY <2>1
  <1>14. F[1..N] \in Orders
    BY <1>7 DEF FoldsOver
  <1> HIDE DEF seq
  <1> QED BY <1>2, <1>13, <1>14

\* To multiply the factors of w and add the gradient over their product is to
\* shrink the weight and to add the gradient.
LEMMA LazyStep ==
  ASSUME NEW D \in Rationals, NEW S \in Rationals, NEW W \in Rationals,
         NEW E \in Rationals, NEW G \in Rationals,
         Times(D, S) # Zero
  PROVE  Times(Times(D, S), Plus(W, Times(Over(E, Times(D, S)), G)))
            = Plus(Times(S, Times(D, W)), Times(E, G))
  <1>1. PICK P \in Rationals : P = Times(D, S)
    BY TimesLaws
  <1>2. PICK Q \in Rationals : Q = Over(E, P) /\ Times(P, Q) = E
    BY <1>1, OverUndoes DEF Zero
  <1>3. Times(Q, G) \in Rationals
    BY TimesLaws
  <1>4. Times(P, Plus(W, Times(Q, G))) = Plus(Times(P, W), Times(P, Times(Q, G)))
    BY <1>3, TimesLaws
  <1>5. Times(P, Times(Q, G)) = Times(E, G)
    BY <1>2, TimesLaws
  <1>6. Times(P, W) = Times(S, Times(D, W))
    <2>1. P = Times(S, D)
      BY <1>1, TimesLaws
    <2> QED BY <2>1, TimesLaws
  <1> QED BY <1>1, <1>2, <1>4, <1>5, <1>6
-----------------------------------------------------------------------------

SamplesAsked == Option("calibration.samples", "int")

\* What the calibration reads, once the options are set
CalibrationReads ==
    /\ C2 \in Positive /\ InitialEta \in Positive /\ Rate \in Positive
    /\ Less(One, Rate)
    /\ SamplesAsked \in Nat /\ Candidates \in Nat /\ MaxTrials \in Nat

Finite(x) == x \in Rationals \cup {NotFinite}
Weight(x) == x \in Rationals \cup {NotFinite, Null}

Calibrations ==
    [num : Int, dec : BOOLEAN, trials : Nat, eta : Positive,
     bestLoss : Losses \cup {NotFinite}, bestEta : Positive, initLoss : Losses]

Running == {"trial", "calibrated", "shuffle", "epoch"}

OptionsKept ==
    /\ config \in Configs /\ DOMAIN params = DOMAIN Defaults
    /\ pc = "created" => params = Defaults /\ pf = <<>>
    /\ pc # "created" => CalibrationReads

Counters ==
    /\ perm \in Orders
    /\ t \in Nat /\ i \in 0..N /\ epoch \in Nat
    /\ pf # <<>> => DOMAIN pf = 0..(Period - 1)
    /\ ret \in {"ok", "out of memory", "overflow"}

Numbers ==
    /\ decay \in Rationals /\ t0 \in Rationals /\ eager \in Rationals
    /\ Weight(w) /\ Weight(saved)
    /\ pc \in Running => t0 \in Positive /\ Finite(w)
    /\ pc \in {"trial", "calibrated"} => cal \in Calibrations
    /\ pc \in {"shuffle", "epoch", "ended"} => Finite(best.w)

WeightsInv == OptionsKept /\ Counters /\ Numbers /\ LazyIsEager

LEMMA PositiveIs ==
  ASSUME NEW x, IsPositive(x)
  PROVE  x \in Positive
  <1>1. x \in Rationals
    BY DEF IsPositive, Rationals
  <1> QED BY <1>1 DEF IsPositive, Positive

LEMMA Constants ==
  /\ Zero \in Rationals /\ One \in Positive /\ One \in Rationals
  /\ \A n \in Int : Whole(n) \in Rationals
  <1>1. \A n \in Int : Whole(n) \in Rationals
    BY WholeRatio DEF Ratio
  <1>2. One[1] = 1
    BY DEF One, Whole
  <1> QED BY <1>1, <1>2 DEF Zero, One, Positive

LEMMA ConfigureReads ==
  ASSUME OptionsAssumption, CalibrationAssumption,
         OptionsKept, Configure
  PROVE  OptionsKept'
  <1> DEFINE one == SetOption(params, "c2", "float", config.c2)
             two == SetOption(one, "max_iterations", "int", config.max_iterations)
             three == SetOption(two, "epsilon", "float", config.epsilon)
             names == {"calibration.eta", "calibration.rate", "calibration.samples",
                       "calibration.candidates", "calibration.max_trials"}
  <1>1. params' = three /\ params = Defaults /\ config' = config /\ pc' = "configured"
    BY DEF Configure, OptionsKept
  <1>2. names \subseteq DOMAIN params /\ "c2" \in DOMAIN params
    BY <1>1 DEF CalibrationAssumption
  <1>3. /\ DOMAIN one = DOMAIN params
        /\ \A name \in names : one[name] = params[name]
        /\ one["c2"] = [type |-> "float", val |-> config.c2]
    <2>1. /\ params["c2"].type = "float"
          /\ params["c2"] = [type |-> params["c2"].type, val |-> params["c2"].val]
      BY <1>1, <1>2 DEF CalibrationAssumption, OptionsAssumption
    <2> HIDE DEF names
    <2>2. one["c2"] = [type |-> "float", val |-> config.c2] /\ DOMAIN one = DOMAIN params
      BY <1>2, <2>1 DEF SetOption
    <2>3. \A name \in names : name # "c2" /\ name \in DOMAIN params
      BY <1>2 DEF names
    <2>4. \A name \in names : one[name] = params[name]
      BY <2>3, SetLeavesOthers
    <2> QED BY <2>2, <2>4
  <1>4. /\ DOMAIN two = DOMAIN params
        /\ \A name \in names \cup {"c2"} : two[name] = one[name]
    <2>1. \A name \in names \cup {"c2"} : name # "max_iterations" /\ name \in DOMAIN one
      BY <1>2, <1>3
    <2> HIDE DEF one, names
    <2>2. \A name \in names \cup {"c2"} : two[name] = one[name]
      BY <2>1, SetLeavesOthers
    <2>3. DOMAIN two = DOMAIN one
      BY DEF SetOption
    <2> QED BY <1>3, <2>2, <2>3
  <1>5. /\ DOMAIN three = DOMAIN params
        /\ \A name \in names \cup {"c2"} : three[name] = two[name]
    <2>1. \A name \in names \cup {"c2"} : name # "epsilon" /\ name \in DOMAIN two
      BY <1>2, <1>4
    <2> HIDE DEF two, names
    <2>2. \A name \in names \cup {"c2"} : three[name] = two[name]
      BY <2>1, SetLeavesOthers
    <2>3. DOMAIN three = DOMAIN two
      BY DEF SetOption
    <2> QED BY <1>4, <2>2, <2>3
  <1> HIDE DEF one, two, three
  <1>6. /\ \A name \in names : params'[name] = Defaults[name] /\ name \in DOMAIN params'
        /\ "c2" \in DOMAIN params' /\ params'["c2"] = [type |-> "float", val |-> config.c2]
        /\ DOMAIN params' = DOMAIN Defaults
    <2> HIDE DEF names
    <2> QED BY <1>1, <1>2, <1>3, <1>4, <1>5
  <1>7. (C2)' = config.c2
    BY <1>6 DEF C2, Option
  <1>8. /\ (InitialEta)' = Defaults["calibration.eta"].val
        /\ (Rate)' = Defaults["calibration.rate"].val
        /\ (SamplesAsked)' = Defaults["calibration.samples"].val
        /\ (Candidates)' = Defaults["calibration.candidates"].val
        /\ (MaxTrials)' = Defaults["calibration.max_trials"].val
    BY <1>6 DEF CalibrationAssumption, InitialEta, Rate, SamplesAsked, Candidates,
                MaxTrials, Option
  <1>9. /\ (C2)' \in Positive /\ (InitialEta)' \in Positive /\ (Rate)' \in Positive
    BY <1>7, <1>8, PositiveIs DEF CalibrationAssumption, OptionsKept
  <1>10. Less(One, (Rate)')
    BY <1>8 DEF CalibrationAssumption, IsPositive, Less, One, Whole
  <1>11. (CalibrationReads)'
    <2>1. (Less(One, Rate))'
      BY <1>10 DEF Less, One
    <2> QED BY <1>8, <1>9, <2>1 DEF CalibrationAssumption, CalibrationReads
  <1>12. config \in Configs
    BY DEF OptionsKept
  <1> QED BY <1>1, <1>6, <1>11, <1>12 DEF OptionsKept

LEMMA OptionsAreKept ==
  ASSUME OptionsAssumption, CalibrationAssumption, OptionsKept, [Next]_vars
  PROVE  OptionsKept'
  <1>1. CASE Configure
    BY <1>1, ConfigureReads
  <1>2. CASE ~Configure
    <2>1. UNCHANGED <<config, params>>
      BY <1>2 DEF Next, NoWeights, Calibrate, Update, EndTrial, StartTraining, NoBuffers,
                  Shuffle, Overflow, EndEpoch, Finish, Save, data, vars
    <2>2. pc' = "created" => pc = "created" /\ pf' = pf
      BY <1>2 DEF Next, NoWeights, Calibrate, Update, EndTrial, StartTraining, NoBuffers,
                  Shuffle, Overflow, EndEpoch, Finish, Save, data, vars
    <2>3. pc = "created" => pc' = "created"
      BY <1>2 DEF Next, NoWeights, Calibrate, Update, EndTrial, StartTraining, NoBuffers,
                  Shuffle, Overflow, EndEpoch, Finish, Save, data, vars
    <2> QED BY <2>1, <2>2, <2>3 DEF OptionsKept, CalibrationReads, C2, InitialEta, Rate,
                 SamplesAsked, Candidates, MaxTrials, Option, Less
  <1> QED BY <1>1, <1>2

\* The factors of an update
LEMMA LambdaPositive ==
  ASSUME TrainingAssumption, CalibrationReads
  PROVE  Lambda \in Positive
  <1>1. Frac(2, N) \in Positive
    <2>1. Ratio(Frac(2, N), 2, N) /\ N \in Nat \ {0} /\ 2 \in Int
      BY FracRatio DEF TrainingAssumption
    <2> QED BY <2>1, SignOf DEF Positive, Ratio
  <1> QED BY <1>1, PositiveLaws DEF Lambda, CalibrationReads

LEMMA FactorsAre ==
  ASSUME TrainingAssumption, CalibrationReads, t0 \in Positive, t \in Nat
  PROVE  Eta \in Positive /\ Shrink \in Rationals
  <1>1. Plus(t0, Whole(t)) \in Positive
    BY PositiveLaws
  <1>2. Eta \in Positive
    BY <1>1, LambdaPositive, Constants, PositiveLaws DEF Eta
  <1>3. Times(Eta, Lambda) \in Rationals /\ Whole(-1) \in Rationals
    BY <1>2, LambdaPositive, TimesLaws, Constants DEF Positive
  <1>4. Times(Whole(-1), Times(Eta, Lambda)) \in Rationals
    BY <1>3, TimesLaws
  <1>5. Shrink \in Rationals
    BY <1>4, Constants, PlusRatio DEF Shrink
  <1> QED BY <1>2, <1>5

LEMMA T0Positive ==
  ASSUME TrainingAssumption, CalibrationReads, NEW eta \in Positive
  PROVE  T0For(eta) \in Positive
  <1>1. Times(Lambda, eta) \in Positive
    BY LambdaPositive, PositiveLaws
  <1> QED BY <1>1, Constants, PositiveLaws DEF T0For

LEMMA NextRateIs ==
  ASSUME CalibrationReads, NEW c \in Calibrations, NEW loss \in Losses \cup {NotFinite}
  PROVE  NextRate(Better(c, loss), loss) \in Calibrations
  <1> DEFINE d == Better(c, loss)
  <1>1. d \in Calibrations
    BY DEF Better, Calibrations
  <1> HIDE DEF d
  <1>2. /\ Times(d.eta, Rate) \in Positive /\ Over(d.eta, Rate) \in Positive
        /\ Over(InitialEta, Rate) \in Positive /\ Candidates \in Int
    BY <1>1, PositiveLaws DEF CalibrationReads, Calibrations
  <1>3. d.num \in Int /\ d.num - 1 \in Int /\ d.trials + 1 \in Nat
    BY <1>1 DEF Calibrations
  <1>4. NextRate(d, loss) \in Calibrations
    BY <1>1, <1>2, <1>3 DEF NextRate, Calibrations
  <1> QED BY <1>4 DEF d

\* l2sgd() is entered with zero weights.
LEMMA EnterStep ==
  ASSUME TrainingAssumption, NEW rate0 \in Positive, Enter(rate0)
  PROVE  /\ t' \in Nat /\ i' \in 0..N /\ epoch' \in Nat
         /\ decay' \in Rationals /\ t0' \in Positive /\ t0' \in Rationals
         /\ eager' \in Rationals /\ w' \in Rationals
         /\ Times(decay', w') = eager'
  <1>1. Times(One, Zero) = Zero
    BY Constants, TimesLaws DEF Zero
  <1> QED BY <1>1, Constants DEF Enter, TrainingAssumption, Positive

LEMMA UpdateStep ==
  ASSUME TrainingAssumption, WeightsInv, OptionsKept',
         NEW g \in Gradients \cup {NotFinite}, Update(g)
  PROVE  WeightsInv'
  <1>1. /\ pc \in {"trial", "epoch"} /\ pc \in Running /\ pc # "created"
        /\ CalibrationReads /\ t0 \in Positive /\ Finite(w) /\ t \in Nat
        /\ decay \in Rationals
    BY DEF Update, WeightsInv, OptionsKept, Numbers, Counters, Running
  <1>2. /\ UNCHANGED <<config, params, pc, perm, t0, epoch, pf, best, cal, ret, saved>>
        /\ decay' = Times(decay, Shrink)
        /\ t' = t + 1 /\ i' = i + 1
    BY DEF Update, data
  <1>3. Eta \in Rationals /\ Shrink \in Rationals /\ decay' \in Rationals
    BY <1>1, <1>2, FactorsAre, TimesLaws DEF Positive
  <1>4. i' \in 0..N /\ t' \in Nat
    <2>1. CASE pc = "trial"
      <3>1. i < Samples /\ i \in 0..N /\ N \in Nat /\ SamplesAsked \in Nat
        BY <1>1, <2>1 DEF Update, WeightsInv, Counters, CalibrationReads, TrainingAssumption
      <3>2. i < N
        BY <3>1 DEF Samples, Least, SamplesAsked
      <3> QED BY <1>1, <1>2, <3>1, <3>2
    <2>2. CASE pc = "epoch"
      <3>1. i < N /\ i \in 0..N /\ N \in Nat
        BY <2>2 DEF Update, WeightsInv, Counters, TrainingAssumption
      <3> QED BY <1>1, <1>2, <3>1
    <2> QED BY <1>1, <2>1, <2>2
  <1>5. CASE NotFinite \in {w, g} \/ decay' = Zero
    <2>1. w' = NotFinite /\ eager' = Zero
      BY <1>5 DEF Update
    <2>2. Numbers'
      BY <1>2, <1>3, <2>1, Constants DEF WeightsInv, Numbers, Finite, Weight
    <2>3. LazyIsEager'
      BY <2>1 DEF LazyIsEager
    <2>4. Counters'
      BY <1>2, <1>4 DEF WeightsInv, Counters, Period, Option
    <2> QED BY <2>2, <2>3, <2>4 DEF WeightsInv
  <1>6. CASE ~(NotFinite \in {w, g} \/ decay' = Zero)
    <2>1. /\ w \in Rationals /\ Whole(g) \in Rationals /\ decay' # Zero
          /\ eager \in Rationals /\ Times(decay, w) = eager
      <3>1. g \in Int
        BY <1>6 DEF TrainingAssumption
      <3> QED BY <1>1, <1>6, <3>1, Constants DEF Finite, WeightsInv, LazyIsEager, Numbers
    <2> DEFINE new == Plus(w, Times(Over(Eta, Times(decay, Shrink)), Whole(g)))
               now == Plus(Times(Shrink, eager), Times(Eta, Whole(g)))
    <2>2. /\ w' = new
          /\ eager' = IF w' = NotFinite THEN Zero ELSE now
      BY <1>2, <1>6 DEF Update, Gain
    <2>3. Times(Times(decay, Shrink), new) = now
      BY <1>1, <1>2, <1>3, <2>1, LazyStep
    <2>4. new \in Rationals
      <3>1. Over(Eta, Times(decay, Shrink)) \in Rationals
        BY <1>2, <1>3, <2>1, OverUndoes DEF Zero
      <3>2. Times(Over(Eta, Times(decay, Shrink)), Whole(g)) \in Rationals
        BY <2>1, <3>1, TimesLaws
      <3> QED BY <2>1, <3>2, PlusRatio
    <2>5. now \in Rationals
      <3>1. Times(Shrink, eager) \in Rationals /\ Times(Eta, Whole(g)) \in Rationals
        BY <1>3, <2>1, TimesLaws
      <3> QED BY <3>1, PlusRatio
    <2> HIDE DEF new, now
    <2>6. Numbers'
      BY <1>2, <1>3, <2>2, <2>4, <2>5, Constants DEF WeightsInv, Numbers, Finite, Weight
    <2>7. LazyIsEager'
      BY <1>2, <2>2, <2>3 DEF LazyIsEager
    <2>8. Counters'
      BY <1>2, <1>4 DEF WeightsInv, Counters, Period, Option
    <2> QED BY <2>6, <2>7, <2>8 DEF WeightsInv
  <1> QED BY <1>5, <1>6

LEMMA EndTrialStep ==
  ASSUME TrainingAssumption, WeightsInv, OptionsKept',
         NEW loss \in Losses \cup {NotFinite}, EndTrial(loss)
  PROVE  WeightsInv'
  <1>1. /\ pc = "trial" /\ CalibrationReads /\ cal \in Calibrations /\ Finite(w)
        /\ decay \in Rationals
    BY DEF EndTrial, WeightsInv, OptionsKept, Numbers, Running
  <1>2. /\ cal' = NextRate(Better(cal, loss), loss)
        /\ UNCHANGED <<config, params, perm, pf, best, ret, saved>>
    BY DEF EndTrial, data
  <1>3. cal' \in Calibrations /\ cal'.eta \in Positive /\ cal'.bestEta \in Positive
    <2>1. cal' \in Calibrations
      BY <1>1, <1>2, NextRateIs
    <2> QED BY <2>1 DEF Calibrations
  <1>4. CASE Calibrated(cal')
    <2>1. /\ t0' = T0For(cal'.bestEta) /\ pc' = "calibrated"
          /\ w' = (IF w = NotFinite THEN w ELSE Times(w, decay))
          /\ UNCHANGED <<t, i, epoch, decay, eager>>
      BY <1>4 DEF EndTrial
    <2>2. t0' \in Positive /\ t0' \in Rationals
      BY <1>1, <1>3, <2>1, T0Positive DEF Positive
    <2>3. Finite(w')
      BY <1>1, <2>1, TimesLaws DEF Finite
    <2>4. Numbers'
      BY <1>2, <1>3, <2>1, <2>2, <2>3 DEF WeightsInv, Numbers, Finite, Weight
    <2>5. Counters' /\ LazyIsEager'
      BY <1>2, <2>1 DEF WeightsInv, Counters, LazyIsEager, Period, Option
    <2> QED BY <2>4, <2>5 DEF WeightsInv
  <1>5. CASE ~Calibrated(cal')
    <2>1. Enter(T0For(cal'.eta)) /\ pc' = "trial"
      BY <1>1, <1>5 DEF EndTrial
    <2>2. T0For(cal'.eta) \in Positive
      BY <1>1, <1>3, T0Positive
    <2>3. /\ t' \in Nat /\ i' \in 0..N /\ epoch' \in Nat
          /\ decay' \in Rationals /\ t0' \in Positive /\ t0' \in Rationals
          /\ eager' \in Rationals /\ w' \in Rationals
          /\ Times(decay', w') = eager'
      BY <2>1, <2>2, EnterStep
    <2>4. Numbers' /\ LazyIsEager'
      BY <1>2, <1>3, <2>1, <2>3 DEF WeightsInv, Numbers, LazyIsEager, Finite, Weight
    <2>5. Counters'
      BY <1>2, <2>3 DEF WeightsInv, Counters, Period, Option
    <2> QED BY <2>4, <2>5 DEF WeightsInv
  <1> QED BY <1>4, <1>5

LEMMA EndEpochNumbers ==
  ASSUME TrainingAssumption, WeightsInv, OptionsKept',
         NEW sum \in Losses \cup {NotFinite}, EndEpoch(sum)
  PROVE  WeightsInv'
  <1>1. /\ pc = "epoch" /\ Finite(w) /\ decay \in Rationals /\ t0 \in Positive
        /\ Finite(best.w) /\ epoch \in Nat
        /\ eager \in Rationals
        /\ w # NotFinite => Times(decay, w) = eager
    BY DEF EndEpoch, WeightsInv, Numbers, Counters, Running, LazyIsEager
  <1>2. /\ UNCHANGED <<config, params, perm, t0, t, i, cal, ret, saved, eager>>
        /\ w' = IF w = NotFinite THEN w ELSE Times(w, decay)
        /\ decay' = One /\ pc' \in {"ended", "shuffle"}
        /\ best' = IF Improves(sum, best.sum) THEN [sum |-> sum, w |-> w'] ELSE best
        /\ pf' = [pf EXCEPT ![Slot(epoch)] = sum]
        /\ epoch' \in {epoch, epoch + 1}
    BY DEF EndEpoch, data
  <1>3. Finite(w')
    BY <1>1, <1>2, TimesLaws DEF Finite
  <1>4. Finite(best'.w)
    BY <1>1, <1>2, <1>3
  <1>5. LazyIsEager'
    <2>1. ASSUME w' # NotFinite PROVE Times(One, w') = eager
      <3>1. w \in Rationals /\ w' = Times(w, decay) /\ Times(decay, w) = eager
        BY <1>1, <1>2, <2>1 DEF Finite
      <3>2. w' = eager
        BY <1>1, <3>1, TimesLaws
      <3> QED BY <1>1, <3>2, TimesLaws DEF One
    <2> QED BY <1>2, <2>1 DEF LazyIsEager
  <1>6. Numbers'
    BY <1>1, <1>2, <1>3, <1>4, Constants DEF WeightsInv, Numbers, Finite, Weight
  <1>7. Counters'
    <2>1. DOMAIN pf' = DOMAIN pf /\ (pf' # <<>> => pf # <<>>)
      <3>1. DOMAIN pf' = DOMAIN pf
        BY <1>2
      <3>2. pf = <<>> => pf' = <<>>
        BY <1>2
      <3> QED BY <3>1, <3>2
    <2>2. epoch' \in Nat
      BY <1>1, <1>2
    <2> QED BY <1>2, <2>1, <2>2 DEF WeightsInv, Counters, Period, Option
  <1> QED BY <1>5, <1>6, <1>7 DEF WeightsInv

\* Where only the place in the program changes
LEMMA NumbersStay ==
  ASSUME WeightsInv, OptionsKept',
         UNCHANGED <<t0, t, epoch, decay, pf, saved, eager, params>>,
         perm' \in Orders, i' \in 0..N,
         ret' \in {"ok", "out of memory", "overflow"},
         \/ w' = w /\ best' = best /\ cal' = cal /\ pc' = pc
         \/ w' = w /\ best' = best /\ pc \in {"shuffle"} /\ pc' = "epoch"
         \/ Weight(w') /\ pc' \in {"save", "done", "crashed", "configured"}
  PROVE  WeightsInv'
  <1>1. Counters'
    BY DEF WeightsInv, Counters, Period, Option
  <1>2. Numbers'
    BY DEF WeightsInv, Numbers, Running
  <1>3. LazyIsEager'
    BY DEF WeightsInv, LazyIsEager
  <1> QED BY <1>1, <1>2, <1>3 DEF WeightsInv


LEMMA NumbersInit ==
  ASSUME TrainingAssumption, Init PROVE WeightsInv
  <1>1. perm \in Orders
    <2>1. perm \in [1..N -> 1..N] /\ DOMAIN perm = 1..N /\ \A k \in 1..N : perm[k] = k
      BY DEF Init
    <2>2. ToSet(perm) = 1..N
      BY <2>1 DEF ToSet
    <2> QED BY <2>1, <2>2 DEF Orders
  <1>2. Counters
    BY <1>1 DEF Init, Counters, TrainingAssumption
  <1>3. Numbers
    BY Constants DEF Init, Numbers, Running, Weight
  <1>4. OptionsKept /\ LazyIsEager
    BY DEF Init, OptionsKept, LazyIsEager
  <1> QED BY <1>2, <1>3, <1>4 DEF WeightsInv

LEMMA StepKeepsWeightsInv ==
  ASSUME TrainingAssumption, OptionsAssumption, CalibrationAssumption,
         WeightsInv, [Next]_vars
  PROVE  WeightsInv'
  <1>1. OptionsKept'
    BY OptionsAreKept DEF WeightsInv
  <1>2. /\ perm \in Orders /\ i \in 0..N /\ ret \in {"ok", "out of memory", "overflow"}
        /\ Weight(w) /\ 0 \in 0..N
    <2>1. N \in Nat
      BY DEF TrainingAssumption
    <2>2. 0 \in 0..N
      BY <2>1
    <2> QED BY <2>2 DEF WeightsInv, Counters, Numbers
  <1>3. CASE UNCHANGED vars
    BY <1>1, <1>2, <1>3, NumbersStay DEF vars, data, history
  <1>4. CASE Configure
    <2>1. WeightsInv'
      <3>1. pf = <<>> /\ pf' = pf
        BY <1>4 DEF Configure, WeightsInv, OptionsKept
      <3>2. Counters'
        BY <1>4, <3>1 DEF Configure, WeightsInv, Counters
      <3>3. Numbers' /\ LazyIsEager'
        BY <1>4 DEF Configure, WeightsInv, Numbers, Running, LazyIsEager
      <3> QED BY <1>1, <3>2, <3>3 DEF WeightsInv
    <2> QED BY <2>1
  <1>5. CASE NoWeights \/ NoBuffers \/ Overflow
    <2>1. /\ UNCHANGED <<t0, t, epoch, decay, pf, saved, eager, params, perm, i, w>>
          /\ ret' \in {"ok", "out of memory", "overflow"} /\ pc' = "save"
      BY <1>5 DEF NoWeights, NoBuffers, Overflow, data, history
    <2> QED BY <1>1, <1>2, <2>1, NumbersStay
  <1>6. ASSUME NEW loss \in Losses, NEW order \in Shuffles(perm), Calibrate(loss, order)
        PROVE  WeightsInv'
    <2>1. /\ pc = "configured" /\ pc' = "trial" /\ perm' = order
          /\ UNCHANGED <<config, params, pf, best, ret, saved>>
          /\ cal' = [num |-> Candidates, dec |-> FALSE, trials |-> 1, eta |-> InitialEta,
                     bestLoss |-> NotFinite, bestEta |-> InitialEta, initLoss |-> loss]
          /\ Enter(T0For(InitialEta))
      BY <1>6 DEF Calibrate, data
    <2>2. CalibrationReads
      BY <2>1 DEF WeightsInv, OptionsKept
    <2>3. cal' \in Calibrations
      BY <2>1, <2>2 DEF Calibrations, CalibrationReads
    <2>4. T0For(InitialEta) \in Positive
      BY <2>2, T0Positive DEF CalibrationReads
    <2>5. /\ t' \in Nat /\ i' \in 0..N /\ epoch' \in Nat
          /\ decay' \in Rationals /\ t0' \in Positive /\ t0' \in Rationals
          /\ eager' \in Rationals /\ w' \in Rationals
          /\ Times(decay', w') = eager'
      BY <2>1, <2>4, EnterStep
    <2>6. Numbers' /\ LazyIsEager'
      BY <2>1, <2>3, <2>5 DEF WeightsInv, Numbers, LazyIsEager, Finite, Weight
    <2>7. perm' \in Orders
      BY <1>2, <2>1, ShufflesAreOrders
    <2>8. Counters'
      BY <2>1, <2>5, <2>7 DEF WeightsInv, Counters, Period, Option
    <2> QED BY <1>1, <2>6, <2>8 DEF WeightsInv
  <1>7. ASSUME NEW g \in Gradients \cup {NotFinite}, Update(g)
        PROVE  WeightsInv'
    BY <1>1, <1>7, UpdateStep
  <1>8. ASSUME NEW loss \in Losses \cup {NotFinite}, EndTrial(loss)
        PROVE  WeightsInv'
    BY <1>1, <1>8, EndTrialStep
  <1>9. CASE StartTraining
    <2>1. /\ pc = "calibrated" /\ pc' = "shuffle"
          /\ UNCHANGED <<config, params, perm, ret, saved>>
          /\ pf' = [k \in 0..(Period - 1) |-> Null]
          /\ best' = [sum |-> NotFinite, w |-> Zero]
          /\ Enter(t0)
      BY <1>9 DEF StartTraining, data
    <2>2. t0 \in Positive
      BY <2>1 DEF WeightsInv, Numbers, Running
    <2>3. /\ t' \in Nat /\ i' \in 0..N /\ epoch' \in Nat
          /\ decay' \in Rationals /\ t0' \in Positive /\ t0' \in Rationals
          /\ eager' \in Rationals /\ w' \in Rationals
          /\ Times(decay', w') = eager'
      BY <2>1, <2>2, EnterStep
    <2>4. Numbers' /\ LazyIsEager'
      BY <2>1, <2>3, Constants DEF WeightsInv, Numbers, LazyIsEager, Finite, Weight
    <2>5. Counters'
      BY <1>2, <2>1, <2>3 DEF WeightsInv, Counters, Period, Option
    <2> QED BY <1>1, <2>4, <2>5 DEF WeightsInv
  <1>10. ASSUME NEW order \in Shuffles(perm), Shuffle(order)
         PROVE  WeightsInv'
    <2>1. /\ pc = "shuffle" /\ pc' = "epoch" /\ perm' = order /\ i' = 0
          /\ UNCHANGED <<t0, t, epoch, decay, pf, saved, eager, params, w, best, ret>>
      BY <1>10 DEF Shuffle, data
    <2>2. perm' \in Orders
      BY <1>2, <2>1, ShufflesAreOrders
    <2> QED BY <1>1, <1>2, <2>1, <2>2, NumbersStay
  <1>11. ASSUME NEW sum \in Losses \cup {NotFinite}, EndEpoch(sum)
         PROVE  WeightsInv'
    BY <1>1, <1>11, EndEpochNumbers
  <1>12. CASE Finish
    <2>1. /\ pc \in {"ended", "shuffle"} /\ pc' = "save" /\ w' = best.w
          /\ UNCHANGED <<t0, t, epoch, decay, pf, saved, eager, params, perm, i, ret>>
      BY <1>12 DEF Finish, Restore, data
    <2>2. Weight(w')
      BY <2>1 DEF WeightsInv, Numbers, Finite, Weight
    <2> QED BY <1>1, <1>2, <2>1, <2>2, NumbersStay
  <1>13. CASE Save
    <2>1. /\ pc' \in {"crashed", "done"} /\ saved' = w
          /\ UNCHANGED <<t0, t, epoch, decay, pf, w, eager, params, perm, i, ret>>
      BY <1>13 DEF Save, data
    <2>2. Numbers' /\ LazyIsEager'
      BY <1>2, <2>1 DEF WeightsInv, Numbers, Running, LazyIsEager
    <2>3. Counters'
      BY <2>1 DEF WeightsInv, Counters, Period, Option
    <2> QED BY <1>1, <2>2, <2>3 DEF WeightsInv
  <1> QED BY <1>3, <1>4, <1>5, <1>6, <1>7, <1>8, <1>9, <1>10, <1>11, <1>12, <1>13 DEF Next

\* The counters, the scaled weights and the options stay what the algorithm
\* needs: the invariant of all of l2sgd() and l2sgd_calibrate().
THEOREM WeightsInvariant == Spec => []WeightsInv
  <1>1. Init => WeightsInv
    BY NumbersInit, TrainingAssumption
  <1>2. WeightsInv /\ [Next]_vars => WeightsInv'
    BY StepKeepsWeightsInv, TrainingAssumption, OptionsAssumption, CalibrationAssumption
  <1> QED BY <1>1, <1>2, PTL DEF Spec

\* The types of the state: above all, the order of the instances is always one
\* of all instances (dataset_shuffle()). Weights, while they are finite, the
\* decay and t0 are fractions; that the decay differs from zero is not said, and
\* not so (c2 and a learning rate of 1 make it zero).
THEOREM TypeOKAlways == Spec => []TypeOK
  <1>1. ASSUME WeightsInv PROVE TypeOK
    <2>1. \A x \in Rationals : IsFraction(x)
      BY RationalIs DEF IsFraction
    <2>2. IsWeight(w) /\ IsWeight(saved) /\ IsFraction(decay) /\ IsFraction(t0)
      BY <1>1, <2>1 DEF WeightsInv, Numbers, IsWeight, Weight
    <2> QED BY <1>1, <2>2 DEF TypeOK, WeightsInv, OptionsKept, Counters, Orders
  <1>2. WeightsInv => TypeOK
    BY <1>1
  <1> QED BY <1>2, WeightsInvariant, PTL

\* Scaling late is scaling at once, whatever the gradients, the number of
\* instances, the regularization and the rates are (l2sgd()).
THEOREM LazyIsEagerAlways == Spec => []LazyIsEager
  <1>1. WeightsInv => LazyIsEager
    BY DEF WeightsInv
  <1> QED BY <1>1, WeightsInvariant, PTL

-----------------------------------------------------------------------------
(* The learning rates that are tried: up from the first one by a factor,   *)
(* then down from it                                                       *)

LEMMA LessLaws ==
  ASSUME NEW x \in Positive, NEW y \in Positive, NEW z \in Positive
  PROVE  /\ Less(x, y) /\ Less(y, z) => Less(x, z)
         /\ Less(x, y) => ~Less(y, x) /\ x # y
  <1>1. PICK a \in Nat \ {0}, b \in Nat \ {0} : a = x[1] /\ b = x[2]
    BY RationalIs DEF Positive
  <1>2. PICK c \in Nat \ {0}, d \in Nat \ {0} : c = y[1] /\ d = y[2]
    BY RationalIs DEF Positive
  <1>3. PICK e \in Nat \ {0}, f \in Nat \ {0} : e = z[1] /\ f = z[2]
    BY RationalIs DEF Positive
  <1>4. ASSUME a * d < c * b, c * f < e * d PROVE a * f < e * b
    <2> SUFFICES ASSUME e * b <= a * f PROVE FALSE
      OBVIOUS
    <2>1. (a * d) * f < (c * b) * f
      BY <1>4
    <2>2. (c * f) * b < (e * d) * b
      BY <1>4
    <2>3. (e * b) * d <= (a * f) * d
      OBVIOUS
    <2> QED BY <2>1, <2>2, <2>3
  <1>5. a * d < c * b => ~(c * b < a * d)
    OBVIOUS
  <1>6. Less(x, y) => x # y
    <2>1. x = y => a = c /\ b = d
      BY <1>1, <1>2
    <2>2. a = c /\ b = d => ~(a * d < c * b)
      OBVIOUS
    <2> QED BY <1>1, <1>2, <2>1, <2>2 DEF Less
  <1> QED BY <1>1, <1>2, <1>3, <1>4, <1>5, <1>6 DEF Less

LEMMA LessScales ==
  ASSUME NEW x \in Positive, NEW r \in Positive, Less(One, r)
  PROVE  Less(x, Times(x, r)) /\ Less(Over(x, r), x)
  <1>1. PICK a \in Nat \ {0}, b \in Nat \ {0} : a = x[1] /\ b = x[2]
    BY RationalIs DEF Positive
  <1>2. PICK c \in Nat \ {0}, d \in Nat \ {0} : c = r[1] /\ d = r[2]
    BY RationalIs DEF Positive
  <1>3. d < c
    BY <1>2 DEF Less, One, Whole
  <1>4. Less(x, Times(x, r))
    <2>1. Times(x, r) \in Positive
      BY PositiveLaws
    <2>2. PICK p \in Nat \ {0}, q \in Nat \ {0} :
            p = Times(x, r)[1] /\ q = Times(x, r)[2] /\ p * (b * d) = (a * c) * q
      <3>1. Ratio(Times(x, r), a * c, b * d)
        BY <1>1, <1>2, TimesRatio DEF Positive
      <3> QED BY <2>1, <3>1, RationalIs DEF Ratio, Positive
    <2>3. a * q < p * b
      <3> SUFFICES ASSUME p * b <= a * q PROVE FALSE
        OBVIOUS
      <3>1. (p * b) * d <= (a * q) * d
        OBVIOUS
      <3>2. (a * q) * d < (a * q) * c
        BY <1>3
      <3> QED BY <2>2, <3>1, <3>2
    <2> QED BY <1>1, <2>2, <2>3 DEF Less
  <1>5. Less(Over(x, r), x)
    <2>1. Over(x, r) \in Positive
      BY PositiveLaws
    <2>2. PICK p \in Nat \ {0}, q \in Nat \ {0} :
            p = Over(x, r)[1] /\ q = Over(x, r)[2] /\ p * (b * c) = (a * d) * q
      <3>1. Ratio(Over(x, r), a * d, b * c)
        BY <1>1, <1>2, OverRatio DEF Positive
      <3> QED BY <2>1, <3>1, RationalIs DEF Ratio, Positive
    <2>3. p * b < a * q
      <3> SUFFICES ASSUME a * q <= p * b PROVE FALSE
        OBVIOUS
      <3>1. (a * q) * c <= (p * b) * c
        OBVIOUS
      <3>2. (a * q) * d < (a * q) * c
        BY <1>3
      <3> QED BY <2>2, <3>1, <3>2
    <2> QED BY <1>1, <2>2, <2>3 DEF Less
  <1> QED BY <1>4, <1>5

\* E are n rates and the next one; the first u of them go up.
Ladder(E, n, u, eta, rate) ==
    /\ E \in [1..(n + 1) -> Positive] /\ u \in 1..(n + 1)
    /\ E[1] = eta
    /\ \A k \in 1..n : E[k + 1] = IF k < u THEN Times(E[k], rate)
                                  ELSE IF k = u THEN Over(eta, rate) ELSE Over(E[k], rate)

LEMMA LadderOrder ==
  ASSUME NEW n \in Nat, NEW u, NEW E, NEW eta, NEW rate \in Positive, Less(One, rate),
         Ladder(E, n, u, eta, rate)
  PROVE  /\ \A j \in 1..u : \A k \in 1..(j - 1) : Less(E[k], E[j])
         /\ \A j \in (u + 1)..(n + 1) :
                /\ Less(E[j], eta)
                /\ \A k \in (u + 1)..(j - 1) : Less(E[j], E[k])
  <1>1. /\ \A k \in 1..(n + 1) : E[k] \in Positive
        /\ u \in 1..(n + 1) /\ u \in Nat /\ eta \in Positive
    BY DEF Ladder
  <1> DEFINE Up(j) == \A k \in 1..(j - 1) : Less(E[k], E[j])
             U == {d \in Nat : d \in 1..u => Up(d)}
  <1>2. 0 \in U
    OBVIOUS
  <1>3. ASSUME NEW d \in Nat, d \in U PROVE d + 1 \in U
    <2>1. ASSUME d + 1 \in 1..u, NEW k \in 1..d PROVE Less(E[k], E[d + 1])
      <3>1. d \in 1..n /\ d < u /\ d \in 1..u /\ d + 1 \in 1..(n + 1)
            /\ d \in 1..(n + 1) /\ k \in 1..(n + 1)
        BY <1>1, <2>1
      <3>2. Less(E[d], E[d + 1])
        <4>1. E[d + 1] = Times(E[d], rate)
          BY <3>1 DEF Ladder
        <4> QED BY <1>1, <3>1, <4>1, LessScales
      <3>3. CASE k = d
        BY <3>2, <3>3
      <3>4. CASE k # d
        <4>1. Less(E[k], E[d])
          <5>1. k \in 1..(d - 1)
            BY <3>4
          <5> QED BY <1>3, <3>1, <5>1
        <4> QED BY <1>1, <3>1, <3>2, <4>1, LessLaws
      <3> QED BY <3>3, <3>4
    <2>2. (d + 1) - 1 = d
      OBVIOUS
    <2> QED BY <2>1, <2>2
  <1>4. Nat \subseteq U
    <2> HIDE DEF U
    <2> QED BY <1>2, <1>3, Induction
  <1> DEFINE Down(j) == Less(E[j], eta) /\ \A k \in (u + 1)..(j - 1) : Less(E[j], E[k])
             D == {d \in Nat : d \in (u + 1)..(n + 1) => Down(d)}
  <1>5. 0 \in D
    BY <1>1
  <1>6. ASSUME NEW d \in Nat, d \in D PROVE d + 1 \in D
    <2> SUFFICES ASSUME d + 1 \in (u + 1)..(n + 1) PROVE Down(d + 1)
      OBVIOUS
    <2>1. d \in 1..n /\ d >= u /\ d \in 1..(n + 1) /\ d + 1 \in 1..(n + 1) /\ (d + 1) - 1 = d
      BY <1>1
    <2>2. CASE d = u
      <3>1. E[d + 1] = Over(eta, rate)
        BY <2>1, <2>2 DEF Ladder
      <3>2. Less(E[d + 1], eta)
        BY <1>1, <3>1, LessScales
      <3>3. (u + 1)..((d + 1) - 1) = {}
        BY <1>1, <2>2
      <3> QED BY <3>2, <3>3
    <2>3. CASE d # u
      <3>1. d > u /\ d \in (u + 1)..(n + 1)
        BY <1>1, <2>1, <2>3
      <3>2. E[d + 1] = Over(E[d], rate)
        BY <1>1, <2>1, <3>1 DEF Ladder
      <3>3. Less(E[d + 1], E[d]) /\ E[d] \in Positive /\ E[d + 1] \in Positive
        BY <1>1, <2>1, <3>2, LessScales
      <3>4. Down(d)
        BY <1>6, <3>1
      <3>5. Less(E[d + 1], eta)
        BY <1>1, <3>3, <3>4, LessLaws
      <3>6. ASSUME NEW k \in (u + 1)..d PROVE Less(E[d + 1], E[k])
        <4>1. CASE k = d
          BY <3>3, <4>1
        <4>2. CASE k # d
          <5>1. k \in (u + 1)..(d - 1) /\ k \in 1..(n + 1)
            BY <1>1, <2>1, <4>2
          <5> QED BY <1>1, <3>3, <3>4, <5>1, LessLaws
        <4> QED BY <4>1, <4>2
      <3> QED BY <2>1, <3>5, <3>6
    <2> QED BY <2>2, <2>3
  <1>7. Nat \subseteq D
    <2> HIDE DEF D
    <2> QED BY <1>5, <1>6, Induction
  <1>8. ASSUME NEW j \in 1..u PROVE Up(j)
    <2>1. j \in Nat
      OBVIOUS
    <2> QED BY <1>4, <2>1
  <1>9. ASSUME NEW j \in (u + 1)..(n + 1) PROVE Down(j)
    <2>1. j \in Nat
      BY <1>1
    <2> QED BY <1>7, <2>1
  <1> QED BY <1>8, <1>9

\* The rates differ, and those above the first one and below it are unbroken.
LEMMA LadderIsRange ==
  ASSUME NEW n \in Nat, NEW u, NEW E, NEW eta, NEW rate \in Positive, Less(One, rate),
         Ladder(E, n, u, eta, rate)
  PROVE  /\ \A j, k \in 1..n : j # k => E[j] # E[k]
         /\ \A j \in 1..n : E[j] # eta =>
                IF Less(eta, E[j]) THEN \E k \in 1..n : E[k] = Over(E[j], rate)
                ELSE \/ E[j] = Over(eta, rate)
                     \/ \E k \in 1..n : E[k] = Times(E[j], rate)
  <1>1. /\ \A k \in 1..(n + 1) : E[k] \in Positive
        /\ u \in 1..(n + 1) /\ u \in Nat /\ eta \in Positive /\ E[1] = eta
    BY DEF Ladder
  <1>2. \A j \in 1..u : \A k \in 1..(j - 1) : Less(E[k], E[j])
    BY LadderOrder
  <1>3. \A j \in (u + 1)..(n + 1) :
                /\ Less(E[j], eta)
                /\ \A k \in (u + 1)..(j - 1) : Less(E[j], E[k])
    BY LadderOrder
  <1>4. ASSUME NEW j \in 1..n, NEW k \in 1..n, k < j PROVE E[j] # E[k]
    <2>1. E[j] \in Positive /\ E[k] \in Positive
      BY <1>1
    <2>2. CASE j <= u
      <3>1. Less(E[k], E[j])
        <4>1. j \in 1..u /\ k \in 1..(j - 1)
          BY <1>1, <1>4, <2>2
        <4> QED BY <1>2, <4>1
      <3> QED BY <2>1, <3>1, LessLaws
    <2>3. CASE ~(j <= u) /\ k > u
      <3>1. Less(E[j], E[k])
        <4>1. j \in (u + 1)..(n + 1) /\ k \in (u + 1)..(j - 1)
          BY <1>1, <1>4, <2>3
        <4> QED BY <1>3, <4>1
      <3> QED BY <2>1, <3>1, LessLaws
    <2>4. CASE ~(j <= u) /\ ~(k > u)
      <3>1. Less(E[j], eta)
        <4>1. j \in (u + 1)..(n + 1)
          BY <1>1, <2>4
        <4> QED BY <1>3, <4>1
      <3>2. k = 1 \/ Less(eta, E[k])
        <4>1. k # 1 => 1 \in 1..(k - 1) /\ k \in 1..u
          BY <1>1, <2>4
        <4> QED BY <1>1, <1>2, <4>1
      <3>3. CASE k = 1
        BY <1>1, <2>1, <3>1, <3>3, LessLaws
      <3>4. CASE Less(eta, E[k])
        <4>1. Less(E[j], E[k])
          BY <1>1, <2>1, <3>1, <3>4, LessLaws
        <4> QED BY <2>1, <4>1, LessLaws
      <3> QED BY <3>2, <3>3, <3>4
    <2> QED BY <2>2, <2>3, <2>4
  <1>5. \A j, k \in 1..n : j # k => E[j] # E[k]
    <2>1. ASSUME NEW j \in 1..n, NEW k \in 1..n, j # k PROVE E[j] # E[k]
      <3>1. k < j \/ j < k
        BY <2>1
      <3> QED BY <1>4, <3>1
    <2> QED BY <2>1
  <1>6. ASSUME NEW j \in 1..n, E[j] # eta
        PROVE  IF Less(eta, E[j]) THEN \E k \in 1..n : E[k] = Over(E[j], rate)
               ELSE \/ E[j] = Over(eta, rate)
                    \/ \E k \in 1..n : E[k] = Times(E[j], rate)
    <2>1. /\ j # 1 /\ j - 1 \in 1..n /\ (j - 1) + 1 = j
          /\ j - 1 \in 1..(n + 1) /\ j \in 1..(n + 1)
      BY <1>1, <1>6
    <2>2. E[j] = IF j - 1 < u THEN Times(E[j - 1], rate)
                 ELSE IF j - 1 = u THEN Over(eta, rate) ELSE Over(E[j - 1], rate)
      BY <2>1 DEF Ladder
    <2>3. E[j - 1] \in Rationals /\ rate \in Rationals /\ rate # Whole(0)
          /\ E[j] \in Positive
      BY <1>1, <2>1, PositiveLaws DEF Positive
    <2>4. CASE j - 1 < u
      <3>1. Less(eta, E[j])
        <4>1. j \in 1..u /\ 1 \in 1..(j - 1)
          BY <1>1, <2>1, <2>4
        <4> QED BY <1>1, <1>2, <4>1
      <3>2. E[j - 1] = Over(E[j], rate)
        BY <2>2, <2>3, <2>4, OverUndoes
      <3> QED BY <2>1, <3>1, <3>2
    <2>5. CASE ~(j - 1 < u)
      <3>1. ~Less(eta, E[j])
        <4>1. j \in (u + 1)..(n + 1)
          BY <1>1, <2>1, <2>5
        <4>2. Less(E[j], eta)
          BY <1>3, <4>1
        <4> QED BY <1>1, <2>3, <4>2, LessLaws
      <3>2. CASE j - 1 = u
        BY <2>2, <2>5, <3>1, <3>2
      <3>3. CASE j - 1 # u
        <4>1. E[j] = Over(E[j - 1], rate)
          BY <2>2, <2>5, <3>3
        <4>2. Times(E[j], rate) = E[j - 1]
          BY <2>3, <4>1, OverUndoes
        <4> QED BY <2>1, <3>1, <4>2
      <3> QED BY <3>2, <3>3
    <2> QED BY <2>4, <2>5
  <1> QED BY <1>5, <1>6

\* After one more trial, with the next rate
LEMMA LadderGrows ==
  ASSUME NEW n \in Nat, NEW u \in Nat, NEW E, NEW eta, NEW rate, Ladder(E, n, u, eta, rate),
         NEW next \in Positive,
         NEW F, F = [k \in 1..(n + 2) |-> IF k <= n + 1 THEN E[k] ELSE next],
         NEW v \in Nat,
         \/ u <= n /\ v = u /\ next = Over(E[n + 1], rate)
         \/ u = n + 1 /\ v = n + 2 /\ next = Times(E[n + 1], rate)
         \/ u = n + 1 /\ v = n + 1 /\ next = Over(eta, rate)
  PROVE  Ladder(F, n + 1, v, eta, rate)
  <1>1. /\ \A k \in 1..(n + 1) : E[k] \in Positive
        /\ u \in 1..(n + 1) /\ E[1] = eta
        /\ \A k \in 1..n : E[k + 1] = IF k < u THEN Times(E[k], rate)
                 ELSE IF k = u THEN Over(eta, rate) ELSE Over(E[k], rate)
    BY DEF Ladder
  <1>2. /\ (n + 1) + 1 = n + 2 /\ 1 \in 1..(n + 1) /\ v \in 1..(n + 2)
        /\ n + 1 \in 1..(n + 1) /\ n + 2 \in 1..(n + 2) /\ ~(n + 2 <= n + 1)
    BY <1>1
  <1>3. /\ \A k \in 1..(n + 1) : F[k] = E[k]
        /\ F[n + 2] = next
        /\ F \in [1..(n + 2) -> Positive]
    <2>1. ASSUME NEW k \in 1..(n + 1) PROVE F[k] = E[k]
      <3>1. k \in 1..(n + 2) /\ k <= n + 1
        OBVIOUS
      <3> QED BY <3>1
    <2>2. F[n + 2] = next
      BY <1>2
    <2>3. ASSUME NEW k \in 1..(n + 2) PROVE F[k] \in Positive
      <3>1. k = n + 2 \/ k \in 1..(n + 1)
        OBVIOUS
      <3> QED BY <1>1, <2>1, <2>2, <3>1
    <2> QED BY <2>1, <2>2, <2>3
  <1>4. ASSUME NEW k \in 1..(n + 1)
        PROVE  F[k + 1] = IF k < v THEN Times(F[k], rate)
                          ELSE IF k = v THEN Over(eta, rate) ELSE Over(F[k], rate)
    <2>1. CASE k = n + 1
      <3>1. k + 1 = n + 2 /\ F[k] = E[n + 1] /\ F[k + 1] = next
        BY <1>2, <1>3, <2>1
      <3> QED BY <1>1, <2>1, <3>1
    <2>2. CASE k # n + 1
      <3>1. k \in 1..n /\ k + 1 \in 1..(n + 1)
        BY <2>2
      <3>2. F[k + 1] = E[k + 1] /\ F[k] = E[k]
        BY <1>3, <3>1
      <3>3. (k < v <=> k < u) /\ (k = v <=> k = u)
        BY <1>1, <3>1
      <3> QED BY <1>1, <3>1, <3>2, <3>3
    <2> QED BY <2>1, <2>2
  <1> QED BY <1>1, <1>2, <1>3, <1>4 DEF Ladder

-----------------------------------------------------------------------------
(* The trials *)

\* The rates of the trials, and the next one
Rungs == [k \in 1..(Len(tried) + 1) |-> IF k <= Len(tried) THEN tried[k].eta ELSE cal.eta]

\* Trial k is the first of least finite loss.
FirstBest(k) ==
    /\ tried[k].loss # NotFinite
    /\ \A j \in 1..Len(tried) :
        tried[j].loss # NotFinite => /\ tried[k].loss <= tried[j].loss
                                     /\ j < k => tried[k].loss < tried[j].loss

TrialsAreRecorded ==
    /\ Len(tried) \in Nat
    /\ tried = [k \in 1..Len(tried) |-> tried[k]]
    /\ \A k \in 1..Len(tried) : /\ tried[k].loss \in Losses \cup {NotFinite}
                                /\ tried[k].sample = SubSeq(perm, 1, Samples)

RatesAreRange ==
    \E u \in Nat : /\ Ladder(Rungs, Len(tried), u, InitialEta, Rate)
                   /\ cal.dec => u <= Len(tried)
                   /\ ~cal.dec => u = Len(tried) + 1

BestTrial ==
    \/ /\ cal.bestLoss = NotFinite /\ cal.bestEta = InitialEta
       /\ \A k \in 1..Len(tried) : tried[k].loss = NotFinite
    \/ \E k \in 1..Len(tried) :
         FirstBest(k) /\ cal.bestLoss = tried[k].loss /\ cal.bestEta = tried[k].eta

TrialsInv ==
    /\ pc \in {"created", "configured"} => tried = <<>>
    /\ pc \in {"trial", "calibrated"} =>
        /\ TrialsAreRecorded
        /\ cal.trials = Len(tried) + 1
        /\ RatesAreRange
        /\ BestTrial
    /\ pc = "trial" => Len(tried) = 0 \/ Len(tried) + 1 < MaxTrials
    /\ pc = "calibrated" => /\ Len(tried) < MaxTrials \/ Len(tried) = 1
                            /\ t0 = T0For(cal.bestEta)

LEMMA NextRateFields ==
  ASSUME NEW c \in Calibrations, NEW loss \in Losses \cup {NotFinite},
         NEW e, e = NextRate(Better(c, loss), loss)
  PROVE  /\ e.trials = c.trials + 1
         /\ e.bestLoss = IF Improves(loss, c.bestLoss) THEN loss ELSE c.bestLoss
         /\ e.bestEta = IF Improves(loss, c.bestLoss) THEN c.eta ELSE c.bestEta
         /\ \/ c.dec /\ e.dec /\ e.eta = Over(c.eta, Rate)
            \/ ~c.dec /\ ~e.dec /\ e.eta = Times(c.eta, Rate)
            \/ ~c.dec /\ e.dec /\ e.eta = Over(InitialEta, Rate)
  <1> DEFINE d == Better(c, loss)
  <1>1. /\ d \in Calibrations /\ d.trials = c.trials /\ d.eta = c.eta /\ d.dec = c.dec
        /\ d.bestLoss = IF Improves(loss, c.bestLoss) THEN loss ELSE c.bestLoss
        /\ d.bestEta = IF Improves(loss, c.bestLoss) THEN c.eta ELSE c.bestEta
    BY DEF Better, Calibrations
  <1> HIDE DEF d
  <1>2. e = NextRate(d, loss)
    BY DEF d
  <1>3. /\ e.trials = d.trials + 1 /\ e.bestLoss = d.bestLoss /\ e.bestEta = d.bestEta
        /\ \/ d.dec /\ e.dec /\ e.eta = Over(d.eta, Rate)
           \/ ~d.dec /\ ~e.dec /\ e.eta = Times(d.eta, Rate)
           \/ ~d.dec /\ e.dec /\ e.eta = Over(InitialEta, Rate)
    <2>1. CASE d.dec
      BY <1>1, <1>2, <2>1 DEF NextRate, Calibrations
    <2>2. CASE ~d.dec
      <3> DEFINE ok == Improves(loss, d.initLoss)
                 num == IF ok THEN d.num - 1 ELSE d.num
                 f == [d EXCEPT !.num = num, !.trials = d.trials + 1]
      <3>1. e = IF ok /\ num > 0 THEN [f EXCEPT !.eta = Times(d.eta, Rate)]
                ELSE [f EXCEPT !.dec = TRUE, !.num = Candidates,
                               !.eta = Over(InitialEta, Rate)]
        BY <1>2, <2>2 DEF NextRate
      <3>2. /\ f.trials = d.trials + 1 /\ f.bestLoss = d.bestLoss /\ f.bestEta = d.bestEta
            /\ f.dec = d.dec
            /\ DOMAIN f = {"num", "dec", "trials", "eta", "bestLoss", "bestEta", "initLoss"}
        BY <1>1 DEF Calibrations
      <3> HIDE DEF f, ok, num
      <3>3. CASE ok /\ num > 0
        BY <2>2, <3>1, <3>2, <3>3
      <3>4. CASE ~(ok /\ num > 0)
        BY <2>2, <3>1, <3>2, <3>4
      <3> QED BY <3>3, <3>4
    <2> QED BY <2>1, <2>2
  <1> QED BY <1>1, <1>3

LEMMA TrialsBegin ==
  ASSUME TrialsInv, WeightsInv, NEW loss \in Losses, NEW order \in Shuffles(perm),
         Calibrate(loss, order)
  PROVE  TrialsInv'
  <1>1. /\ pc = "configured" /\ pc' = "trial" /\ tried' = tried /\ params' = params
        /\ cal' = [num |-> Candidates, dec |-> FALSE, trials |-> 1, eta |-> InitialEta,
                   bestLoss |-> NotFinite, bestEta |-> InitialEta, initLoss |-> loss]
    BY DEF Calibrate, data, history
  <1>2. tried = <<>> /\ Len(tried) = 0 /\ 1..Len(tried) = {} /\ CalibrationReads
    <2>1. tried = <<>> /\ CalibrationReads
      BY <1>1 DEF TrialsInv, WeightsInv, OptionsKept
    <2>2. Len(tried) = 0
      BY <2>1
    <2>3. 1..Len(tried) = {}
      BY <2>2
    <2> QED BY <2>1, <2>2, <2>3
  <1>3. (TrialsAreRecorded)'
    <2>1. tried = [k \in 1..Len(tried) |-> tried[k]]
      BY <1>2
    <2> QED BY <1>1, <1>2, <2>1 DEF TrialsAreRecorded
  <1>4. (RatesAreRange)'
    <2>1. (Rungs)' = [k \in 1..1 |-> InitialEta]
      BY <1>1, <1>2 DEF Rungs
    <2>2. InitialEta \in Positive /\ (InitialEta)' = InitialEta /\ (Rate)' = Rate
      BY <1>1, <1>2 DEF CalibrationReads, InitialEta, Rate, Option
    <2>3. Ladder([k \in 1..1 |-> InitialEta], 0, 1, InitialEta, Rate)
      <3>1. 1..(0 + 1) = 1..1 /\ 1..0 = {} /\ 1 \in 1..1
        OBVIOUS
      <3> QED BY <2>2, <3>1 DEF Ladder
    <2>4. Len(tried') = 0 /\ ~cal'.dec
      BY <1>1, <1>2
    <2>5. (Ladder(Rungs, Len(tried), 1, InitialEta, Rate))'
      BY <2>1, <2>2, <2>3, <2>4 DEF Ladder
    <2> QED BY <2>4, <2>5 DEF RatesAreRange
  <1>5. (BestTrial)'
    BY <1>1, <1>2 DEF BestTrial, InitialEta, Option
  <1> QED BY <1>1, <1>2, <1>3, <1>4, <1>5 DEF TrialsInv

LEMMA TrialsGoOn ==
  ASSUME TrainingAssumption, TrialsInv, WeightsInv,
         NEW loss \in Losses \cup {NotFinite}, EndTrial(loss)
  PROVE  TrialsInv'
  <1>1. /\ pc = "trial" /\ cal \in Calibrations /\ CalibrationReads
        /\ cal' = NextRate(Better(cal, loss), loss)
        /\ UNCHANGED <<params, perm>>
        /\ TrialsAreRecorded /\ cal.trials = Len(tried) + 1
        /\ RatesAreRange /\ BestTrial
        /\ Len(tried) = 0 \/ Len(tried) + 1 < MaxTrials
    BY DEF EndTrial, WeightsInv, OptionsKept, Numbers, TrialsInv, data
  <1> DEFINE new == [eta |-> cal.eta, loss |-> loss, sample |-> SubSeq(perm, 1, Samples)]
  <1>2. PICK n \in Nat : n = Len(tried)
    BY <1>1 DEF TrialsAreRecorded
  <1>3. /\ Len(tried') = n + 1
        /\ tried' = [k \in 1..(n + 1) |-> tried'[k]]
        /\ \A k \in 1..n : tried'[k] = tried[k]
        /\ tried'[n + 1] = new
    <2>1. tried' = Append(tried, new)
      BY DEF EndTrial
    <2> HIDE DEF new
    <2> QED BY <1>1, <1>2, <2>1, AppendOne DEF TrialsAreRecorded
  <1>4. /\ cal'.trials = cal.trials + 1
        /\ cal'.bestLoss = IF Improves(loss, cal.bestLoss) THEN loss ELSE cal.bestLoss
        /\ cal'.bestEta = IF Improves(loss, cal.bestLoss) THEN cal.eta ELSE cal.bestEta
        /\ \/ cal.dec /\ cal'.dec /\ cal'.eta = Over(cal.eta, Rate)
           \/ ~cal.dec /\ ~cal'.dec /\ cal'.eta = Times(cal.eta, Rate)
           \/ ~cal.dec /\ cal'.dec /\ cal'.eta = Over(InitialEta, Rate)
    BY <1>1, NextRateFields
  <1>5. /\ (InitialEta)' = InitialEta /\ (Rate)' = Rate /\ (MaxTrials)' = MaxTrials
        /\ (Samples)' = Samples
    BY <1>1 DEF InitialEta, Rate, MaxTrials, Samples, Option
  <1>6. \A k \in 1..(n + 1) : k = n + 1 \/ k \in 1..n
    OBVIOUS
  <1>7. (TrialsAreRecorded)'
    <2>1. ASSUME NEW k \in 1..(n + 1)
          PROVE  /\ tried'[k].loss \in Losses \cup {NotFinite}
                 /\ tried'[k].sample = SubSeq(perm, 1, Samples)
      <3>1. CASE k = n + 1
        BY <1>3, <3>1
      <3>2. CASE k \in 1..n
        BY <1>1, <1>2, <1>3, <3>2 DEF TrialsAreRecorded
      <3> QED BY <1>6, <3>1, <3>2
    <2>2. perm' = perm
      BY <1>1
    <2> HIDE DEF new
    <2> QED BY <1>3, <1>5, <2>1, <2>2 DEF TrialsAreRecorded
  <1>8. (RatesAreRange)'
    <2>1. PICK u \in Nat : /\ Ladder(Rungs, n, u, InitialEta, Rate)
                           /\ cal.dec => u <= n
                           /\ ~cal.dec => u = n + 1
      BY <1>1, <1>2 DEF RatesAreRange
    <2>2. PICK E, F : E = Rungs /\ F = (Rungs)'
      OBVIOUS
    <2>3. F = [k \in 1..(n + 2) |-> IF k <= n + 1 THEN E[k] ELSE cal'.eta]
          /\ E[n + 1] = cal.eta
      <3>1. F = [k \in 1..(n + 2) |-> IF k <= n + 1 THEN tried'[k].eta ELSE cal'.eta]
        <4>1. (n + 1) + 1 = n + 2
          OBVIOUS
        <4> QED BY <1>3, <2>2, <4>1 DEF Rungs
      <3>2. E = [k \in 1..(n + 1) |-> IF k <= n THEN tried[k].eta ELSE cal.eta]
        BY <1>2, <2>2 DEF Rungs
      <3>3. ASSUME NEW k \in 1..(n + 1) PROVE tried'[k].eta = E[k]
        <4>1. CASE k = n + 1
          <5>1. E[k] = cal.eta
            BY <3>2, <4>1
          <5> QED BY <1>3, <4>1, <5>1
        <4>2. CASE k \in 1..n
          <5>1. E[k] = tried[k].eta
            BY <3>2, <4>2
          <5> QED BY <1>3, <4>2, <5>1
        <4> QED BY <1>6, <4>1, <4>2
      <3>4. \A k \in 1..(n + 2) : k <= n + 1 => k \in 1..(n + 1)
        OBVIOUS
      <3>5. E[n + 1] = cal.eta
        <4>1. n + 1 \in 1..(n + 1) /\ ~(n + 1 <= n)
          OBVIOUS
        <4> QED BY <3>2, <4>1
      <3>6. [k \in 1..(n + 2) |-> IF k <= n + 1 THEN tried'[k].eta ELSE cal'.eta]
              = [k \in 1..(n + 2) |-> IF k <= n + 1 THEN E[k] ELSE cal'.eta]
        BY <3>3, <3>4
      <3> QED BY <3>1, <3>5, <3>6
    <2>4. cal'.eta \in Positive
      <3>1. cal' \in Calibrations
        BY <1>1, NextRateIs
      <3> QED BY <3>1 DEF Calibrations
    <2>5. PICK v \in Nat : /\ \/ u <= n /\ v = u /\ cal'.eta = Over(E[n + 1], Rate)
                              \/ u = n + 1 /\ v = n + 2 /\ cal'.eta = Times(E[n + 1], Rate)
                              \/ u = n + 1 /\ v = n + 1 /\ cal'.eta = Over(InitialEta, Rate)
                           /\ cal'.dec => v <= n + 1
                           /\ ~cal'.dec => v = (n + 1) + 1
      <3>1. CASE cal.dec /\ cal'.dec /\ cal'.eta = Over(cal.eta, Rate)
        <4>1. u <= n
          BY <2>1, <3>1, Zenon
        <4>2. u <= n + 1
          BY <4>1
        <4>3. cal'.eta = Over(E[n + 1], Rate)
          BY <2>3, <3>1
        <4> QED BY <3>1, <4>1, <4>2, <4>3, Zenon
      <3>2. CASE ~cal.dec /\ ~cal'.dec /\ cal'.eta = Times(cal.eta, Rate)
        <4>1. u = n + 1
          BY <2>1, <3>2, Zenon
        <4>2. n + 2 \in Nat /\ n + 2 = (n + 1) + 1
          OBVIOUS
        <4>3. cal'.eta = Times(E[n + 1], Rate)
          BY <2>3, <3>2
        <4> QED BY <3>2, <4>1, <4>2, <4>3, Zenon
      <3>3. CASE ~cal.dec /\ cal'.dec /\ cal'.eta = Over(InitialEta, Rate)
        <4>1. u = n + 1
          BY <2>1, <3>3, Zenon
        <4>2. n + 1 \in Nat /\ n + 1 <= n + 1
          OBVIOUS
        <4> QED BY <3>3, <4>1, <4>2, Zenon
      <3> QED BY <1>4, <3>1, <3>2, <3>3, Zenon
    <2>6. Ladder(F, n + 1, v, InitialEta, Rate)
      <3>1. Ladder(E, n, u, InitialEta, Rate)
        BY <2>1, <2>2
      <3> QED BY <2>3, <2>4, <2>5, <3>1, LadderGrows
    <2>7. (Ladder(Rungs, Len(tried), v, InitialEta, Rate))'
      <3>1. Ladder((Rungs)', Len(tried'), v, (InitialEta)', (Rate)')
        BY <1>3, <1>5, <2>2, <2>6
      <3> QED BY <3>1 DEF Ladder
    <2> QED BY <1>3, <2>5, <2>7 DEF RatesAreRange
  <1>9. (BestTrial)'
    <2>1. /\ loss # NotFinite => loss \in Int
          /\ \A k \in 1..n : tried[k].loss # NotFinite => tried[k].loss \in Int
          /\ n + 1 \in 1..(n + 1) /\ \A k \in 1..n : k \in 1..(n + 1) /\ ~(n + 1 < k)
      BY <1>1, <1>2 DEF TrialsAreRecorded, TrainingAssumption
    <2>2. /\ tried'[n + 1].loss = loss /\ tried'[n + 1].eta = cal.eta
          /\ \A k \in 1..n : tried'[k].loss = tried[k].loss /\ tried'[k].eta = tried[k].eta
      BY <1>3
    <2>3. \/ /\ cal.bestLoss = NotFinite /\ cal.bestEta = InitialEta
             /\ \A k \in 1..n : tried[k].loss = NotFinite
          \/ \E k \in 1..n :
               /\ FirstBest(k) /\ cal.bestLoss = tried[k].loss /\ cal.bestEta = tried[k].eta
      BY <1>1, <1>2 DEF BestTrial
    <2>4. \A k \in 1..n : FirstBest(k) <=>
            /\ tried[k].loss # NotFinite
            /\ \A j \in 1..n : tried[j].loss # NotFinite =>
                    /\ tried[k].loss <= tried[j].loss
                    /\ j < k => tried[k].loss < tried[j].loss
      BY <1>2 DEF FirstBest
    <2>5. \A k \in 1..(n + 1) : (FirstBest(k))' <=>
            /\ tried'[k].loss # NotFinite
            /\ \A j \in 1..(n + 1) : tried'[j].loss # NotFinite =>
                    /\ tried'[k].loss <= tried'[j].loss
                    /\ j < k => tried'[k].loss < tried'[j].loss
      BY <1>3 DEF FirstBest
    <2>6. CASE Improves(loss, cal.bestLoss)
      <3>1. /\ loss # NotFinite /\ cal'.bestLoss = loss /\ cal'.bestEta = cal.eta
            /\ cal.bestLoss = NotFinite \/ loss < cal.bestLoss
        BY <1>4, <2>6 DEF Improves
      <3>2. ASSUME NEW j \in 1..n, tried[j].loss # NotFinite PROVE loss < tried[j].loss
        <4>1. PICK k \in 1..n : /\ FirstBest(k) /\ cal.bestLoss = tried[k].loss
          BY <2>3, <3>2
        <4>2. tried[k].loss # NotFinite /\ tried[k].loss <= tried[j].loss
          BY <2>4, <3>2, <4>1
        <4> QED BY <2>1, <3>1, <3>2, <4>1, <4>2
      <3>3. ASSUME NEW j \in 1..(n + 1), tried'[j].loss # NotFinite
            PROVE  /\ tried'[n + 1].loss <= tried'[j].loss
                   /\ j < n + 1 => tried'[n + 1].loss < tried'[j].loss
        <4>1. CASE j = n + 1
          BY <2>1, <2>2, <3>1, <4>1
        <4>2. CASE j \in 1..n
          BY <2>1, <2>2, <3>1, <3>2, <3>3, <4>2
        <4> QED BY <1>6, <4>1, <4>2
      <3>4. (FirstBest(n + 1))'
        BY <2>1, <2>2, <2>5, <3>1, <3>3
      <3> QED BY <1>3, <2>1, <2>2, <3>1, <3>4 DEF BestTrial
    <2>7. CASE ~Improves(loss, cal.bestLoss)
      <3>1. cal'.bestLoss = cal.bestLoss /\ cal'.bestEta = cal.bestEta
        BY <1>4, <2>7
      <3>2. CASE /\ cal.bestLoss = NotFinite /\ cal.bestEta = InitialEta
                 /\ \A k \in 1..n : tried[k].loss = NotFinite
        <4>1. loss = NotFinite
          BY <2>7, <3>2 DEF Improves
        <4>2. \A k \in 1..(n + 1) : tried'[k].loss = NotFinite
          BY <1>6, <2>2, <3>2, <4>1
        <4> QED BY <1>3, <1>5, <3>1, <3>2, <4>2 DEF BestTrial
      <3>3. ASSUME NEW k \in 1..n,
                   FirstBest(k), cal.bestLoss = tried[k].loss, cal.bestEta = tried[k].eta
            PROVE  (BestTrial)'
        <4>1. tried[k].loss # NotFinite
          BY <2>4, <3>3
        <4>2. loss # NotFinite => tried[k].loss <= loss
          BY <2>1, <2>7, <3>3, <4>1 DEF Improves
        <4>3. ASSUME NEW j \in 1..(n + 1), tried'[j].loss # NotFinite
              PROVE  /\ tried'[k].loss <= tried'[j].loss
                     /\ j < k => tried'[k].loss < tried'[j].loss
          <5>1. CASE j = n + 1
            BY <2>1, <2>2, <4>2, <4>3, <5>1
          <5>2. CASE j \in 1..n
            BY <2>2, <2>4, <3>3, <4>3, <5>2
          <5> QED BY <1>6, <5>1, <5>2
        <4>4. (FirstBest(k))'
          BY <2>1, <2>2, <2>5, <4>1, <4>3
        <4> QED BY <1>3, <2>1, <2>2, <3>1, <3>3, <4>4 DEF BestTrial
      <3> QED BY <2>3, <3>2, <3>3
    <2> QED BY <2>6, <2>7
  <1>10. cal'.trials = Len(tried') + 1
    BY <1>1, <1>2, <1>3, <1>4
  <1>11. CASE Calibrated(cal')
    <2>1. t0' = T0For(cal'.bestEta) /\ pc' = "calibrated"
      BY <1>11 DEF EndTrial
    <2>2. (T0For(cal.bestEta))' = T0For(cal'.bestEta)
      BY <1>1 DEF T0For, Lambda, C2, Option
    <2>3. Len(tried') < MaxTrials \/ Len(tried') = 1
      BY <1>1, <1>2, <1>3
    <2> QED BY <1>5, <1>7, <1>8, <1>9, <1>10, <2>1, <2>2, <2>3 DEF TrialsInv
  <1>12. CASE ~Calibrated(cal')
    <2>1. pc' = "trial"
      BY <1>1, <1>12 DEF EndTrial
    <2>2. cal'.trials < MaxTrials
      <3>1. ~(cal'.trials >= MaxTrials)
        BY <1>1, <1>12 DEF Calibrated, MaxTrials, Option
      <3>2. cal'.trials \in Int /\ MaxTrials \in Int
        BY <1>1, <1>2, <1>4 DEF CalibrationReads
      <3> QED BY <3>1, <3>2
    <2> QED BY <1>5, <1>7, <1>8, <1>9, <1>10, <2>1, <2>2 DEF TrialsInv
  <1> QED BY <1>11, <1>12

LEMMA StepKeepsTrialsInv ==
  ASSUME TrainingAssumption, WeightsInv, TrialsInv, [Next]_vars
  PROVE  TrialsInv'
  <1>1. CASE UNCHANGED vars
    <2>1. UNCHANGED <<pc, tried, cal, perm, params, t0>>
      BY <1>1 DEF vars, data, history
    <2>2. /\ (Rungs)' = Rungs /\ (InitialEta)' = InitialEta /\ (Rate)' = Rate
          /\ (Samples)' = Samples /\ (MaxTrials)' = MaxTrials
          /\ (T0For(cal.bestEta))' = T0For(cal.bestEta)
      BY <2>1 DEF Rungs, InitialEta, Rate, Samples, MaxTrials, T0For, Lambda, C2, Option
    <2>3. TrialsAreRecorded => (TrialsAreRecorded)'
      BY <2>1, <2>2 DEF TrialsAreRecorded
    <2>4. RatesAreRange => (RatesAreRange)'
      BY <2>1, <2>2 DEF RatesAreRange, Ladder
    <2>5. BestTrial => (BestTrial)'
      BY <2>1, <2>2 DEF BestTrial, FirstBest
    <2> QED BY <2>1, <2>2, <2>3, <2>4, <2>5 DEF TrialsInv
  <1>2. CASE Configure
    <2>1. pc = "created" /\ pc' = "configured" /\ tried' = tried
      BY <1>2 DEF Configure, history
    <2> QED BY <2>1 DEF TrialsInv
  <1>3. pc' \in {"save", "shuffle", "epoch", "ended", "crashed", "done"} => TrialsInv'
    BY DEF TrialsInv
  <1>4. ASSUME NEW loss \in Losses, NEW order \in Shuffles(perm), Calibrate(loss, order)
        PROVE  TrialsInv'
    BY <1>4, TrialsBegin
  <1>5. ASSUME NEW g \in Gradients \cup {NotFinite}, Update(g)
        PROVE  TrialsInv'
    <2>1. pc' = pc /\ pc \in {"trial", "epoch"} /\ UNCHANGED <<tried, cal, perm, params>>
      BY <1>5 DEF Update, data, history
    <2>2. /\ (Rungs)' = Rungs /\ (InitialEta)' = InitialEta /\ (Rate)' = Rate
          /\ (Samples)' = Samples /\ (MaxTrials)' = MaxTrials
      BY <2>1 DEF Rungs, InitialEta, Rate, Samples, MaxTrials, Option
    <2>3. TrialsAreRecorded => (TrialsAreRecorded)'
      BY <2>1, <2>2 DEF TrialsAreRecorded
    <2>4. RatesAreRange => (RatesAreRange)'
      BY <2>1, <2>2 DEF RatesAreRange, Ladder
    <2>5. BestTrial => (BestTrial)'
      BY <2>1, <2>2 DEF BestTrial, FirstBest
    <2> QED BY <2>1, <2>2, <2>3, <2>4, <2>5 DEF TrialsInv
  <1>6. ASSUME NEW loss \in Losses \cup {NotFinite}, EndTrial(loss)
        PROVE  TrialsInv'
    BY <1>6, TrialsGoOn
  <1>7. CASE \E loss \in Losses, order \in Shuffles(perm) : Calibrate(loss, order)
    BY <1>4, <1>7
  <1>8. CASE \E g \in Gradients \cup {NotFinite} : Update(g)
    BY <1>5, <1>8
  <1>9. CASE \E loss \in Losses \cup {NotFinite} : EndTrial(loss)
    BY <1>6, <1>9
  <1>10. CASE NoWeights \/ NoBuffers \/ Overflow
    BY <1>3, <1>10 DEF NoWeights, NoBuffers, Overflow
  <1>11. CASE StartTraining \/ Finish \/ Save
    BY <1>3, <1>11 DEF StartTraining, Finish, Save
  <1>12. CASE \E order \in Shuffles(perm) : Shuffle(order)
    BY <1>3, <1>12 DEF Shuffle
  <1>13. CASE \E sum \in Losses \cup {NotFinite} : EndEpoch(sum)
    BY <1>3, <1>13 DEF EndEpoch
  <1> QED BY <1>1, <1>2, <1>7, <1>8, <1>9, <1>10, <1>11, <1>12, <1>13 DEF Next

\* While l2sgd_calibrate() tries rates, they form one range up from the first
\* one and down from it, and the best of them is the one that is kept.
THEOREM TrialsInvariant == Spec => []TrialsInv
  <1>1. Init => TrialsInv
    BY DEF Init, TrialsInv
  <1>2. WeightsInv /\ TrialsInv /\ [Next]_vars => TrialsInv'
    BY StepKeepsTrialsInv, TrainingAssumption
  <1> QED BY <1>1, <1>2, WeightsInvariant, PTL DEF Spec

\* All trials of the calibration run over the same instances, with rates that
\* differ and form an unbroken range around the initial one, fewer than
\* max_trials or one; training starts with the first rate of least finite loss,
\* the initial one if no loss was finite.
THEOREM BestRateAlways == Spec => []BestRate
  <1>1. ASSUME TrainingAssumption, WeightsInv, TrialsInv PROVE BestRate
    <2> SUFFICES ASSUME pc = "calibrated" PROVE BestRate
      BY DEF BestRate
    <2> DEFINE etas == {tried[k].eta : k \in DOMAIN tried}
               finite == {k \in DOMAIN tried : tried[k].loss # NotFinite}
               least == {k \in finite : \A j \in finite : tried[k].loss <= tried[j].loss}
               first == CHOOSE k \in least : \A j \in least : k <= j
    <2>1. /\ TrialsAreRecorded /\ RatesAreRange /\ BestTrial
          /\ Len(tried) < MaxTrials \/ Len(tried) = 1
          /\ t0 = T0For(cal.bestEta)
          /\ CalibrationReads
      BY <1>1 DEF TrialsInv, WeightsInv, OptionsKept
    <2>2. PICK n \in Nat : n = Len(tried) /\ DOMAIN tried = 1..n
      BY <2>1 DEF TrialsAreRecorded
    <2>3. \A k, j \in DOMAIN tried : tried[k].sample = tried[j].sample
      BY <2>1, <2>2 DEF TrialsAreRecorded
    <2>0. PICK E : E = Rungs
      OBVIOUS
    <2>4. PICK u \in Nat : E = Rungs /\ Ladder(E, n, u, InitialEta, Rate)
      BY <2>0, <2>1, <2>2 DEF RatesAreRange
    <2>5. \A k \in 1..n : E[k] = tried[k].eta
      <3>1. E = [k \in 1..(n + 1) |-> IF k <= n THEN tried[k].eta ELSE cal.eta]
        BY <2>2, <2>4 DEF Rungs
      <3>2. \A k \in 1..n : k \in 1..(n + 1) /\ k <= n
        OBVIOUS
      <3> QED BY <3>1, <3>2
    <2>6. /\ \A j, k \in 1..n : j # k => E[j] # E[k]
          /\ \A j \in 1..n : E[j] # InitialEta =>
                IF Less(InitialEta, E[j]) THEN \E k \in 1..n : E[k] = Over(E[j], Rate)
                ELSE \/ E[j] = Over(InitialEta, Rate)
                     \/ \E k \in 1..n : E[k] = Times(E[j], Rate)
      BY <2>1, <2>4, LadderIsRange DEF CalibrationReads
    <2>7. etas = {E[k] : k \in 1..n}
      BY <2>2, <2>5
    <2>8. Cardinality(etas) = Len(tried)
      <3> DEFINE f == [k \in 1..n |-> E[k]]
      <3>1. f \in [1..n -> etas] /\ \A x \in etas : \E k \in 1..n : f[k] = x
        BY <2>7
      <3>2. \A j, k \in 1..n : f[j] = f[k] => j = k
        BY <2>6
      <3> HIDE DEF f, etas
      <3>3. f \in Bijection(1..n, etas)
        BY <3>1, <3>2 DEF Bijection, Injection, Surjection, IsInjective
      <3>4. ExistsBijection(1..n, etas)
        BY <3>3 DEF ExistsBijection
      <3> QED BY <2>2, <3>4, FS_CountingElements
    <2>9. \A eta \in etas \ {InitialEta} :
                IF Less(InitialEta, eta) THEN Over(eta, Rate) \in etas
                ELSE eta = Over(InitialEta, Rate) \/ Times(eta, Rate) \in etas
      <3>1. ASSUME NEW j \in 1..n, E[j] # InitialEta
            PROVE  IF Less(InitialEta, E[j]) THEN Over(E[j], Rate) \in etas
                   ELSE E[j] = Over(InitialEta, Rate) \/ Times(E[j], Rate) \in etas
        <4>1. \A k \in 1..n : E[k] \in etas
          BY <2>7
        <4> HIDE DEF etas
        <4> QED BY <2>6, <3>1, <4>1
      <3>2. \A eta \in etas : \E j \in 1..n : eta = E[j]
        BY <2>7
      <3> HIDE DEF etas
      <3> QED BY <3>1, <3>2
    <2>10. T0For(IF finite = {} THEN InitialEta ELSE tried[first].eta) = t0
      <3>1. CASE /\ cal.bestEta = InitialEta
                 /\ \A k \in 1..n : tried[k].loss = NotFinite
        <4>1. finite = {}
          BY <2>2, <3>1
        <4> QED BY <2>1, <3>1, <4>1
      <3>2. ASSUME NEW e \in 1..n, FirstBest(e), cal.bestEta = tried[e].eta
            PROVE  T0For(IF finite = {} THEN InitialEta ELSE tried[first].eta) = t0
        <4>1. /\ e \in finite
              /\ \A f \in finite : tried[e].loss <= tried[f].loss
              /\ \A f \in finite : f < e => tried[e].loss < tried[f].loss
          BY <2>2, <3>2 DEF FirstBest
        <4>2. \A f \in finite : tried[f].loss \in Int /\ f \in Nat
          <5>1. \A x \in Losses : x \in Int
            BY <1>1 DEF TrainingAssumption
          <5> QED BY <2>1, <2>2, <5>1 DEF TrialsAreRecorded
        <4>3. e \in least
          BY <4>1
        <4>4. ASSUME NEW f \in least PROVE e <= f
          <5>1. f \in finite /\ tried[f].loss <= tried[e].loss /\ f \in Nat /\ e \in Nat
            BY <4>1, <4>2
          <5>2. ~(tried[e].loss < tried[f].loss)
            BY <4>1, <4>2, <5>1
          <5> QED BY <4>1, <5>1, <5>2
        <4>5. ASSUME NEW c \in least, \A f \in least : c <= f PROVE c = e
          <5>1. c \in Nat /\ e \in Nat
            BY <4>1, <4>2
          <5>2. c <= e /\ e <= c
            BY <4>3, <4>4, <4>5
          <5> QED BY <5>1, <5>2
        <4>6. first = e
          BY <4>3, <4>4, <4>5
        <4>7. finite # {}
          BY <4>1
        <4> HIDE DEF first, finite
        <4> QED BY <2>1, <3>2, <4>6, <4>7
      <3>3. \/ /\ cal.bestEta = InitialEta
               /\ \A k \in 1..n : tried[k].loss = NotFinite
            \/ \E e \in 1..n : FirstBest(e) /\ cal.bestEta = tried[e].eta
        BY <2>1, <2>2 DEF BestTrial
      <3> QED BY <3>1, <3>2, <3>3
    <2> HIDE DEF etas, first, least, finite
    <2>11. /\ \A k, j \in DOMAIN tried : tried[k].sample = tried[j].sample
           /\ Cardinality(etas) = Len(tried)
           /\ \A eta \in etas \ {InitialEta} :
                IF Less(InitialEta, eta) THEN Over(eta, Rate) \in etas
                ELSE eta = Over(InitialEta, Rate) \/ Times(eta, Rate) \in etas
           /\ Len(tried) < MaxTrials \/ Len(tried) = 1
           /\ T0For(IF finite = {} THEN InitialEta ELSE tried[first].eta) = t0
      BY <2>1, <2>3, <2>8, <2>9, <2>10
    <2> QED BY <2>11 DEF BestRate, etas, first, least, finite
  <1>2. WeightsInv /\ TrialsInv => BestRate
    BY <1>1, TrainingAssumption
  <1> QED BY <1>2, WeightsInvariant, TrialsInvariant, PTL
=============================================================================
