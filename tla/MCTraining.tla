------------------------------ MODULE MCTraining ------------------------------
(***************************************************************************)
(* Two instances, one sample for the trials, the default options scaled    *)
(* down. With c2 = 1 the learning rate 1 makes the first decay zero, with  *)
(* c2 = 3/2 it makes it negative. From an objective of 5 to one of 4 the   *)
(* improvement is exactly delta, from 6 to 5 less, from 6 to 4 more.       *)
(***************************************************************************)
EXTENDS Training

Int_(n) == [type |-> "int", val |-> n]
Float(n, d) == [type |-> "float", val |-> <<n, d>>]

MCDefaults ==
    [name \in {"feature.minfreq", "c2", "delta", "calibration.eta", "calibration.rate"} |->
        CASE name = "delta" -> Float(1, 4)
          [] name = "calibration.eta" -> Float(1, 2)
          [] name = "calibration.rate" -> Float(2, 1)
          [] name = "c2" -> Float(1, 1)
          [] OTHER -> Float(0, 1)]
    @@ "max_iterations" :> Int_(1000) @@ "period" :> Int_(2)
    @@ "calibration.samples" :> Int_(1) @@ "calibration.candidates" :> Int_(2)
    @@ "calibration.max_trials" :> Int_(5)

MCGradients == {-1, 1}
MCConfigs == [c2 : {<<1, 1>>, <<3, 2>>}, max_iterations : {1, 4}, epsilon : {<<1, 1>>}]
=============================================================================
