------------------------------ MODULE MCModelFile ------------------------------
(* ModelFile for two labels and two attributes: every set of at most           *)
(* MaxFeatures features in which each attribute has one, as every attribute     *)
(* occurs with a label, and every choice of weights that end up as 0.           *)
EXTENDS ModelFile, SequencesExt

CONSTANT MaxFeatures

\* The order of featureset_comp(): by type, source and destination.
Rank(f) == (IF f.type = "state" THEN 0 ELSE 100) + 10 * f.src + f.dst

Results ==
    LET sets == {S \in UNION {kSubset(n, Features) : n \in 0..MaxFeatures} :
                    \A a \in Attrs : \E f \in S : f.type = "state" /\ f.src = a}
        ordered(S) == SetToSortSeq(S, LAMBDA f, g : Rank(f) < Rank(g))
    IN UNION {{[feats |-> ordered(S), active |-> act] :
                act \in SUBSET (1..Cardinality(S))} : S \in sets}

===============================================================================
