------------------------------- MODULE MCTagger -------------------------------
(***************************************************************************)
(* Two labels, two attributes, sequences of one item and of three. The     *)
(* models have negative, zero and positive weights, a tie between paths,   *)
(* and one whose best path does not begin with its best first label.       *)
(***************************************************************************)
EXTENDS Tagger

F(dst, weight) == [dst |-> dst, weight |-> weight]
C(aid, value) == [aid |-> aid, value |-> value]

MCModels ==
    { [state |-> <<{F(0, 1)}, {F(0, -1), F(1, 1)}>>,
       trans |-> [i \in Labels |-> IF i = 0 THEN {F(1, 2)} ELSE {F(0, -1), F(1, 1)}]],
      [state |-> <<{F(0, 2), F(1, 1)}, {F(1, 1)}>>,
       trans |-> [i \in Labels |-> IF i = 0 THEN {} ELSE {F(1, 3)}]],
      [state |-> <<{}, {F(0, 1), F(1, 1)}>>,
       trans |-> [i \in Labels |-> {F(0, 1), F(1, 1)}]] }

MCInstances ==
    { <<<<C(2, 2), C(1, 1)>>>>,
      <<<<C(1, 1)>>, <<C(2, -1), C(1, 1)>>, << >>>> }
=============================================================================
