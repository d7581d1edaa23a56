------------------------------- MODULE MCEncoder -------------------------------
(***************************************************************************)
(* Two labels, two attributes; a data set of instances of one, two and     *)
(* three items in which an item has one attribute twice and another item   *)
(* has none, and one whose longest instance is not the first. Weights are  *)
(* long enough for all eight features.                                     *)
(***************************************************************************)
EXTENDS Encoder

A(aid, value) == [aid |-> aid, value |-> value]
Instance(items, labels, weight) == [items |-> items, labels |-> labels, weight |-> weight]

MCData ==
    { <<Instance(<<<<A(1, 1)>>, <<A(2, 1), A(1, 1)>>>>, <<0, 1>>, 1),
        Instance(<<<<A(2, 2), A(2, -1)>>>>, <<1>>, 2)>>,
      <<Instance(<<<<A(1, 1)>>>>, <<0>>, 1),
        Instance(<<<<A(1, 1)>>, << >>, <<A(2, 1)>>>>, <<0, 0, 1>>, 1)>> }

MCOptions ==
    { [all_states |-> FALSE, all_edges |-> FALSE, minfreq |-> 0],
      [all_states |-> TRUE, all_edges |-> TRUE, minfreq |-> 0],
      [all_states |-> FALSE, all_edges |-> TRUE, minfreq |-> 1] }

MCVectors == { <<1, 0, -1, 2, 1, 0, 2, -1>> }
MCScales == {1, -1}
MCGains == { <<1, 2>> }
=============================================================================
