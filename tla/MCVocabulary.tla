---------------------------- MODULE MCVocabulary ----------------------------
(* Vocabulary with seven keys, three of them strings of the dictionary. The   *)
(* hash values fall on one table, where searches collide and wrap, or on two. *)
EXTENDS Vocabulary

SevenKeys == 1..7
ThreeStrings == 1..3
FewHashes == [ThreeStrings -> {0, 6}] \cup {<<0, 1, 6>>, <<0, 1, 1>>}
MinusOne == -1

==============================================================================
