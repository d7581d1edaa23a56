----------------------------- MODULE MCNameParser -----------------------------
(***************************************************************************)
(* Words over five letters, a digit and four punctuation characters. Three *)
(* collections to train with; names of one word of up to three characters, *)
(* of some longer words, and of two to four words.                         *)
(***************************************************************************)
EXTENDS NameParser

MCUpper == {"A", "I", "B", "O", "S", "E"}
MCLower == {"a", "i", "b", "o", "s", "e"}
MCToLower == [c \in MCUpper |->
    CASE c = "A" -> "a" [] c = "I" -> "i" [] c = "B" -> "b"
      [] c = "O" -> "o" [] c = "S" -> "s" [] c = "E" -> "e"]
MCDigits == {"1"}
MCPunct == {".", ",", "-", "("}
MCRoman == {"I", "i"}
MCAbbreviations == {<<"A", "b", ".">>}

A == <<"A">>
AA == <<"A", "A">>
Ab == <<"A", "b">>
AbDot == <<"A", "b", ".">>
AiComma == <<"A", "i", ",">>
BOS == <<"B", "O", "S">>
II == <<"I", "I">>
A1A == <<"A", "-", "A">>
Long == <<"a", "b", "a", "i", "b">>
Longest == <<"A", "b", "a", "i", "b", "o", "a", "i", "b", "o">>

T(text, label) == [text |-> text, label |-> label]

MCCorpora ==
    { << <<T(Ab, "GIVEN"), T(AiComma, "Surname")>>, <<T(Long, "Surname"), T(II, "SUFFIX")>> >>,
      << <<T(AbDot, "PREFIX"), T(A, "FirstInitial"), T(AA, "SURNAME")>> >>,
      << <<T(BOS, "CorporationName"), T(Longest, "CorporationLegalType")>>,
         <<T(AA, "CorporationName"), T(A1A, "Dept")>> >> }

MCFactors == {1, -1}

Short == {<<w>> : w \in UNION {[1..n -> {"A", "a", "I", "1", ".", ",", "-"}] : n \in 1..2}}
One3 == {<<w>> : w \in {AbDot, AbDot \o <<",", ".">>, <<"A", "b", ",", ".">>, A1A, BOS, Long, Longest,
                        <<"i", "I", "b">>, <<"1", "-", "1">>, <<"(", "A">>}}
Two == {<<v, w>> : v \in {A, Ab, BOS, <<".">>}, w \in {AiComma, Ab, BOS, II}}
Many == {<<Ab, AA, AiComma>>, <<AbDot, A, II, Long>>, <<BOS, Longest, BOS>>}

MCNames == Short \cup One3 \cup Two \cup Many
=============================================================================
