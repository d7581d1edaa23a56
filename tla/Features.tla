------------------------------- MODULE Features -------------------------------
(***************************************************************************)
(* Words and their features: the tokenizer of name_parser.c, the features  *)
(* that a backend extracts (feature_extractor.c) and those that the        *)
(* training tool extracts with code of its own (crf_trainer.c).            *)
(*                                                                         *)
(* A word is a sequence of characters. A feature is [name, weight], its    *)
(* name a tuple of a kind and arguments; weights are in tenths. Words are  *)
(* short: names are not truncated, and no token has the 100 features at    *)
(* which the training tool's list is full (it has at most 28).             *)
(***************************************************************************)
EXTENDS Integers, SequencesExt

CONSTANTS
    Upper, Lower,   \* the letters, sets of characters
    ToLower,        \* tolower(), a function on Upper
    Digits, Punct,
    Roman,          \* the letters of IVXLCM, of either case
    Abbreviations   \* the words that keep their dot: Jr., Mrs., Inc. ...

Chars == Upper \cup Lower \cup Digits \cup Punct

ASSUME CharsAssumption ==
    /\ ToLower \in [Upper -> Lower]
    /\ Upper \cap Lower = {} /\ Digits \cap Punct = {}
    /\ (Upper \cup Lower) \cap (Digits \cup Punct) = {}
    /\ Roman \subseteq Upper \cup Lower
    /\ \A a \in Abbreviations : Len(a) > 1 /\ a[Len(a)] = "."

-----------------------------------------------------------------------------
(* Words *)

\* What a loop keeps of s that skips what is not in S
Among(s, S) == FoldLeft(LAMBDA kept, x : IF x \in S THEN Append(kept, x) ELSE kept, << >>, s)

Has(w, S) == \E i \in DOMAIN w : w[i] \in S
AllIn(w, S) == \A i \in DOMAIN w : w[i] \in S

LowerCase(w) == [i \in DOMAIN w |-> IF w[i] \in Upper THEN ToLower[w[i]] ELSE w[i]]
NoPunct(w) == Among(LowerCase(w), Chars \ Punct)
Shape(w) ==
    [i \in DOMAIN w |-> CASE w[i] \in Upper -> "X" [] w[i] \in Lower -> "x"
                          [] w[i] \in Digits -> "d" [] OTHER -> w[i]]

\* The first and the last n characters, or all of them.
Atmost(n, w) == IF n > Len(w) THEN Len(w) ELSE n
Prefix(w, n) == SubSeq(w, 1, Atmost(n, w))
Suffix(w, n) == SubSeq(w, Len(w) - Atmost(n, w) + 1, Len(w))

-----------------------------------------------------------------------------
(* The tokenizer *)

\* Mutant of Clean: dots and commas are looked at once, an abbreviation
\* behind which something else was removed loses its dot.
CleanAtOnce(word) ==
    LET kept == {n \in 0..Len(word) : /\ \A i \in (n + 1)..Len(word) : word[i] \in {".", ","}
                                      /\ n > 0 => word[n] \notin {".", ","}}
    IN IF word \in Abbreviations THEN word ELSE SubSeq(word, 1, CHOOSE n \in kept : TRUE)

\* The loop ends with n characters: the last of them is neither dot nor comma,
\* or they are an abbreviation.
StopsAt(word, n) ==
    n = 0 \/ word[n] \notin {".", ","} \/ SubSeq(word, 1, n) \in Abbreviations

\* A word without the dots and commas at its end
Clean(word) ==
    LET rest[n \in 0..Len(word)] ==
            IF StopsAt(word, n) THEN SubSeq(word, 1, n) ELSE rest[n - 1]
    IN rest[Len(word)]

\* tokenize_name_string() on the words that strtok_r() finds
Tokenize(words) ==
    LET cleaned == [i \in DOMAIN words |-> Clean(words[i])]
    IN Among(cleaned, ToSet(cleaned) \ {<< >>})

-----------------------------------------------------------------------------
(* Features *)

Feature(name, weight) == [name |-> name, weight |-> weight]
One(name) == <<Feature(name, 10)>>
When(cond, name) == IF cond THEN One(name) ELSE << >>

\* Token, lower case and lower case without punctuation: the same code twice.
TokenFeatures(w) ==
    One(<<"token", w>>) \o One(<<"token_lower", LowerCase(w)>>)
    \o When(NoPunct(w) # << >>, <<"nopunc", NoPunct(w)>>)

\* The neighbours up to a distance, beyond the ends BOS and EOS, which are
\* what the words BOS and EOS would be.
Neighbour(kind, i, words, p, beyond) ==
    IF p \in DOMAIN words THEN <<Feature(<<kind, i, words[p]>>, 8)>>
                          ELSE <<Feature(<<kind, i, beyond>>, 5)>>

ContextFeatures(words, i, window) ==
    LET prev[n \in 0..window] ==
            IF n = 0 THEN << >>
            ELSE prev[n - 1] \o Neighbour("prev", n, words, i - n, <<"B", "O", "S">>)
        next[n \in 0..window] ==
            IF n = 0 THEN << >>
            ELSE next[n - 1] \o Neighbour("next", n, words, i + n, <<"E", "O", "S">>)
    IN prev[window] \o next[window]

-----------------------------------------------------------------------------
(* Features of a backend. words are the tokens, i the one looked at.       *)

\* Mutant of BackendAffixes: prefixes are cut one character later.
LongerAffixes(w) ==
    LET c == NoPunct(w)
        upto[n \in 0..4] ==
            IF n = 0 THEN << >>
            ELSE upto[n - 1] \o One(<<"prefix", n, Prefix(c, n + 1)>>)
                             \o One(<<"suffix", n, Suffix(c, n)>>)
    IN upto[4]

\* get_prefix() and get_suffix() give all of a word that is too short.
BackendAffixes(w) ==
    LET c == NoPunct(w)
        upto[n \in 0..4] ==
            IF n = 0 THEN << >>
            ELSE upto[n - 1] \o One(<<"prefix", n, Prefix(c, n)>>)
                             \o One(<<"suffix", n, Suffix(c, n)>>)
    IN upto[4]

\* What is no letter counts for neither case.
BackendCase(w) ==
    LET dot == w[Len(w)] = "."
    IN When(w[1] \in Upper, <<"is_capitalized">>)
       \o When(~ Has(w, Lower), <<"is_all_caps">>)
       \o When(dot, <<"abbrev">>)
       \o When(dot /\ Len(w) <= 2, <<"initial">>)
       \o When(Has(w, {","}), <<"comma">>)
       \o When(Has(w, {"-"}), <<"hyphenated">>)
       \o When(Has(w, {"(", ")"}), <<"bracketed">>)
       \o When(~ Has(w, Upper), <<"is_all_lower">>)

BackendLength(w) ==
    <<Feature(<<"length">>, 10 * Len(w))>>
    \o One(IF Len(w) <= 4 THEN <<"length:", Len(w)>> ELSE <<"length:>4">>)

BackendCharacters(w) ==
    When(Has(w, Digits), <<"has_digit">>)
    \o When(Has(w, Punct), <<"has_punctuation">>)
    \o When(AllIn(w, Digits \cup {".", ","}), <<"is_numeric">>)
    \o When(AllIn(w, Roman), <<"roman">>)

\* The relative position is compared with 0.33 and 0.67.
BackendPosition(words, i) ==
    LET total == Len(words)
        pos == i - 1
    IN When(i = 1, <<"rawstring.start">>)
       \o When(i = total, <<"rawstring.end">>)
       \o When(total = 1, <<"singleton">>)
       \o When(total > 1, IF 100 * pos < 33 * (total - 1) THEN <<"pos_early">>
                          ELSE IF 100 * pos < 67 * (total - 1) THEN <<"pos_middle">>
                          ELSE <<"pos_late">>)
       \o <<Feature(<<"position", pos>>, 5)>>

BackendFeatures(words, i) ==
    LET w == words[i]
    IN TokenFeatures(w) \o One(<<"shape", Shape(w)>>) \o BackendAffixes(w)
       \o BackendCase(w) \o BackendLength(w) \o BackendCharacters(w)
       \o ContextFeatures(words, i, 3) \o BackendPosition(words, i)

-----------------------------------------------------------------------------
(* Features of the training tool *)

TrainerAffixes(w) ==
    LET c == NoPunct(w)
        most == Atmost(4, c)
    IN [n \in 1..most |-> Feature(<<"prefix", n, Prefix(c, n)>>, 10)]
       \o [n \in 1..most |-> Feature(<<"suffix", n, Suffix(c, n)>>, 10)]

\* Here every character has to be a letter of the case.
TrainerCase(w) ==
    When(w[1] \in Upper, <<"is_capitalized">>)
    \o When(AllIn(w, Upper), <<"is_all_caps">>)
    \o When(AllIn(w, Lower), <<"is_all_lower">>)

TrainerLength(w) ==
    One(<<"length:", Len(w)>>)
    \o When(Len(w) = 1, <<"is_single_char">>)
    \o When(Len(w) = 2, <<"is_two_char">>)
    \o When(Len(w) \in 3..4, <<"is_short">>)
    \o When(Len(w) >= 10, <<"is_long">>)

TrainerCharacters(w) ==
    When(Has(w, Digits), <<"has_digit">>)
    \o When(Has(w, Punct), <<"has_punct">>)
    \o When(Has(w, {"-"}), <<"has_hyphen">>)
    \o When(Has(w, {"."}), <<"has_dot">>)
    \o When(Len(w) > 1 /\ w[Len(w)] = ".", <<"ends_with_dot">>)

TrainerPosition(words, i) ==
    When(i = 1, <<"is_first">>) \o When(i = Len(words), <<"is_last">>)

TrainerFeatures(words, i) ==
    LET w == words[i]
    IN TokenFeatures(w) \o TrainerAffixes(w) \o TrainerCase(w) \o TrainerLength(w)
       \o TrainerCharacters(w) \o ContextFeatures(words, i, 2)
       \o TrainerPosition(words, i) \o One(<<"bias">>)
=============================================================================
