------------------------------ MODULE Dictionary ------------------------------
(***************************************************************************)
(* What crfsuite_dictionary_t promises to those who number labels and      *)
(* attributes with it: get() gives a string it does not know the next      *)
(* number, numbers are dense and are never given again, and to_string() of *)
(* a number stays what it is. Out of memory, get() still answers, with a   *)
(* number it will not remember.                                            *)
(***************************************************************************)
EXTENDS Integers, Sequences

CONSTANT Strings

VARIABLES
    names,   \* names[id + 1]: the string that got number id
    numbers  \* what get() and to_id() answer for the strings that are known

dictionaryVars == <<names, numbers>>

Num == Len(names)

DictionaryInit ==
    /\ names = << >>
    /\ numbers = [s \in {} |-> 0]

\* get() of a string that is not known
Issue(s) ==
    /\ s \notin DOMAIN numbers
    /\ names' = Append(names, s)
    /\ numbers' = [x \in DOMAIN numbers \cup {s} |-> IF x = s THEN Num ELSE numbers[x]]

\* The same, when the number cannot be remembered
Forget(s) ==
    /\ s \notin DOMAIN numbers
    /\ names' = Append(names, s)
    /\ UNCHANGED numbers

\* release() of the last reference
Release ==
    /\ names' = << >>
    /\ numbers' = [s \in {} |-> 0]

DictionaryNext ==
    \/ \E s \in Strings : Issue(s) \/ Forget(s)
    \/ Release

DictionarySpec == DictionaryInit /\ [][DictionaryNext]_dictionaryVars

-----------------------------------------------------------------------------

DictionaryTypeOK ==
    /\ names \in Seq(Strings)
    /\ DOMAIN numbers \subseteq Strings
    /\ numbers \in [DOMAIN numbers -> Nat]

\* to_string(get(s)) is s for every string that is known.
Consistent ==
    \A s \in DOMAIN numbers : numbers[s] \in 0..(Num - 1) /\ names[numbers[s] + 1] = s

=============================================================================
