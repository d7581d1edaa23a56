--------------------------- MODULE MCTrainingParser ---------------------------
(* TrainingParser on short files: well-formed collections, every sequence of   *)
(* complete lexemes, two names run together, and such files cut inside a tag.  *)
EXTENDS TrainingParser, SequencesExt

\* A name of up to n label elements, one of them possibly empty.
Element == {<<"label", "text", "endlabel">>, <<"label", "endlabel">>,
            <<"label", "text", "endlabel", "space">>,
            <<"label", "space", "text", "space", "endlabel">>}
Elements(n) == UNION {{FlattenSeq(s) : s \in [1..k -> Element]} : k \in 0..n}
Name(n) == {<<"name">> \o e \o <<"endname">> : e \in Elements(n)}

\* <NameCollection>, up to two names, </NameCollection>; one of three elements.
WellFormed ==
    {<<"label">> \o a \o b \o <<"endlabel">> :
        a \in Name(2) \cup {<<"space">> \o n : n \in Name(1)}, b \in Name(1) \cup {<<>>}}
    \cup Name(3)

Complete == Lexemes \ Cut
Short(n) == UNION {[1..k -> Complete] : k \in 0..n}
CutShort == {<<"name">> \o s \o <<c>> : s \in Short(3), c \in Cut}

\* Two labelled texts with anything between them, the second perhaps cut off.
TwoNames == {<<"name", "label", "text">> \o s \o <<"name", "label", "text">> \o e :
                s \in Short(2), e \in {<<>>, <<"endname">>} \cup {<<c>> : c \in Cut}}

AnyFile == WellFormed \cup Short(4) \cup CutShort \cup TwoNames

\* What a well-formed collection means: the elements with text of each name, up
\* to MaxTokens of them, in file order; names without any are left out.
Meaning(d) ==
    LET names == {i \in DOMAIN d : d[i] = "name"}
        close(i) == CHOOSE j \in i..Len(d) : d[j] = "endname" /\ \A k \in i..(j-1) : d[k] # "endname"
        elem(j) == CHOOSE k \in j..Len(d) : d[k] = "endlabel" /\ \A m \in j..(k-1) : d[m] # "endlabel"
        text(j) == {k \in j..elem(j) : d[k] = "text"}
        labels(i) == {j \in i..close(i) : d[j] = "label" /\ text(j) # {}}
        tokens(i) == LET l == SetToSortSeq(labels(i), <)
                     IN [k \in 1..(IF Len(l) < MaxTokens THEN Len(l) ELSE MaxTokens) |->
                            [label |-> l[k], text |-> text(l[k])]]
        full == SetToSortSeq({i \in names : labels(i) # {}}, <)
    IN [k \in DOMAIN full |-> tokens(full[k])]

\* A well-formed file gives exactly the examples it contains.
MeaningPreserved == mode = "done" /\ doc \in WellFormed => data = Meaning(doc)

===============================================================================
