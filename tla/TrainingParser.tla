---------------------------- MODULE TrainingParser ----------------------------
(***************************************************************************)
(* parse_training_file() and parse_name_element() of                       *)
(* src/training_data_parser.c: one pass over the NUL-terminated text of a  *)
(* labelled name file. A step is one iteration of one of the two loops.    *)
(*                                                                         *)
(* The text is a sequence of lexemes. Only what the scanner tells apart is *)
(* kept: the tags <Name>, </Name>, any other opening tag ("label"), any    *)
(* other closing tag ("endlabel"), the nameless tags <> and </> ("empty"), *)
(* "text" and "space". A file that ends inside a tag ends with the "cut"   *)
(* lexeme of that tag, which has no '>'.                                   *)
(***************************************************************************)
EXTENDS Naturals, Sequences

CONSTANTS
    Docs,            \* the files to parse, sequences of lexemes
    MaxTokens,       \* MAX_TOKENS_PER_NAME
    InitialCapacity  \* INITIAL_CAPACITY

ASSUME BoundAssumption == MaxTokens \in Nat \ {0} /\ InitialCapacity \in Nat \ {0}

Opening == {"name", "label", "cutname", "cutlabel"}
Closing == {"endname", "endlabel", "cutendname", "cutendlabel"}
Cut == {"cutname", "cutlabel", "cutendname", "cutendlabel"}
Lexemes == Opening \cup Closing \cup {"empty", "text", "space"}

ASSUME DocsAssumption == Docs \subseteq Seq(Lexemes)

VARIABLES
    doc,   \* the file
    pos,   \* p: the next lexeme; Len(doc) + 1 is the terminating NUL
    mode,  \* the loop that runs, or how the scan ended
    start, \* where the <Name> being parsed begins
    seq,   \* its tokens so far
    data,  \* the sequences collected
    cap,   \* slots allocated for them
    heap   \* label tags whose label and text strings are allocated

vars == <<doc, pos, mode, start, seq, data, cap, heap>>

At(i) == IF i \in 1..Len(doc) THEN doc[i] ELSE "eof"

\* The first lexeme from i on that is not in S.
Skip(S, i) == CHOOSE j \in i..(Len(doc) + 2) :
                 At(j) \notin S /\ \A k \in i..(j - 1) : At(k) \in S

SkipSpace(i) == Skip({"space"}, i)

\* Mutant of TagEnd: one too far.
BehindTagEnd(i) == IF At(i) \in Cut THEN 0 ELSE i + 2

\* find_tag_end() of the tag at i: 0, the null pointer, when there is no '>'.
TagEnd(i) == IF At(i) \in Cut THEN 0 ELSE i + 1

\* A token: where its label was read, and the text lexemes of its content.
TokenAt(i, end) == [label |-> i, text |-> {k \in i..(end - 1) : At(k) = "text"}]

Labels(s) == {s[i].label : i \in DOMAIN s}
AllLabels(d) == UNION {Labels(d[i]) : i \in DOMAIN d}

TypeOK ==
    /\ doc \in Docs
    /\ pos \in 0..(Len(doc) + 2)
    /\ mode \in {"outer", "inner", "done", "crashed", "past"}
    /\ start \in 0..Len(doc)
    /\ \A i \in DOMAIN seq : seq[i].label \in DOMAIN doc /\ seq[i].text \subseteq DOMAIN doc
    /\ cap \in Nat
    /\ heap \subseteq DOMAIN doc
    /\ mode \in {"outer", "inner"} => pos \in 1..(Len(doc) + 1)

Init ==
    /\ doc \in Docs
    /\ pos = 1
    /\ mode = "outer"
    /\ start = 0
    /\ seq = <<>>
    /\ data = <<>>
    /\ cap = InitialCapacity
    /\ heap = {}

\* Mutant of GoTo: the loop ends at the null pointer only after one more turn.
GoOnAtNull(p) ==
    /\ pos' = p
    /\ mode' = mode

\* p is dereferenced by the loop condition that comes next.
GoTo(p) ==
    /\ pos' = p
    /\ mode' = IF p = 0 THEN "crashed" ELSE mode

-----------------------------------------------------------------------------
(* parse_training_file(): between name elements *)

\* while (*p): the scan is over.
Finish ==
    /\ mode = "outer" /\ At(pos) = "eof"
    /\ mode' = "done"
    /\ UNCHANGED <<doc, pos, start, seq, data, cap, heap>>

\* Anything but a tag is stepped over; after trailing white space that is the
\* terminating NUL, and the loop goes on behind the buffer.
OuterOther ==
    LET p == SkipSpace(pos) IN
    /\ mode = "outer" /\ At(pos) # "eof"
    /\ At(p) \in {"text", "empty", "eof"}
    /\ pos' = p + 1
    /\ mode' = IF At(p) = "eof" THEN "past" ELSE "outer"
    /\ UNCHANGED <<doc, start, seq, data, cap, heap>>

\* "Skip other tags": one that is cut off ends the scan.
OuterTag ==
    LET p == SkipSpace(pos) IN
    /\ mode = "outer" /\ At(pos) # "eof"
    /\ At(p) \in (Opening \cup Closing) \ {"name", "cutname"}
    /\ pos' = TagEnd(p)
    /\ mode' = IF TagEnd(p) = 0 THEN "done" ELSE "outer"
    /\ UNCHANGED <<doc, start, seq, data, cap, heap>>

OpenName ==
    LET p == SkipSpace(pos) IN
    /\ mode = "outer" /\ At(p) = "name"
    /\ pos' = TagEnd(p)
    /\ mode' = "inner"
    /\ start' = p
    /\ seq' = <<>>
    /\ UNCHANGED <<doc, data, cap, heap>>

\* parse_name_element() fails before it has set *endptr: the next iteration is
\* the same again, a stuttering step.
OpenCutName ==
    LET p == SkipSpace(pos) IN
    /\ mode = "outer" /\ At(p) = "cutname"
    /\ pos' = p
    /\ UNCHANGED <<doc, mode, start, seq, data, cap, heap>>

-----------------------------------------------------------------------------
(* parse_name_element(): the tokens of one name *)

\* add_sequence() doubles a full array.
Grown(n) == IF n >= cap THEN cap * 2 ELSE cap

\* parse_name_element() returns 0 with *endptr = p: a name with tokens is kept.
Accept(p) ==
    /\ pos' = p
    /\ mode' = IF p = 0 THEN "crashed" ELSE "outer"
    /\ data' = IF seq = <<>> THEN data ELSE Append(data, seq)
    /\ cap' = IF seq = <<>> THEN cap ELSE Grown(Len(data))
    /\ seq' = <<>>
    /\ UNCHANGED <<doc, start, heap>>

\* </Name>, or the end of the file: the name need not be closed.
EndName ==
    LET p == SkipSpace(pos) IN
    /\ mode = "inner"
    /\ \/ At(p) \in {"endname", "cutendname"} /\ Accept(TagEnd(p))
       \/ At(p) = "eof" /\ Accept(p)

\* Mutant of HasRoom: num_tokens <= MAX_TOKENS_PER_NAME.
RoomForOneMore == Len(seq) <= MaxTokens

HasRoom == Len(seq) < MaxTokens

\* The closing tag after a token's text, whatever its name, is consumed.
AfterContent(p) == IF At(p) \in Closing THEN TagEnd(p) ELSE p

\* Mutant of Dropped: the strings of a token that is not stored are kept.
NothingDropped(t) == {t.label}

\* A token without text, or beyond the last slot, is freed.
Dropped(t) == {}

\* A label tag, its text and its closing tag. Every opening tag is a label,
\* <Name> too when the name before it was not closed.
LabelToken ==
    LET p == SkipSpace(pos)
        end == Skip({"text", "space"}, p + 1)
        t == TokenAt(p, end)
        stored == t.text # {} /\ HasRoom
    IN
    /\ mode = "inner"
    /\ At(p) \in {"label", "name"}
    /\ GoTo(AfterContent(end))
    /\ seq' = IF stored THEN Append(seq, t) ELSE seq
    /\ heap' = heap \cup (IF stored THEN {p} ELSE Dropped(t))
    /\ UNCHANGED <<doc, start, data, cap>>

\* Mutant of FailName: the tokens parsed so far are kept as a sequence.
KeepPartialName ==
    LET p == SkipSpace(pos) IN
    /\ mode = "inner"
    /\ At(p) \in {"cutlabel", "cutname"}
    /\ Accept(start)

\* An opening tag without end fails the name: the caller frees its tokens and
\* goes on from *endptr, which still is where the name begins.
FailName ==
    LET p == SkipSpace(pos) IN
    /\ mode = "inner"
    /\ At(p) \in {"cutlabel", "cutname"}
    /\ pos' = start
    /\ mode' = "outer"
    /\ heap' = heap \ Labels(seq)
    /\ seq' = <<>>
    /\ UNCHANGED <<doc, start, data, cap>>

\* Mutant of StrayClosing: the tag is not skipped.
KeepStrayClosing ==
    /\ mode = "inner"
    /\ At(SkipSpace(pos)) \in {"endlabel", "cutendlabel"}
    /\ pos' = SkipSpace(pos)
    /\ UNCHANGED <<doc, mode, start, seq, data, cap, heap>>

\* "Unexpected closing tag, skip"
StrayClosing ==
    LET p == SkipSpace(pos) IN
    /\ mode = "inner"
    /\ At(p) \in {"endlabel", "cutendlabel"}
    /\ GoTo(TagEnd(p))
    /\ UNCHANGED <<doc, start, seq, data, cap, heap>>

InnerOther ==
    LET p == SkipSpace(pos) IN
    /\ mode = "inner"
    /\ At(p) \in {"text", "empty"}
    /\ pos' = p + 1
    /\ UNCHANGED <<doc, mode, start, seq, data, cap, heap>>

Scan ==
    \/ Finish \/ OuterOther \/ OuterTag \/ OpenName \/ OpenCutName
    \/ EndName \/ LabelToken \/ FailName \/ StrayClosing \/ InnerOther

Ended == mode \in {"done", "crashed", "past"}

Next == Scan \/ (Ended /\ UNCHANGED vars)

\* A sequential scan: nothing but its own code can hold it up.
Spec == Init /\ [][Next]_vars /\ WF_vars(Scan)

-----------------------------------------------------------------------------
(* What makes the scan correct *)

\* All tokens parsed and kept, in the order in which they were stored.
Kept == data \o (IF seq = <<>> THEN <<>> ELSE <<seq>>)

\* A </Name> that ends a name: not one that stands behind a label and its text,
\* where it passes for the label's closing tag.
EndsName(k) ==
    /\ At(k) \in {"endname", "cutendname"}
    /\ ~\E j \in 1..(k - 1) : /\ At(j) \in {"label", "name"}
                              /\ \A i \in (j + 1)..(k - 1) : At(i) \in {"text", "space"}

\* No label tag and no text is used twice, and the training data follows the
\* order of the file, however malformed it is. Labels of two names get into one
\* sequence only if the name before was not closed: a </Name> between two tokens
\* of a sequence was taken for the end of a label.
FileOrder ==
    /\ \A i, j \in DOMAIN Kept : \A m \in DOMAIN Kept[i], n \in DOMAIN Kept[j] :
        (i < j \/ (i = j /\ m < n)) =>
            /\ Kept[i][m].label < Kept[j][n].label
            /\ Kept[i][m].text \cap Kept[j][n].text = {}
    /\ \A i \in DOMAIN Kept : \A m, n \in DOMAIN Kept[i] :
        m < n => \A k \in Kept[i][m].label..Kept[i][n].label : ~EndsName(k)

\* Whatever the file, the scan leaves its text in two cases only: behind the
\* NUL, if the file ends with white space, and through the null pointer that
\* find_tag_end() returns for a closing tag that is cut off.
StaysInside ==
    /\ mode # "past" => pos \in 0..(Len(doc) + 1)
    /\ mode = "past" => At(Len(doc)) = "space"
    /\ mode = "crashed" => \E i \in DOMAIN doc : doc[i] \in Cut \cap Closing

\* add_sequence() writes inside its array and parse_name_element() inside
\* tokens; every string that is allocated belongs to a stored token, and the
\* strings of a stored token are not freed: free_training_data() frees all, once.
MemorySafe ==
    /\ Len(data) <= cap /\ \A i \in DOMAIN Kept : Len(Kept[i]) <= MaxTokens
    /\ heap = AllLabels(Kept)

\* A file in which every tag is complete is scanned to its end. (One that ends
\* inside a label tag is not: its last name is parsed for ever.)
CompleteFilesEnd == (\A i \in DOMAIN doc : doc[i] \notin Cut) => <>Ended

===============================================================================
