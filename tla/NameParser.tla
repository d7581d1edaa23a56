------------------------------ MODULE NameParser ------------------------------
(***************************************************************************)
(* From labelled names to the columns of another name. The training tool   *)
(* numbers features and labels of its examples (crf_trainer.c), a model    *)
(* gives them weights, and a backend labels a name with it: tokens,        *)
(* features by the model's numbers, Viterbi, label names, columns          *)
(* (name_parser.c, feature_extractor.c, predict_sequence()).               *)
(*                                                                         *)
(* A call may end with an error wherever it asks Postgres for memory. The  *)
(* memory of the call is then reset, what is held outside of it stays:     *)
(* feature sets in crf_memory_context, instances and taggers by malloc().  *)
(***************************************************************************)
EXTENDS Features

CONSTANTS
    Corpora,    \* collections to train with, sequences of labelled names
    Factors,    \* a weight is one of these times the feature's frequency
    Names,      \* what a client may ask for, sequences of words
    MaxErrors   \* bound on the calls that end with an error

ASSUME NamesAssumption == Names \subseteq Seq(Seq(Chars))
ASSUME CorporaAssumption ==
    /\ Corpora \subseteq Seq(Seq([text : Seq(Chars), label : STRING]))
    /\ Factors \subseteq Int

VARIABLES
    corpus,
    data,       \* the instances made of the corpus so far
    attrs,      \* the dictionaries: what has number n is at place n + 1
    labels,
    factor,     \* what learning makes of the frequencies
    model,      \* [state, trans], once trained
    pc,         \* where the backend is
    tokens,
    inst,       \* the items so far, sequences of [aid, value]
    decoded,    \* Viterbi's labels, a function on 0..T-1
    result,     \* the tokens with their label names
    cols,       \* the columns of the last name
    held,       \* what the call holds outside of its memory
    kept,       \* how many of each kind failed calls have left behind
    errors,     \* how many calls have failed
    freq        \* for properties only: the corpus' feature frequencies by name

training == <<corpus, data, attrs, labels, factor, model, freq>>
vars == <<training, pc, tokens, inst, decoded, result, cols, held, kept, errors>>

\* The scores of a model that has these labels
C == INSTANCE Crf1d WITH NumLabels <- Len(labels)

Objects == {"features", "instance", "tagger"}

NothingKept == [o \in Objects |-> 0]

Texts(name) == [j \in DOMAIN name |-> name[j].text]

\* The corpus' frequencies by name: the code has them only by number.
Frequencies(c) ==
    LET places == UNION {{<<n, j>> : j \in DOMAIN c[n]} : n \in DOMAIN c}
        label(p) == c[p[1]][p[2]].label
        feats == [p \in places |-> TrainerFeatures(Texts(c[p[1]]), p[2])]
        pairs == UNION {{<<feats[p][f].name, label(p)>> : f \in DOMAIN feats[p]} : p \in places}
        steps == {p \in places : p[2] > 1}
        step(p) == <<label(<<p[1], p[2] - 1>>), label(p)>>
    IN [state |-> [q \in pairs |->
            MapThenSumSet(LAMBDA p :
                MapThenSumSet(LAMBDA f : feats[p][f].weight,
                    {f \in DOMAIN feats[p] : <<feats[p][f].name, label(p)>> = q}), places)],
        trans |-> [q \in {step(p) : p \in steps} |->
            100 * Cardinality({p \in steps : step(p) = q})]]

Init ==
    /\ corpus \in Corpora /\ factor \in Factors /\ freq = Frequencies(corpus)
    /\ data = << >> /\ attrs = << >> /\ labels = << >> /\ model = << >>
    /\ pc = "training"
    /\ tokens = << >> /\ inst = << >> /\ decoded = << >> /\ result = << >> /\ cols = << >>
    /\ held = {} /\ kept = NothingKept /\ errors = 0

-----------------------------------------------------------------------------
(* Training: the conversion of crf_trainer.c. The weights that learning    *)
(* finds are not modelled; multiples of the frequencies stand for them.    *)

\* The dictionary with a string, and with several
Get(dict, s) == IF Contains(dict, s) THEN dict ELSE Append(dict, s)
GetAll(dict, strings) == FoldLeft(Get, dict, strings)

\* Mutant of Id: numbers from 1.
IdFromOne(dict, s) == CHOOSE n \in DOMAIN dict : dict[n] = s

\* The string's number, from 0
Id(dict, s) == (CHOOSE n \in DOMAIN dict : dict[n] = s) - 1

Convert ==
    /\ pc = "training" /\ Len(data) < Len(corpus)
    /\ LET name == corpus[Len(data) + 1]
           feats == [j \in DOMAIN name |-> TrainerFeatures(Texts(name), j)]
           all == FlattenSeq(feats)
       IN /\ attrs' = GetAll(attrs, [c \in DOMAIN all |-> all[c].name])
          /\ labels' = GetAll(labels, [j \in DOMAIN name |-> name[j].label])
          /\ data' = Append(data, [j \in DOMAIN name |->
                [item |-> [c \in DOMAIN feats[j] |->
                    [aid |-> Id(attrs', feats[j][c].name), value |-> feats[j][c].weight]],
                 label |-> Id(labels', name[j].label)]])
    /\ UNCHANGED <<corpus, factor, model, freq, pc, tokens, inst, decoded, result, cols, held, kept, errors>>

Places == UNION {{<<i, j>> : j \in DOMAIN data[i]} : i \in DOMAIN data}
Place(p) == data[p[1]][p[2]]

\* The features that occur in the data, each weighted by its frequency. Values
\* are in tenths, so scores, and the weights of transitions, are in hundredths.
Learned(k) ==
    LET L == 0..(Len(labels) - 1)
        at(a) == {p \in Places : \E c \in DOMAIN Place(p).item : Place(p).item[c].aid = a}
        value(p, a) == Place(p).item[CHOOSE c \in DOMAIN Place(p).item :
                                        Place(p).item[c].aid = a].value
        steps(i) == {p \in Places : p[2] < Len(data[p[1]]) /\ Place(p).label = i}
        next(p) == data[p[1]][p[2] + 1].label
    IN [state |-> [a \in 0..(Len(attrs) - 1) |->
            {[dst |-> l, weight |-> k * MapThenSumSet(LAMBDA p : value(p, a),
                                        {p \in at(a) : Place(p).label = l})] :
             l \in {Place(p).label : p \in at(a)}}],
        trans |-> [i \in L |->
            {[dst |-> j, weight |-> 100 * k * Cardinality({p \in steps(i) : next(p) = j})] :
             j \in {next(p) : p \in steps(i)}}]]

Train ==
    /\ pc = "training" /\ Len(data) = Len(corpus)
    /\ model' = Learned(factor)
    /\ pc' = "idle"
    /\ UNCHANGED <<corpus, data, attrs, labels, factor, freq,
                   tokens, inst, decoded, result, cols, held, kept, errors>>

-----------------------------------------------------------------------------
(* A call of a backend *)

\* tokenize_name_string(); a name without tokens has no result.
Call(words) ==
    /\ pc = "idle"
    /\ tokens' = Tokenize(words)
    /\ pc' = IF tokens' = << >> THEN "idle" ELSE "item"
    /\ inst' = << >> /\ decoded' = << >> /\ result' = << >> /\ cols' = << >>
    /\ UNCHANGED <<training, held, kept, errors>>

\* create_feature_set() for the next token
CreateFeatureSet ==
    /\ pc = "item" /\ Len(inst) < Len(tokens)
    /\ held' = held \cup {"features"}
    /\ pc' = "features"
    /\ UNCHANGED <<training, tokens, inst, decoded, result, cols, kept, errors>>

\* cqdb's to_id() finds the feature.
Known(f) == Contains(attrs, f.name)

\* Mutant of SetFreed: the feature set is not freed.
SetKept(objects) == objects

\* free_feature_set()
SetFreed(objects) == objects \ {"features"}

\* The features of one token, of which the item keeps those the model knows
ExtractFeatures ==
    /\ pc = "features"
    /\ LET feats == BackendFeatures(tokens, Len(inst) + 1)
           known == Among(feats, {f \in ToSet(feats) : Known(f)})
       IN inst' = Append(inst, [c \in DOMAIN known |->
                      [aid |-> Id(attrs, known[c].name), value |-> known[c].weight]])
    /\ held' = SetFreed(held) \cup {"instance"}
    /\ pc' = IF Len(inst') = Len(tokens) THEN "predict" ELSE "item"
    /\ UNCHANGED <<training, tokens, decoded, result, cols, kept, errors>>

\* predict_sequence() up to the memory for the labels
GetTagger ==
    /\ pc = "predict"
    /\ held' = held \cup {"tagger"}
    /\ pc' = "tagging"
    /\ UNCHANGED <<training, tokens, inst, decoded, result, cols, kept, errors>>

\* The best path of the instance
Decoded(items) ==
    LET n == Len(items)
        scores == [t \in 0..(n - 1) |-> C!ItemScores(model, items[t + 1])]
        trans == C!TransScores(model)
        rows == C!ViterbiRows(n, scores, trans)
    IN C!Trace(n, rows, C!BackEdges(n, rows, trans))

Predict ==
    /\ pc = "tagging"
    /\ decoded' = Decoded(inst)
    /\ held' = held \ {"tagger"}
    /\ pc' = "result"
    /\ UNCHANGED <<training, tokens, inst, result, cols, kept, errors>>

\* map_crf_label_to_name_component() on a label's name
Component(label) ==
    CASE label = "GIVEN" -> "GivenName"         [] label = "SURNAME" -> "Surname"
      [] label = "MIDDLE" -> "MiddleName"       [] label = "PREFIX" -> "PrefixMarital"
      [] label = "SUFFIX" -> "SuffixGenerational" [] label = "NICKNAME" -> "Nickname"
      [] label = "TITLE" -> "PrefixOther"       [] OTHER -> label

\* Mutant of LabelName: the numbers of labels count from 1.
LabelNameFromOne(l) == labels[IF l = 0 THEN 1 ELSE l]

\* to_string() of the model's labels
LabelName(l) == labels[l + 1]

\* The ParseResult, and the release of everything else
MakeResult ==
    /\ pc = "result"
    /\ result' = [i \in DOMAIN tokens |->
                     [text |-> tokens[i], label |-> Component(LabelName(decoded[i - 1]))]]
    /\ held' = held \ {"instance"}
    /\ pc' = "columns"
    /\ UNCHANGED <<training, tokens, inst, decoded, cols, kept, errors>>

Columns == {"prefix", "given_name", "middle_name", "surname", "suffix", "nickname",
            "corporation_name", "corporation_type", "organization", "other"}

ColumnOf(label) ==
    CASE label \in {"PrefixMarital", "PrefixOther"} -> "prefix"
      [] label \in {"GivenName", "FirstInitial"} -> "given_name"
      [] label \in {"MiddleName", "MiddleInitial"} -> "middle_name"
      [] label \in {"Surname", "LastInitial"} -> "surname"
      [] label \in {"SuffixGenerational", "SuffixOther"} -> "suffix"
      [] label = "Nickname" -> "nickname"
      [] label \in {"CorporationName", "ShortForm"} -> "corporation_name"
      [] label = "CorporationLegalType" -> "corporation_type"
      [] label \in {"CorporationNameOrganization", "CorporationNameAndCompany",
                    "CorporationCommitteeType", "CorporationNameBranchType",
                    "CorporationNameBranchIdentifier"} -> "organization"
      [] OTHER -> "other"

\* Mutant of AppendComponent: a second word replaces the first.
ReplaceComponent(dest, src) == <<src>>

\* append_name_component(): the words of a column, in order
AppendComponent(dest, src) == Append(dest, src)

\* parse_name_to_cols()
ToColumns ==
    /\ pc = "columns"
    /\ cols' = FoldLeft(LAMBDA c, t :
                    [c EXCEPT ![ColumnOf(t.label)] = AppendComponent(@, t.text)],
                    [c \in Columns |-> << >>], result)
    /\ pc' = "idle"
    /\ UNCHANGED <<training, tokens, inst, decoded, result, held, kept, errors>>

\* palloc() raises an error: the call's memory goes, what it holds elsewhere stays.
OutOfMemory ==
    /\ pc \in {"item", "features", "tagging", "result", "columns"} /\ errors < MaxErrors
    /\ errors' = errors + 1
    /\ kept' = [o \in Objects |-> kept[o] + (IF o \in held THEN 1 ELSE 0)]
    /\ held' = {} /\ pc' = "idle"
    /\ tokens' = << >> /\ inst' = << >> /\ decoded' = << >> /\ result' = << >> /\ cols' = << >>
    /\ UNCHANGED training

Next ==
    \/ Convert \/ Train
    \/ \E words \in Names : Call(words)
    \/ CreateFeatureSet \/ ExtractFeatures \/ GetTagger \/ Predict
    \/ MakeResult \/ ToColumns \/ OutOfMemory

Spec == Init /\ [][Next]_vars

-----------------------------------------------------------------------------
(* Properties *)

\* Numbers are those of the dictionaries, wherever a call is.
TypeOK ==
    /\ corpus \in Corpora /\ errors \in 0..MaxErrors /\ held \subseteq Objects
    /\ pc \in {"training", "idle", "item", "features", "predict", "tagging", "result", "columns"}
    /\ \A p \in Places : /\ Place(p).label \in 0..(Len(labels) - 1)
                         /\ \A c \in DOMAIN Place(p).item :
                                Place(p).item[c].aid \in 0..(Len(attrs) - 1)
    /\ \A i \in DOMAIN inst : \A c \in DOMAIN inst[i] : inst[i][c].aid \in 0..(Len(attrs) - 1)
    /\ \A l \in DOMAIN decoded : decoded[l] \in 0..(Len(labels) - 1)

\* All of w behind its first n characters are dots and commas, and no
\* abbreviation ends among them.
MayCut(w, n) ==
    \A m \in (n + 1)..Len(w) : w[m] \in {".", ","} /\ SubSeq(w, 1, m) \notin Abbreviations

\* tokenize_name_string() keeps the words in order; a token is its word up to
\* trailing dots and commas, of which an abbreviation keeps its dot whatever
\* follows, and is a token again: nothing more would be removed. A word is lost
\* only if it is nothing but dots and commas.
TokensSettle ==
    \A words \in (IF pc = "training" THEN Names ELSE {}) :
        LET ts == Tokenize(words)
        IN /\ Tokenize(ts) = ts
           /\ \E f \in [DOMAIN ts -> DOMAIN words] :
                /\ \A i, j \in DOMAIN ts : i < j => f[i] < f[j]
                /\ \A i \in DOMAIN ts : /\ IsPrefix(ts[i], words[f[i]])
                                        /\ MayCut(words[f[i]], Len(ts[i]))
                /\ \A k \in DOMAIN words : MayCut(words[k], 0) \/ \E i \in DOMAIN ts : f[i] = k

\* The features of an item that the model sees, by name
Served(i) ==
    {Feature(attrs[inst[i][c].aid + 1], inst[i][c].value) : c \in DOMAIN inst[i]}

\* Those that training would give the same token, as far as the model knows them
Trained(i) == {f \in ToSet(TrainerFeatures(tokens, i)) : Known(f)}

\* What only the training tool calls by this name
TrainerOnly ==
    {<<"is_single_char">>, <<"is_two_char">>, <<"is_short">>, <<"is_long">>, <<"has_punct">>,
     <<"has_hyphen">>, <<"has_dot">>, <<"ends_with_dot">>, <<"is_first">>, <<"is_last">>,
     <<"bias">>}

\* A backend and the training tool extract features with code of their own. What
\* the model learned of a name means the same when a name is parsed: an item has
\* the features and values training would give the token, except for the case of
\* tokens with other characters than letters, the names only the tool uses, and
\* lengths over 4. In particular the affixes of words that are too short for
\* them (get_prefix()) are never taken for those of a longer word.
ServedAsTrained ==
    \A i \in DOMAIN inst :
        /\ \A f \in Served(i) \ Trained(i) :
                /\ f.name \in {<<"is_all_caps">>, <<"is_all_lower">>}
                /\ Has(tokens[i], Digits \cup Punct)
        /\ \A f \in Trained(i) \ Served(i) :
                f.name \in TrainerOnly \/ (f.name[1] = "length:" /\ f.name[2] > 4)

\* The score of a labelling by the names of features and labels, without any number
Worth(path) ==
    LET known(q) == IF q \in DOMAIN freq.state THEN factor * freq.state[q] ELSE 0
        step(q) == IF q \in DOMAIN freq.trans THEN factor * freq.trans[q] ELSE 0
        item(i) == MapThenSumSet(LAMBDA f : f.weight * known(<<f.name, path[i]>>),
                                 ToSet(BackendFeatures(tokens, i)))
    IN MapThenSumSet(item, DOMAIN path)
       + MapThenSumSet(LAMBDA i : step(<<path[i], path[i + 1]>>), 1..(Len(path) - 1))

\* The labels of a name are a best labelling of its tokens by what the corpus
\* says of their features, whatever numbers the dictionaries gave to them.
BestByName ==
    pc = "columns" =>
        LET found == [i \in DOMAIN tokens |-> labels[decoded[i - 1] + 1]]
        IN /\ \A i \in DOMAIN result : result[i].label = Component(found[i])
           /\ \A path \in [DOMAIN tokens -> ToSet(labels)] : Worth(path) <= Worth(found)

\* Every token of the name is in one column, each column has its own in the order
\* of the name, and none is lost to a label that has no column.
ColumnsHoldTheName ==
    cols # << >> =>
        /\ \A c \in Columns : cols[c] = Texts(Among(result, {t \in ToSet(result) : ColumnOf(t.label) = c}))
        /\ MapThenSumSet(LAMBDA c : Len(cols[c]), Columns) = Len(tokens)

\* Calls that return leave nothing outside of their memory; one that fails leaves
\* at most one feature set, one instance and one tagger for the backend's life.
OneOfEachPerError ==
    /\ pc = "idle" => held = {}
    /\ \A o \in Objects : kept[o] <= errors
=============================================================================
