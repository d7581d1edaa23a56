# Specifications of pg_probablepeople

TLA+ modules, TLC runs and TLAPS proofs for the pg_probablepeople extension: a
Postgres backend that labels the words of a name with a CRF model, and the
command line tool that trains such models. Paths below are relative to the
repository.

## Inventory

| Component | Source | State | Operations | What makes it correct |
|---|---|---|---|---|
| SQL entry points | `src/pg_probablepeople.c`, `sql/` | rows still to return of each open `parse_name()` | `_PG_init`, `parse_name_crf`, `tag_name_crf`, `parse_name_cols` | an error is raised exactly when no model could be loaded; rows stay readable; the functions are declared immutable |
| Model registry | `src/crfsuite_wrapper.c` | three static slots, each with a native model, its dictionaries, two strings and `is_loaded` | `load_default_model`, `load_model_from_file`, `free_crf_model`, `get_active_model`, `predict_sequence` | nothing leaks; a slot that says it is loaded can be used; a failed load is retried |
| Name parser | `src/name_parser.c` | what a call holds | tokenizer, `parse_name_string`, label mapping, jsonb and columns | the labels are a best labelling by name; no word is lost; results outlive the model |
| Feature extractor | `src/feature_extractor.c` | none (feature sets in a context that is never reset) | feature sets of a token window, attributes by id | a feature means what it meant in training |
| Training data parser | `src/training_data_parser.c` | position, current name, collected sequences | `parse_training_file`, `parse_name_element`, `add_sequence` | the examples are those of the file; it ends, in bounds, and owns its strings |
| Training driver | `src/crf_trainer.c`, `tools/train_model.c` | instances and dictionaries made so far | `train_crf_model`, `train_generic_model`, the CLI | says whether a model was written |
| Model file | `crf1d_model.c`, `crf1d_encode.c` | the file, the writer's state | `crf1de_save_model`, chunk writer, reader | reading gives back the trained weights; a half-written file is recognised |
| CQDB | `cqdb.c` | hash tables and backlinks | put, close, `to_id`, `to_string` | each string has its id, lookups end |
| Dictionary, quark, tree | `dictionary.c`, `quark.c`, `rumavl.c` | string to id, an AVL tree | `get`, `to_id`, `to_string` | ids are dense and stable; the tree stays ordered and balanced |
| Encoder, features | `crf1d_encode.c`, `crf1d_feature.c` | feature array, score tables, a level of validity | `set_weights`, `set_instance`, `score`, `viterbi`, `partition_factor`, `objective_and_gradients`, batch | answers are those of the weights and the instance that are set |
| Tagger, Viterbi | `crf1d_tag.c`, `crf1d_context.c` | score tables | `set`, `viterbi`, `score`, `lognorm`, `marginal_*` | the path found is a best one; answers are about the sequence that is set |
| L2SGD training | `train_l2sgd.c`, `crfsuite_train.c`, `params.c`, `dataset.c`, `holdout.c` | options, order of instances, weights, decay | `train`: calibration, epochs | the best rate starts, lazy decay is exact, the best epoch is saved |
| Containers | `crfsuite.c`, `logging.c` | growing arrays | append, swap, finish | - |
| Not built or empty | L-BFGS, AROW, perceptron, PA; `model_loader.*` | - | stubs | - |

The crfsuite files are under `src/crfsuite/src/`. How the parts interact: an SQL
call asks the registry for a model, which may load model files; the name parser
maps feature strings to ids in the model's CQDB, runs Viterbi with the weights
of the model file and copies the labels out. The trainer parses XML, numbers
features and labels with the dictionaries, learns weights and writes the file
that a later load reads. Backend and tool share only that file.

What is hard here: a backend is sequential, but its calls overlap (a cursor's
rows are fetched while other calls run), memory belongs to contexts that are
reset at different times, an error may leave a load half done, files change
under a running backend, and the tool may be killed or meet a full disk. The
`hazards` list of `PROJECT.json` gives each such place with its line.

## Modules

| Module | Models | Uses |
|---|---|---|
| `ModelRegistry`, `ModelRegistryProofs` | `crfsuite_wrapper.c`, `pg_probablepeople.c` | |
| `Features` | tokenizer, features of `feature_extractor.c` and of `crf_trainer.c` | |
| `NameParser`, `NameParserProofs` | `name_parser.c`, `predict_sequence()`, conversion of `crf_trainer.c` | `Features`, `Crf1d` |
| `TrainingParser`, `TrainingParserProofs` | `training_data_parser.c` | |
| `RumAvl` | `rumavl.c` | |
| `Cqdb` | `cqdb.c` | |
| `Vocabulary`, `VocabularyProofs` | `dictionary.c`, `quark.c`, saving to and reading from CQDB | `RumAvl`, `Cqdb`, implements `Dictionary` |
| `Dictionary` | what `crfsuite_dictionary_t` promises (proofs in `VocabularyProofs`) | |
| `ModelFile`, `ModelFileProofs` | `crf1de_save_model()`, `crf1d_model.c` | |
| `Fractions`, `Crf1d` | arithmetic; algorithms of `crf1d_context.c` | |
| `Tagger`, `TaggerProofs` | `crf1d_tag.c` | `Crf1d` |
| `Encoder` | `crf1d_encode.c`, `crf1d_feature.c` | `Crf1d` |
| `Training`, `TrainingProofs` | `train_l2sgd.c`, `params.c`, `dataset.c`, `crfsuite_train.c` | `Fractions` |

`Foundations` holds the lemmas that several of the proof modules need: induction,
recursive functions, folds and sums over finite sets, division with remainder,
fractions. `MC...` modules give the constants values. `MCTrainingParser` also defines, apart
from the scanner, what a well-formed file means. An operator marked "Mutant of"
is a plausible bug in the operator below it, one for each property.

### ModelRegistry

One backend. `slot` holds the three static pointers, `live` the native models
that crfsuite has allocated and not freed, `file` what is installed, `pc`,
`who`, `target` and `anyOk` the call that is running (`load_default_model()`
goes through person, company, generic), `cursor` the open `parse_name()`
calls. `answers` and `touched` record, for properties only, which model gave an
answer, and which kinds of freed memory were read.

A call is cut where another actor can show: between two loads (a file may be
replaced) and between freeing a slot and opening its file. The `ereport(LOG)`
that ends a load runs Postgres' interrupt check, so `OpenModelCancelled` leaves
the load by an error after the slot was filled. An error resets the memory
context of the call (`Abort`), and perhaps enclosing ones. A `_PG_init` that
fails runs again on the next use, with the slots as they are.

Reading freed memory is undefined: it may do nothing visible, raise an error
(`pfree` of a chunk without header) or crash the backend. `Outcomes` lists the
outcomes a build has, and the safety properties hold for all of them.

Postgres itself (fork, contexts, errors, signals) is external: it is modelled
as this code uses it.

### TrainingParser

One scan over a file. The text is a sequence of lexemes, those the scanner tells
apart; a file cut inside a tag ends with a lexeme that has no `>`. One action is
one iteration of one of the two loops. `heap` is the set of label tags whose
strings are allocated. Allocation failures are left out.

### ModelFile

`crf1de_save_model()` and the reader. The file is a header and five chunks, each
with items and a seal (its own header or offset table). One action is one writer
call. `lost` is a write that stdio could not do: `ferr` stays set, and only
`cqdb_writer_put()`, `cqdb_writer_close()` and `crf1dmw_close()` look at it.
`Complete` says that the tagger's lookups give the trained weights, by way of
attribute id, references and feature numbers. A write of 2072 bytes (CQDB header
and table references) fits the stdio buffer and is one step. Byte positions and
padding are left out. What is still buffered when the process is killed belongs
to the current chunk, so the file is as it was after an earlier step, which is a
state of the model too.

### Fractions, Crf1d and Tagger

`Crf1d` holds the algorithms of `crf1d_context.c` as operators: scores, Viterbi with
its backward edges, scaled forward and backward passes, marginals. A score is an
integer and its exponential a power of two, so what the code keeps in the
exponential domain is an exact fraction (`Fractions`). `Tagger` is one
`crfsuite_tagger_t`: one action per function of its interface, in any order. Its
tables are variables that outlive a sequence, as in the code: they grow with the
longest one, a shorter one writes the first rows only, Viterbi uses the table of
the forward scores, and `level` says whether forward and backward scores are
there. `overwritten` records, for properties only, that Viterbi has run since.
The properties compare answers with `Worth`, the weights of the features that
fire on a path, which is defined without the tables.

### Encoder

One `encoder_t`. `Init` is `encoder_initialize()`: the feature array generated from
the data set, in `featureset_comp()`'s order, and a context for its longest
instance. Then one action per call. `level` is the code's: a call raises it and
computes what lies between, and an answer may use whatever is already in the
tables `ctx`. `crf1dc_reset()` clears the expectations whichever table it resets;
on that rests that `crf1dc_marginals()` may add to them. `moved` says that the
client's array of weights, which is the array that gradients are added to in
`l2sgd()`, is no longer the one that was set. The objective is kept as its
exponential. `encoder_features_on_path()` serves trainers that are not built.

`misused` marks two orders of calls in which the gradients are wrong, and which
`l2sgd()` does not make: Viterbi between the partition factor and the gradients,
and the partition factor after the gradients, which drops `level` below
`LEVEL_MARGINAL`, so that the next gradients add the transition expectations a
second time.

### Training

`train_crf_model()` from its options to `save_model()`. `params` is the table by
name and type: setting an option that nobody declared changes nothing. Numbers
are exact fractions; one weight stands for all, as each gets the same factors.
Its gradient is any of `Gradients` or not finite, the objective of a trial or
epoch any of `Losses`: the properties hold whatever the data make of them.
`eager` is the weight of the textbook update, `tried` the trials and `ends` the
epochs, for properties only. `Shuffle` is `dataset_shuffle()` with every outcome
of `rand()`. Each of the allocations of `l2sgd()` and of its caller may fail.

### Features and NameParser

A word is a sequence of characters, so that `get_prefix()`, `get_suffix()`, the
shapes and the tokenizer's loop are modelled by what they compute. A feature is
a tuple and a weight in tenths. The two copies of the extraction code are two
sets of operators; where they are the same code they share one.

`NameParser` first converts a corpus as `train_crf_model()` does, numbering features
and labels, then lets a model weight them by multiples of their frequencies (of
either sign), in place of what learning finds. A backend's call goes through
feature set, item, tagger, Viterbi, label names and columns, and may end with an
error at each allocation. `held` is what the call holds outside of its memory,
`kept` what failed calls left behind. `freq` is the corpus counted by name, for
properties only.

### RumAvl, Cqdb, Vocabulary and Dictionary

`RumAvl` is the threaded AVL tree as functions from tree to tree: descent with a
stack of places (a `RUMAVL_NODE **`), insertion, the three ways of deletion,
rotations and the loop that balances a node. `CharSigned` is whether `char` is
signed, which decides `balance == (char) dir`. `Cqdb` is the database as an array
of cells, with offsets, open-address tables for an arbitrary hash function and
links back.

`Vocabulary` has two clients: one that inserts and deletes in the tree alone
(`rumavl.c` is a library), and one dictionary on it, which numbers strings, saves
those the encoder needs to a database and reads them, and is destroyed. Memory
may be short at each `quark_get()`: the ignored result of `rumavl_insert()` leaves a
string with a number that is not found again; a null string or array crashes.

`Dictionary` is what its users rely on: numbers are dense, never given twice, and
lead back to their strings. `Vocabulary` implements it with `names` the array of
`quark_t` and `numbers` the ids found through the tree (`ImplementsDictionary`).

## Runs

| Run | Expected | What it shows |
|---|---|---|
| `registry_safety` | pass | `NoLeak`, `GenericUsable`, `ResultHonest`, `CursorIntact`, `AnswersSettle` |
| `registry_live` | pass | `Recovers`, `CallsReturn` |
| `registry_dictionary` | violation | `free_crf_model()` uses dictionaries freed with their model |
| `registry_strings` | violation | a model loaded inside a call keeps strings of that call's context |
| `parser_files` | pass | order, names kept apart, bounds, ownership and meaning for all short files; where the scan can leave the text; complete files are scanned to their end |
| `file_save` | pass | round trip, commit by the header, dictionaries whole or absent |
| `file_reported` | violation | training reports success without a file |
| `tagger_answers` | pass | labels, scores, partition factor and marginals are those of the sequence that is set, whatever was asked and set before |
| `encoder` | pass | the same of the encoder, and of objective and gradients, of one instance and of the batch |
| `training` | pass | lazy decay is exact (`LazyIsEager`), calibration takes the best rate (`BestRate`), the right epoch ends training and the best is saved (`EndsAtBest`) |
| `names_labels` | pass | tokens settle, features mean what they meant in training, labels are a best labelling by name, columns hold the whole name, an error leaves at most one object of each kind |
| `vocabulary` | pass | the tree is ordered, balanced and freed; the dictionary implements its specification; a database answers as the dictionary |

Bounds:

- `registry_safety`: two versions of each file, three addresses and one cursor.
  Two versions are enough to see a replacement, three addresses let all slots be
  full and a fourth load run out of memory, and one cursor with rows left beside
  scalar calls gives every overlap of two calls. Addresses and versions are only
  compared, so permuting them is a symmetry; the run of liveness properties uses
  none. The other registry runs are smaller.
- `parser_files`: all sequences of up to four complete lexemes, all names of up
  to three lexemes cut inside a tag, two labelled texts with up to two lexemes
  between them, and well-formed collections of up to two names of two elements
  or one of three. `MaxTokens = 2` and an array of one sequence make the token
  limit and the growth of the array happen.
- `file_save`: two labels, two attributes and every set of up to four features
  in which each attribute has one, with every choice of zero weights: attributes
  vanish or are renumbered, and references skip pruned features. Every write may
  be lost, and the process may be killed at every step. A weight is the number
  of its feature, so that any mix-up shows.
- `tagger_answers`: two labels, two attributes, sequences of one item and of three
  with repeated, negative and missing attributes, and three models: one with
  negative weights, one in which the greedy path is not the best, one in which
  all paths tie. Three items are the fewest for which a partial path has scale
  factors left over; a sequence of one item before and after one of three makes
  the tables grow and leaves old rows behind. Every order of calls is explored:
  the tables take finitely many values.
- `encoder`: two labels, two attributes, two data sets with instances of one to
  three items (one attribute twice, an item without any, a longer instance behind
  a shorter one, a weight of two), three choices of options (observed features
  only, all, pruned by frequency), one vector of weights with either sign of
  scale. The partition factor may follow gradients once per instance, as each
  time doubles the expectations.
- `training`: two instances, one sample for the trials, one weight, three losses,
  two gradients and one that is not finite, `c2` 1 or 3/2 (always positive: the
  learning rate divides by it), up to four epochs with a period of two and at
  most four trials. `delta` is 1/4, so that the improvement from an objective of 5
  to one of 4 is `delta` exactly, from 6 to 5 less and from 6 to 4 more. With learning rates of 1/8 to 1 the decay shrinks, becomes
  zero (`c2` 1) and negative (`c2` 3/2). Losses and gradients are independent of each other, which
  allows more than any data would. The process ends, so the run does not check
  for deadlock.
- `names_labels`: words over five letters in both cases, a digit and four punctuation
  characters; all words of one or two of seven characters, longer ones at the
  limits of the features (4, 5 and 10 characters, words that are all suffix), and
  names of up to four words. Three corpora with repeated and foreign labels, two
  signs of the weights, two errors. No name reaches `MAX_FEATURE_NAME_LEN` and no
  token the trainer's limit of 100 features.
- `vocabulary`: seven keys, the fewest that make a tree of height four: every tree
  over them is reached by insertions and deletions in every order, on machines
  with signed and unsigned characters, with single and double rotations of either
  side and a replacement from the depth of a subtree. One deletion that rotates
  at two levels needs twelve keys and is not reached.
  Three strings, three numbers, two hash tables, and hash values that are equal,
  collide or wrap around. The process ends, so the run does not check for deadlock.

Fairness: `FairSpec` of ModelRegistry is weakly fair to `CodeStep`, the code's own
steps: a backend that has entered the extension runs until it returns. Clients,
the executor and the administrator owe nothing. TrainingParser is weakly fair to
`Scan`, as nothing but the scan runs. The other modules state no liveness: they
are either one library object whose client owes nothing, or a program whose
loops are bounded by the model's data.

`Ended` of TrainingParser stutters, `Retrain` of ModelFile starts over, so that these
runs need no deadlock checking off.

## Findings

1. `free_crf_model()` releases dictionaries after the model that frees them
   (`crfsuite_wrapper.c:225-235`, `crf1d_tag.c:381-394`).
2. `model_name` and `version` are allocated in the caller's context
   (`crfsuite_wrapper.c:166`) and read after its reset.
3. `train_crf_model()` returns 0 whether or not a model was written
   (`crfsuite_train.c:211`).

Seen and not given a run:

- The SQL functions are declared "LANGUAGE C IMMUTABLE STRICT"
  (`pg_probablepeople--0.0.1.sql:6`), yet a call made while the generic file is
  missing answers with the person model, the next one, after the file is there,
  with the generic model. `AnswersSettle` states what does hold.
- `parse_training_file()` does not end on a file cut inside a label tag
  (`training_data_parser.c:258`; the comment at 261 is "Free failed sequence"):
  `parse_name_element()` fails without moving `p`. `CompleteFilesEnd` is about the
  other files.
- White space at the end of a file takes `p` behind the NUL
  (`training_data_parser.c:278`, after "Skip whitespace in string", line 22); the
  outcome `"past"` of the model. `StaysInside` says that nothing else does.
- `find_tag_end()` may return null where the parser dereferences the result
  (`training_data_parser.c:147,173,189`; the outcome `"crashed"`).
- `tagger_viterbi()` overwrites the forward scores and leaves `level` as it is
  (`crf1d_context.c:481`, `crf1d_tag.c:128`), so that a marginal asked for next is not
  "P(y_t = l | x)" (`crfsuite.h:469`). The extension asks for no marginals.
- The trainer's comment says its features match `feature_extractor.c`
  (`crf_trainer.c:44`). They share names but not meaning: `ServedAsTrained` lists all
  that differ. `is_all_caps` and `is_all_lower` of tokens with digits or
  punctuation, lengths over 4, a window of 2 against 3, and eleven kinds only the
  trainer has, among them `bias`, which therefore never fires in a backend.
- `epsilon`, the "Convergence threshold" (`crf_trainer.h:12`), is set under a name
  that no option of L2SGD has, and the refusal is not looked at
  (`crf_trainer.c:346`): training stops by the default `delta`.
- `delta` is documented as stopping at an improvement "no greater than this
  threshold" (`train_l2sgd.c:405-407`); the test is `<`.
- Training whose losses are never finite but whose last instance always is
  ends without an error and saves zero weights (`train_l2sgd.c:197,269`).
- `crfsuite_item_copy()` copies the capacity and allocates the number
  (`crfsuite.c:124-125`); nobody appends to a copy.
- On machines with unsigned `char` the double rotation of `rumavl.c:982` happens for
  one direction only. `Balanced` holds there too: the loop around it repairs what
  a single rotation leaves.
- The reader accepts a file whose save failed late, with references that lead
  nowhere; the README's jsonb shape differs from `parse_result_to_jsonb()`.

## Proofs

`ModelRegistryProofs` proves, for every set of addresses, versions and cursors,
every bound on tokens and every set of outcomes, the five safety properties of
`registry_safety` and type correctness, from the assumptions named in
`ModelRegistry`: `Null` and the names of contexts are distinct from the other
values, the token bound is positive, outcomes are among the three.

The properties are not inductive by themselves. `IInv` adds

- `LoadInv`: while slots are being loaded, which of them are already new, so that
  a full one holds a live native model that no other slot holds. Without it a
  step could free a model that two slots share, and `GenericUsable` would break.
- `ResultInv`: `anyOk` says whether a slot before `target` is loaded, and some slot
  is when a name is parsed.
- `AnswerInv`: once the generic model has answered, the generic slot is loaded
  with the version that answered, and no reload begins.
- `RowInv`: the rows of an open cursor live in that cursor's own context.

There is one lemma per conjunct (`TypeStep`, `LeakStep`, `UsableStep`, `LoadStep`,
`ResultStep`, `AnswerStep`, `RowStep`), each with a case per action; actions
that leave a conjunct's variables alone are grouped. The interesting case is
`FreeOldErrors`: the native model is freed while the slot still says it is
loaded. It cannot hit the generic slot of a registered library, because a
reload only begins when that slot is empty.

`VocabularyProofs` proves, for every set of strings and without assumptions, that
names and numbers of a `Dictionary` are inverse to each other and numbers
distinct (`NumbersAreNames`), and that a number stays the same while the
dictionary lives (`NumbersStay`). `DictionaryTypeOK` and `Consistent` together are
inductive: a new number is the length of `names`, so no known string has it.

It also proves that the quark implements `Dictionary` step by step, for
every set of strings, with memory short at any call: `Implements` says
`Spec /\ []Ordered => ImplementsDictionary`. That find() finds exactly the keys
that were inserted (`Ordered`) is its hypothesis, because it is what `quark.c`
takes from `rumavl.c`; the run `vocabulary` checks it. The invariant `Records` says
that the tree's keys are the strings that have a number. A `get()` of a string
that is not found is then `Issue`, or `Forget` if the insertion failed; the start
of `quark_delete()` is `Release`; all else stutters.

Of the tree it proves the arithmetic. `rumavl.c` keeps no heights, only a balance
factor for each node. For every height of the subtrees the factors that `rotate()`
computes and the change it reports are the right ones (`RotationIsRight`), and
`stack_update()` hands on the change of the node's height (`HeightDiffIsRight`).
`RoundsOfBalance` settles the double rotation under unsigned `char`: a node out of
balance by two needs one round of `balance()`, except where that comparison fails,
and there one more in the other direction and no third.

Last, `LooksUp`: for any number of hash tables, any hash function, any strings, and
whatever becomes of the writer's allocations, a database that was closed without
an error gives each string its number and each number its string. No assumption is
made on `Hashes` but that they give natural numbers, so that all strings may fall into one table and one slot.
`SaveInv` says that while saving the writer holds what has been put so far
(`Holds`: for each number the string in the data and its entry in the table of its
hash). The steps from there to `LooksUp`:

1. `WriterClose` makes twice as many slots as there are entries, so one is free
   (`OneIsFree`, a pigeonhole), and stepping through the slots modulo their number
   meets every one (`EverySlot`): the loop that places an entry ends.
2. Placing entries one after another leaves each behind slots that were full
   before it, and a full slot is never emptied or overwritten (`PlaceFills`,
   `PlacedIs`), so a search for it does not end at a free slot.
3. What is written is the header, the strings, the tables and the links back at
   the offsets that the references name (`WrittenIs`, `CellsBeforeIs`: offsets are
   sums over the tables before).
4. The reader's number of strings is half the number of slots, summed over the
   tables (`NumRecordsIs`).

Three definitions exist as operators of their own to be reasoned about: `Place` and
`TableCells` of `Cqdb`, and `InOrder` of `Vocabulary`.

`TrainingParserProofs` proves `TypeOK`, `FileOrder`, `StaysInside` and `MemorySafe` for every
document, however malformed, and every size of the arrays. Assumed is that a
document is a sequence of lexemes (`DocsAssumption`) and that limits are positive.
`FileOrder` is not inductive: a name that fails sends the scan back to where the
name begins. `ScanInv` adds that what was collected lies before that place, that
the tokens of a name come behind it, that none are at hand between two names,
and what is allocated, owned by a token at hand or by a finished sequence.
`ApartInv` adds that no `</Name>` has ended the name since its first token
(`StillOpen`): one that is passed inside a name stands behind a label and its text,
where `parse_name_element()` takes it for the closing tag (`LabelEndsNothing`). So
two names run together only if the first was not closed. `StaysInside` needs only
that white space is all that a scan can skip up to the NUL.

`ModelFileProofs` proves `TypeOK`, `RoundTrip`, `HeaderCommits` and `DictionariesWhole`
for every number of labels and attributes, every result of training, every lost
write and every moment of a kill. `RoundTrip` and `HeaderCommits` are about saves
without an error: one that has lost a write may report success, and `train_crf_model()`
always does (finding 3). Assumed is only the shape of what training
hands over (`TrainedAssumption`, `SizeAssumption`). The properties look at the file;
`SaveInv` adds what the writer has in memory:

- `Ids`: the two maps of numbers are one-to-one onto what has been counted, so
  that different features and attributes get different places.
- `Numbering`: a feature has a number just when the loop has passed it.
- `Control`: which chunk is open and which are sealed at each step, and that there
  is no header before the file is closed.
- `Bodies`: the chunk at hand holds the items the loop has passed, each earlier
  one all of its items, unless a write was lost.
- `Promised`: a dictionary with a seal is whole, and a file with a header that was
  written without an error is complete.

`TaggerProofs` proves, for every model, every sequence of any length, every number
of labels and every order of calls, all four properties of the run `tagger_answers`:
`TypeOK`, `ViterbiIsBest`, `ScoresRight`, `MarginalsRight`. Assumed is what the reader of a model file gives:
attributes of the sequences are known to the model, sets of features are finite
with integer weights, and a pair of labels has one transition
(`InstancesAssumption`, `ModelsAssumption`, `LabelsAssumption`). The argument:

1. Recursive functions are unfolded to the CHOOSE that defines them, and shown to
   exist (`Recursion`, `BackRecursion`), by an induction over a set of numbers that
   follows from `<` being well-founded; sums over finite sets likewise.
2. `RowBounds`: entry (t, j) of Viterbi's table is reached by a path to label j at
   item t, and no such path scores more. Following the backward edges gives a
   path that is tight at every item, hence a best one, and of several the one
   that is first from the end, since a backward edge is the first of the best.
3. `WorthIsScore`: the score from the tables is the worth of the features.
4. The weight of a path is the product of its `Factors`, and that is the exponential
   of its score (`PartWeight`, from `ExpSum`). For labels allowed at each item, sums
   of products over the items are sums over the allowed paths (`PathsSum`; `Reached`
   is the induction: the paths that share the items behind t). Rows of alpha are
   these sums times the scale factors so far (`AlphaReaches`), hence `NormIs`: the
   partition factor is the weight of all paths.
5. Rows of beta bring sums over items t.. to the same end (`MeetFrom`). Pinning the
   items a..m to the labels asked for leaves one term at each of them
   (`PinnedAlong`), and the scale factors cancel but for that of the first item, which
   the code divides by (`ScaleProducts`, `PathMarginalIs`).
6. `TablesInv` follows the tables from call to call: they have rows for the longest
   sequence so far (`Sizes`); their first rows are those of model and sequence if
   `level` says so (`Levels`, `ScoresFresh`, `PassesFresh`). Without it a shorter
   sequence could meet the rows of a longer one.

`TrainingProofs` proves all four properties of the run `training`, for every number of
instances and iterations, length of the period, losses and gradients. Assumed is
that the options the algorithm reads are declared with the types it asks for, that
a period is positive (`OptionsAssumption`, `TrainingAssumption`), that the
calibration starts at a positive rate and changes it by a factor above 1, with a
positive number of samples, candidates and trials, and that `c2` is positive
(`CalibrationAssumption`). Three invariants carry them:

- `EpochsInv`, for `EndsAtBest`. The code sees only the ring `pf` and the pair `best`;
  the invariant ties them to the epochs there were: `RingIsRecent` (an epoch writes
  the slot of the epoch one period before; a lemma about remainders), `BestSoFar` (the
  first of least finite objective), `OptionsReach` (the arguments of the command line
  get through, except for `epsilon`), `Counting` (no epoch before the last had stalled).
- `WeightsInv`, for `TypeOK` and `LazyIsEager`: every number is a fraction in lowest terms,
  `lambda` and `t0` are positive, so that nothing divides by zero, `perm` is a
  permutation of the instances (`dataset_shuffle()` is a chain of transpositions), and
  the lazily decayed weight times its scale is the weight of the textbook update. In
  fractions this needs that equal ratios have the same lowest terms
  (`LowestIsUnique`, from `Gcd` being the greatest common divisor), and then the
  laws of a field (`TimesLaws`, `OverUndoes`).
- `TrialsInv`, for `BestRate`: the learning rates tried so far are a ladder
  (`RatesAreRange`: the initial one times powers of `calibration.rate`, then divided by
  them), no two of them equal because that factor is above 1; each trial ran on the
  same first instances of `perm` (`TrialsAreRecorded`); and the pair kept is the first
  of the least loss (`BestTrial`).

`NameParserProofs` proves, for every alphabet, corpus, set of names and number of
failures:

- `OneOfEachPerError`: what a call holds is determined by how far it is
  (`MayHold`), and a failure leaves at most that (`Counted`).
- `TokensSettle`: `Among` keeps what it is told to, in order and nothing left out
  (`AmongSelects`); the tokenizer's loop is a recursive function with a closed form
  (`CleanIs`), and what it returns is where it would stop at once (`CleanAgain`).
- `ColumnsHoldTheName`: the words of a column are those of the result with its label
  in order, by induction over the loop of `parse_name_to_cols()` (`ColumnsFollow`), and
  their numbers add up as every label has exactly one column (`ColumnsCount`).
  `ColumnsInv` says that the result has the text of each token.
- `ServedAsTrained`: the lists of both extractors are turned into sets (`BackendLists`,
  `TrainerLists`; what is listed where does not matter), which are compared kind by
  kind (`ServedNames`, `TrainedServed`). That a backend's affix of a short word is
  never a trained one needs `TrainedName`, an invariant of the dictionary: training
  names an affix by its own length. `ItemsInv` adds that each item has the features
  found that have a number, by the names its numbers stand for (`NumberedNames`).

Assumed is that names are sequences of words and corpora of labelled names
(`NamesAssumption`, `CorporaAssumption`), and that upper case, lower case, digits and
punctuation are different characters (`CharsAssumption`). `Features` selects with a fold of its own,
`Among`: the prover cannot expand the library's `SelectSeq`.

The theorems:

| Module | Theorems |
|---|---|
| `ModelRegistryProofs` | `Inductive`, `TypeCorrect`, `NothingLeaks`, `GenericStaysUsable`, `ErrorsAreHonest`, `RowsStayReadable`, `AnswersAreStable` |
| `VocabularyProofs` | `NumbersAreNames`, `NumbersStay`, `RecordsInvariant`, `Implements`, `SaveInvariant`, `LooksUpAlways`, `RotationIsRight`, `HeightDiffIsRight`, `RoundsOfBalance` |
| `TrainingParserProofs` | `ScanInvariant`, `TypeCorrect`, `FileOrderAlways`, `StaysInsideAlways`, `MemorySafeAlways` |
| `ModelFileProofs` | `SaveInvariant`, `TypeCorrect`, `RoundTripAlways`, `HeaderCommitsAlways`, `DictionariesWholeAlways` |
| `TaggerProofs` | `TablesInvariant`, `TypeCorrect`, `ViterbiIsBestAlways`, `ScoresRightAlways`, `MarginalsRightAlways` |
| `TrainingProofs` | `EpochsInvariant`, `EndsAtBestAlways`, `WeightsInvariant`, `TypeOKAlways`, `LazyIsEagerAlways`, `TrialsInvariant`, `BestRateAlways` |
| `NameParserProofs` | `LeakInvariant`, `OneOfEachPerErrorAlways`, `TokensSettleAlways`, `ColumnsInvariant`, `ColumnsHoldTheNameAlways`, `ItemsInvariant`, `ServedAsTrainedAlways` |

Only model-checked:

- Liveness: `Recovers`, `CallsReturn`, `CompleteFilesEnd`. The prover does not reason
  about fairness.
- Encoder, whose answers are such sums again, over gradients.
- The tree itself (`Balanced`, `Ordered`, `AllFreed`, `TypeOK` of Vocabulary), whose
  operations are folds over a path: only what one rotation or one step up does to
  the factors is proved.
- `TypeOK` and `BestByName` of NameParser, which are about the labels that Viterbi finds
  and compare sums over the corpus by name and by number.
- `MeaningPreserved`, which compares the scanner with a definition of what a
  well-formed file means; and the violations.

## Not modelled

- Rounding and infinities of floating-point numbers; what weights learning finds.
- Out of memory in the registry and in the training parser.
- `parse_result_to_jsonb()` and other printed forms.
- Hold-out evaluation (`holdout.c`): the driver passes -1 and it never runs.
- `crfsuite.c`'s growing arrays, which are sequences in the models; `logging.c`;
  `lookup3.c`, whose hash is arbitrary in `Cqdb`.
- `c2 = 0` and an empty data set: both divide by zero, which `train_l2sgd.c` does not
  prevent.
- `encoder_features_on_path()` and the trainers the Makefile leaves out.
- `load_model_from_bytea()`, `crf1dm_new_from_memory()`: not called.
- `crf1dm_dump()`, progress output.

## Plan

1. The tree of `RumAvl`: a lemma for each rotation (order, threads and balance), so
   that `Ordered` need not be a hypothesis of `Implements`.
2. `BestByName`: the numbers the dictionaries give are one-to-one, so that scores by
   number are scores by name; then `ViterbiIsBest`.
3. `NameService`: what a client may rely on (an answer comes from an installed
   model, an error means that none was), implemented by ModelRegistry.
