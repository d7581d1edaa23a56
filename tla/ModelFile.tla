------------------------------ MODULE ModelFile ------------------------------
(***************************************************************************)
(* A model file from the trained weights to the tagger's lookups:          *)
(* crf1de_save_model() of crf1d_encode.c, the chunk writer and the reader  *)
(* of crf1d_model.c, the seals of cqdb.c, and crfsuite_train_train(), which *)
(* calls save_model() and does not look at its result.                     *)
(*                                                                         *)
(* The file is five chunks behind a header that is written last. A step is *)
(* one call of the writer. A write may be lost (a full disk): stdio then   *)
(* keeps its error flag, which only some calls look at. The process may be *)
(* killed between two calls; what is still in the stdio buffer is part of  *)
(* the current chunk, so the file is as after an earlier step.             *)
(***************************************************************************)
EXTENDS Integers, Sequences, FiniteSets

CONSTANTS
    NumLabels,  \* L
    NumAttrs,   \* A
    Trained     \* results of a training: [feats: the features in the encoder's
                \* order, active: the indices of those whose weight is not 0]

ASSUME SizeAssumption == NumLabels \in Nat /\ NumAttrs \in Nat

Labels == 0..(NumLabels - 1)
Attrs == 0..(NumAttrs - 1)
Features == [type : {"state"}, src : Attrs, dst : Labels]
            \cup [type : {"trans"}, src : Labels, dst : Labels]

ASSUME TrainedAssumption ==
    \A r \in Trained : r.feats \in Seq(Features) /\ r.active \subseteq DOMAIN r.feats

Dictionaries == {"labels", "attrs"}
References == {"labelrefs", "attrrefs"}
Chunks == {"features"} \cup Dictionaries \cup References

\* Mutant of After: the attribute references are forgotten.
WithoutAttrrefs(c) ==
    CASE c = "features" -> "labels"
      [] c = "labels" -> "attrs"
      [] c = "attrs" -> "labelrefs"
      [] OTHER -> "close"

\* The order in which crf1de_save_model() writes the chunks.
After(c) ==
    CASE c = "features" -> "labels"
      [] c = "labels" -> "attrs"
      [] c = "attrs" -> "labelrefs"
      [] c = "labelrefs" -> "attrrefs"
      [] c = "attrrefs" -> "close"

VARIABLES
    trained, \* the encoder's features and weights; the weight of feature k is k
    pc,      \* the chunk at hand, or "open", "close", "returned", "killed"
    wstate,  \* writer->state: the chunk that is open, or "none"
    i,       \* the loop over what goes into the chunk has come to i
    fmap,    \* feature -> its id in the file, -1 for none
    amap,    \* attribute -> its id in the file, -1 for none
    num,     \* hfeat->num
    off,     \* writer->header: the chunks whose offset is set
    ferr,    \* ferror(fp)
    fault,   \* why save_model() fails: "none", "io", "memory" or "logic"
    disk     \* the file

vars == <<trained, pc, wstate, i, fmap, amap, num, off, ferr, fault, disk>>

feats == trained.feats

\* header: the chunks it gives an offset for, none before it is written. body:
\* the items of a chunk by id. sealed: the chunks whose own header, or offset
\* table, is written. No file and an empty one are refused alike.
EmptyFile == [header |-> {}, body |-> [c \in Chunks |-> <<>>], sealed |-> {}]

TypeOK ==
    /\ trained.active \subseteq DOMAIN feats
    /\ pc \in Chunks \cup {"open", "close", "returned", "killed"}
    /\ wstate \in Chunks \cup {"none"}
    /\ fmap \in [DOMAIN feats -> {-1} \cup 0..(Len(feats) - 1)]
    /\ amap \in [Attrs -> {-1} \cup Attrs]
    /\ num \in 0..Len(feats)
    /\ off \subseteq Chunks
    /\ ferr \in BOOLEAN
    /\ fault \in {"none", "io", "memory", "logic"}
    /\ disk.header \subseteq Chunks
    /\ disk.sealed \subseteq Chunks

Init ==
    /\ trained \in Trained
    /\ pc = "open"
    /\ wstate = "none"
    /\ i = 0
    /\ fmap = [k \in DOMAIN feats |-> -1]
    /\ amap = [a \in Attrs |-> -1]
    /\ num = 0
    /\ off = {}
    /\ ferr = FALSE
    /\ fault = "none"
    /\ disk = EmptyFile

-----------------------------------------------------------------------------
(* The writer *)

\* The ids given to active features so far.
J == Cardinality({k \in DOMAIN feats : fmap[k] # -1})

\* Mutant of B: one counter for both.
SharedCounter == J

\* The ids given to the attributes of active features so far.
B == Cardinality({a \in Attrs : amap[a] # -1})

\* fopen(filename, "wb"): what the file held before is gone.
OpenFile ==
    /\ pc = "open"
    /\ pc' = "features"
    /\ wstate' = "none"
    /\ fmap' = [k \in DOMAIN feats |-> -1]
    /\ amap' = [a \in Attrs |-> -1]
    /\ num' = 0
    /\ off' = {}
    /\ ferr' = FALSE
    /\ fault' = "none"
    /\ disk' = EmptyFile
    /\ UNCHANGED <<trained, i>>

\* crf1mmw() fails, or the maps before it cannot be allocated.
OpenFileFails ==
    /\ pc = "open"
    /\ pc' = "returned"
    /\ fault' = "io"
    /\ UNCHANGED <<trained, wstate, i, fmap, amap, num, off, ferr, disk>>

\* goto error_exit, unless nothing is wrong: then on to pc p.
GoOn(p, f) ==
    /\ fault' = f
    /\ pc' = IF f = "none" THEN p ELSE "close"

\* crf1dmw_open_features(), _labels(), _attrs(), _labelrefs(), _attrrefs()
OpenChunk ==
    /\ pc \in Chunks
    /\ wstate # pc
    /\ GoOn(pc, IF wstate = "none" THEN "none" ELSE "logic")
    /\ wstate' = IF wstate = "none" THEN pc ELSE wstate
    /\ off' = IF wstate = "none" THEN off \cup {pc} ELSE off
    /\ i' = 0
    /\ UNCHANGED <<trained, fmap, amap, num, ferr, disk>>

\* calloc() or realloc() fails when a chunk is opened, or a dictionary written.
NoMemory ==
    /\ pc \in Chunks
    /\ wstate # pc \/ pc \in Dictionaries
    /\ GoOn(pc, "memory")
    /\ UNCHANGED <<trained, wstate, i, fmap, amap, num, off, ferr, disk>>

\* What the loop over chunk c still has to put: active features, every label,
\* attributes and their references only if a feature uses them.
Remaining(c) ==
    CASE c = "features" -> {k \in trained.active : k >= i}
      [] c \in {"labels", "labelrefs"} -> {l \in Labels : l >= i}
      [] c \in {"attrs", "attrrefs"} -> {a \in Attrs : a >= i /\ amap[a] # -1}

\* A write of item x as number id of chunk c.
Store(c, id, x, lost) ==
    /\ ferr' = (ferr \/ lost)
    /\ disk' = IF lost THEN disk
               ELSE [disk EXCEPT !.body[c] = [n \in DOMAIN @ \cup {id} |->
                                                IF n = id THEN x ELSE @[n]]]

\* fmap[k] = J++
NewFid(k) == J

\* crf1dmw_put_feature() for an active feature, numbered in this order; its
\* attribute is numbered when the first feature of it comes.
PutFeature(lost) ==
    /\ pc = "features" /\ wstate = pc
    /\ \E k \in Remaining("features") :
           LET f == feats[k]
               ids == IF f.type = "state" /\ amap[f.src] = -1
                      THEN [amap EXCEPT ![f.src] = B] ELSE amap
               accepted == wstate = "features" /\ NewFid(k) = num
           IN
           /\ \A m \in Remaining("features") : k <= m
           /\ fmap' = [fmap EXCEPT ![k] = NewFid(k)]
           /\ amap' = ids
           /\ i' = k + 1
           /\ GoOn(pc, IF accepted THEN "none" ELSE "logic")
           /\ IF accepted
              THEN /\ num' = num + 1
                   /\ Store(pc, NewFid(k),
                            [type |-> f.type, dst |-> f.dst, weight |-> k,
                             src |-> IF f.type = "state" THEN ids[f.src] ELSE f.src],
                            lost)
              ELSE UNCHANGED <<num, ferr, disk>>
           /\ UNCHANGED <<trained, wstate, off>>

\* crf1dmw_put_label(), crf1dmw_put_attr(): cqdb_writer_put() sees ferror().
PutString(lost) ==
    /\ pc \in Dictionaries /\ wstate = pc
    /\ \E n \in Remaining(pc) :
           /\ \A m \in Remaining(pc) : n <= m
           /\ Store(pc, IF pc = "labels" THEN n ELSE amap[n], n, lost)
           /\ GoOn(pc, IF ferr' THEN "io" ELSE "none")
           /\ i' = n + 1
           /\ UNCHANGED <<trained, wstate, fmap, amap, num, off>>

\* The features that start at label or attribute n.
Starting(type, n) == {k \in DOMAIN feats : feats[k].type = type /\ feats[k].src = n}

\* Mutant of Refs: the references are not mapped to the ids of the file.
UnmappedRefs(type, n) == {k \in Starting(type, n) : fmap[k] # -1}

\* References to the active ones among them, by their ids in the file.
Refs(type, n) == {fmap[k] : k \in Starting(type, n)} \ {-1}

\* crf1dmw_put_labelref(), crf1dmw_put_attrref(): nothing looks at ferror().
PutReferences(lost) ==
    /\ pc \in References /\ wstate = pc
    /\ \E n \in Remaining(pc) :
           /\ \A m \in Remaining(pc) : n <= m
           /\ IF pc = "labelrefs" THEN Store(pc, n, Refs("trans", n), lost)
                                  ELSE Store(pc, amap[n], Refs("state", n), lost)
           /\ i' = n + 1
           /\ UNCHANGED <<trained, pc, wstate, fmap, amap, num, off, fault>>

\* crf1dmw_close_features(), _labelrefs(), _attrrefs(): the chunk's header and
\* the offsets of its items are written, lost or not.
SealChunk(lost) ==
    /\ pc \in {"features"} \cup References /\ wstate = pc
    /\ Remaining(pc) = {}
    /\ ferr' = (ferr \/ lost)
    /\ disk' = IF lost THEN disk ELSE [disk EXCEPT !.sealed = @ \cup {pc}]
    /\ wstate' = "none"
    /\ pc' = After(pc)
    /\ UNCHANGED <<trained, i, fmap, amap, num, off, fault>>

\* Mutant of Sealable: cqdb_writer_close() writes its header unconditionally.
AlwaysSealable(err) == TRUE

\* cqdb_writer_close() looks at ferror() before it writes the chunk header.
Sealable(err) == ~err

\* crf1dmw_close_labels(), crf1dmw_close_attrs(): first the hash tables, then
\* the header, which one write(2) puts on disk with the table references.
SealDictionary(lostTables, lostHeader) ==
    LET sealed == Sealable(ferr \/ lostTables) IN
    /\ pc \in Dictionaries /\ wstate = pc
    /\ Remaining(pc) = {}
    /\ ferr' = (ferr \/ lostTables \/ (sealed /\ lostHeader))
    /\ disk' = [disk EXCEPT
                  !.body[pc] = IF lostTables THEN <<>> ELSE @,
                  !.sealed = IF sealed /\ ~lostHeader THEN @ \cup {pc} ELSE @]
    /\ GoOn(After(pc), IF sealed /\ ~lostHeader THEN "none" ELSE "io")
    /\ wstate' = IF fault' = "none" THEN "none" ELSE wstate
    /\ UNCHANGED <<trained, i, fmap, amap, num, off>>

\* crf1dmw_close(), on success and after error_exit. Its result is ignored, and
\* so is that of save_model(): crfsuite_train_train() returns 0.
CloseFile(lost) ==
    /\ pc = "close"
    /\ pc' = "returned"
    /\ ferr' = (ferr \/ lost)
    /\ disk' = IF lost THEN disk ELSE [disk EXCEPT !.header = off]
    /\ UNCHANGED <<trained, wstate, i, fmap, amap, num, off, fault>>

-----------------------------------------------------------------------------
(* The training tool around it *)

Kill ==
    /\ pc \in Chunks \cup {"close"}
    /\ pc' = "killed"
    /\ UNCHANGED <<trained, wstate, i, fmap, amap, num, off, ferr, fault, disk>>

\* The tool is run again on the same data, with the same output file.
Retrain ==
    /\ pc \in {"returned", "killed"}
    /\ pc' = "open"
    /\ UNCHANGED <<trained, wstate, i, fmap, amap, num, off, ferr, fault, disk>>

Next ==
    \/ OpenFile \/ OpenFileFails \/ OpenChunk \/ NoMemory
    \/ \E lost \in BOOLEAN :
          \/ PutFeature(lost) \/ PutString(lost) \/ PutReferences(lost)
          \/ SealChunk(lost) \/ CloseFile(lost)
          \/ \E lostTables \in BOOLEAN : SealDictionary(lostTables, lost)
    \/ Kill \/ Retrain

Spec == Init /\ [][Next]_vars

-----------------------------------------------------------------------------
(* The reader: what a backend finds in the file at any time *)

\* crf1dm_new() fails on a file that is not larger than the header.
Refused(d) == d.sealed = {} /\ \A c \in Chunks : d.body[c] = <<>>

\* cqdb_reader(): null when the offset is 0, or no sealed chunk begins there.
Readable(d, c) == c \in d.header /\ c \in d.sealed

\* crf1dm_to_aid()
IdsOf(d, a) == {n \in DOMAIN d.body["attrs"] : d.body["attrs"][n] = a}

\* crf1dm_get_feature() for every reference of items ids in chunk c: the
\* label each feature scores, with its weight.
Weights(d, c, ids) ==
    LET refs == UNION {d.body[c][n] : n \in ids \cap DOMAIN d.body[c]} IN
    {<<d.body["features"][x].dst, d.body["features"][x].weight>> :
        x \in refs \cap DOMAIN d.body["features"]}

\* What training found for it.
TrainedWeights(type, n) ==
    {<<feats[k].dst, k>> : k \in Starting(type, n) \cap trained.active}

WholeLabels(d) == d.body["labels"] = [l \in Labels |-> l] \/ Labels = {}
WholeAttrs(d) ==
    \A a \in Attrs : \E S \in {IdsOf(d, a)} :
        IF TrainedWeights("state", a) = {} THEN S = {} ELSE \E n \in S : S = {n}

\* The tagger scores with exactly the weights that were trained.
Complete(d) ==
    /\ \A c \in Chunks : Readable(d, c)
    /\ WholeLabels(d) /\ WholeAttrs(d)
    /\ \A a \in Attrs : Weights(d, "attrrefs", IdsOf(d, a)) = TrainedWeights("state", a)
    /\ \A l \in Labels : Weights(d, "labelrefs", {l}) = TrainedWeights("trans", l)

-----------------------------------------------------------------------------
(* What makes the file correct *)

Clean == ~ferr /\ fault = "none"

\* The writer's checks of its state and of the feature order never fail, and a
\* save that met no error has stored the trained model: pruning and renumbering
\* features and attributes do not change any score.
RoundTrip ==
    /\ fault # "logic"
    /\ pc = "returned" /\ Clean => Complete(disk)

\* The header commits: as long as no error occurred, whoever reads the file,
\* whenever the process is killed, is refused, or finds a model without labels
\* and attributes, or the whole one.
HeaderCommits ==
    Clean => \/ Refused(disk)
             \/ \A c \in Dictionaries : ~Readable(disk, c)
             \/ Complete(disk)

\* Whatever failed, a dictionary that can be read is whole.
DictionariesWhole ==
    /\ Readable(disk, "labels") => WholeLabels(disk)
    /\ Readable(disk, "attrs") => WholeAttrs(disk)

-----------------------------------------------------------------------------
(* What a declaration of the source says of it, and the code does not do     *)

\* "Returns 0 on success, non-zero on error": it returns 0, so the model is saved.
SuccessMeansSaved == pc = "returned" => Complete(disk)

==============================================================================
