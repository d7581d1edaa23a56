---------------------------- MODULE ModelFileProofs ----------------------------
(***************************************************************************)
(* A model that is saved without an error is the model that was trained,   *)
(* and the header commits it, for every number of labels and attributes    *)
(* and every result of a training.                                         *)
(*                                                                         *)
(* The properties look only at the file. What makes them inductive is what *)
(* the writer has in memory: that the two id maps are one-to-one onto what *)
(* was counted (Ids), that a feature has an id just when the loop has      *)
(* passed it (Numbering), and that the chunk at hand holds the items the   *)
(* loop has passed and every earlier one all of its items (Bodies).        *)
(***************************************************************************)
EXTENDS ModelFile, FiniteSetTheorems, TLAPS

\* The chunks that are behind the writer at pc p.
Written(p) ==
    CASE p = "features" -> {}
      [] p = "labels" -> {"features"}
      [] p = "attrs" -> {"features", "labels"}
      [] p = "labelrefs" -> {"features", "labels", "attrs"}
      [] p = "attrrefs" -> {"features", "labels", "attrs", "labelrefs"}
      [] p = "close" -> Chunks

Writing == pc \in Chunks \cup {"close"}

NumberedFeatures == {k \in DOMAIN feats : fmap[k] # -1}
NumberedAttrs == {a \in Attrs : amap[a] # -1}

\* The file is a header and five chunks.
Shape(d) ==
    /\ d = [header |-> d.header, body |-> d.body, sealed |-> d.sealed]
    /\ d.body = [c \in Chunks |-> d.body[c]]
    /\ d.header \subseteq Chunks
    /\ d.sealed \subseteq Chunks

Types ==
    /\ trained \in Trained
    /\ pc \in Chunks \cup {"open", "close", "returned", "killed"}
    /\ wstate \in Chunks \cup {"none"}
    /\ i \in Nat
    /\ fmap \in [DOMAIN feats -> Int]
    /\ amap \in [Attrs -> Int]
    /\ off \subseteq Chunks
    /\ ferr \in BOOLEAN
    /\ fault \in {"none", "io", "memory"}
    /\ Shape(disk)

\* Ids are given one after the other, to active features and to their attributes.
Ids ==
    /\ num = J
    /\ \A k \in NumberedFeatures : fmap[k] \in 0..(num - 1) /\ k \in trained.active
    /\ \A k, m \in NumberedFeatures : fmap[k] = fmap[m] => k = m
    /\ \A a \in NumberedAttrs : amap[a] \in 0..(B - 1)
    /\ \A a, b \in NumberedAttrs : amap[a] = amap[b] => a = b
    /\ \A a \in Attrs :
           a \in NumberedAttrs <=>
               \E k \in NumberedFeatures : feats[k].type = "state" /\ feats[k].src = a

\* The active features that have an id: those the first loop has passed.
Numbering ==
    /\ pc = "features" /\ wstate = "features" =>
           \A k \in trained.active : k \in NumberedFeatures <=> k < i
    /\ pc = "features" /\ wstate # "features" => NumberedFeatures = {}
    /\ pc \in Chunks \ {"features"} \/ (pc = "close" /\ fault = "none") =>
           trained.active \subseteq NumberedFeatures

\* The writer's state agrees with what it is about to do.
Control ==
    /\ Writing => disk.header = {}
    /\ pc \in Chunks =>
           /\ fault = "none"
           /\ wstate \in {"none", pc}
           /\ off = Written(pc) \cup ({wstate} \ {"none"})
           /\ disk.sealed \subseteq Written(pc)
    /\ pc = "close" /\ fault = "none" => off = Chunks
    /\ Writing /\ Clean => disk.sealed = Written(pc)

\* What a loop over chunk c puts, under which id.
Items(c) == IF c \in {"labels", "labelrefs"} THEN Labels ELSE NumberedAttrs
IdOf(c, x) == IF c \in {"labels", "labelrefs"} THEN x ELSE amap[x]
ItemOf(c, x) ==
    CASE c = "labelrefs" -> Refs("trans", x)
      [] c = "attrrefs" -> Refs("state", x)
      [] OTHER -> x

\* What it has put so far.
Put(c) ==
    IF c \in Written(pc) THEN Items(c)
    ELSE IF pc = c /\ wstate = c THEN {x \in Items(c) : x < i} ELSE {}

Holds(c) ==
    /\ DOMAIN disk.body[c] = {IdOf(c, x) : x \in Put(c)}
    /\ \A x \in Put(c) : disk.body[c][IdOf(c, x)] = ItemOf(c, x)
    /\ Put(c) # {} => disk.body[c] = [n \in DOMAIN disk.body[c] |-> disk.body[c][n]]

Bodies ==
    /\ ~ferr =>
           \A k \in NumberedFeatures :
               /\ fmap[k] \in DOMAIN disk.body["features"]
               /\ disk.body["features"][fmap[k]].dst = feats[k].dst
               /\ disk.body["features"][fmap[k]].weight = k
    /\ Writing /\ Clean => \A c \in Chunks \ {"features"} : Holds(c)

\* The file as others may find it.
Promised ==
    /\ "labels" \in disk.sealed => WholeLabels(disk)
    /\ "attrs" \in disk.sealed => WholeAttrs(disk)
    /\ Clean => disk.header = {} \/ Complete(disk)
    /\ pc = "returned" /\ Clean => Complete(disk)

SaveInv == Types /\ Ids /\ Numbering /\ Control /\ Bodies /\ Promised

-----------------------------------------------------------------------------
(* The model in memory *)

\* What is known of the features of a training.
LEMMA TrainedIs ==
    ASSUME Types
    PROVE  /\ feats \in Seq(Features)
           /\ Len(feats) \in Nat
           /\ DOMAIN feats = 1..Len(feats)
           /\ trained.active \subseteq DOMAIN feats
           /\ \A k \in DOMAIN feats :
                  /\ feats[k].type \in {"state", "trans"}
                  /\ feats[k].type = "state" => feats[k].src \in Attrs
                  /\ feats[k].dst \in Labels
<1>1. feats \in Seq(Features) /\ trained.active \subseteq DOMAIN feats
    BY TrainedAssumption DEF Types, feats
<1>2. \A f \in Features :
          /\ f.type \in {"state", "trans"}
          /\ f.type = "state" => f.src \in Attrs
          /\ f.dst \in Labels
    BY DEF Features
<1>3. \A k \in DOMAIN feats : feats[k] \in Features
    BY <1>1
<1> QED BY <1>1, <1>2, <1>3

\* Counting the ids: there is always one left for what has none.
LEMMA Counting ==
    ASSUME Types
    PROVE  /\ J = Cardinality(NumberedFeatures) /\ B = Cardinality(NumberedAttrs)
           /\ IsFiniteSet(NumberedFeatures) /\ IsFiniteSet(NumberedAttrs)
           /\ J \in Nat /\ B \in Nat
           /\ J <= Len(feats) /\ B <= NumAttrs
           /\ \A k \in DOMAIN feats : k \notin NumberedFeatures => J < Len(feats)
           /\ \A a \in Attrs : a \notin NumberedAttrs => B < NumAttrs
<1>1. /\ J = Cardinality(NumberedFeatures) /\ B = Cardinality(NumberedAttrs)
      /\ NumberedFeatures \subseteq DOMAIN feats /\ NumberedAttrs \subseteq Attrs
    BY DEF J, B, NumberedFeatures, NumberedAttrs
<1>2. /\ IsFiniteSet(DOMAIN feats) /\ Cardinality(DOMAIN feats) = Len(feats)
      /\ Len(feats) \in Nat
    <2>1. DOMAIN feats = 1..Len(feats) /\ Len(feats) \in Nat
        BY TrainedIs
    <2>2. IsFiniteSet(1..Len(feats)) /\ Cardinality(1..Len(feats)) = Len(feats)
        <3>1. 1 \in Int /\ Len(feats) \in Int /\ (1 > Len(feats) => Len(feats) = 0)
            BY <2>1
        <3>2. Cardinality(1..Len(feats)) = IF 1 > Len(feats) THEN 0 ELSE Len(feats) - 1 + 1
            BY <3>1, FS_Interval
        <3>3. IsFiniteSet(1..Len(feats))
            BY <3>1, FS_Interval
        <3> QED BY <3>1, <3>2, <3>3
    <2> QED BY <2>1, <2>2
<1>3. /\ IsFiniteSet(Attrs) /\ Cardinality(Attrs) = NumAttrs
      /\ NumAttrs \in Nat
    BY SizeAssumption, FS_Interval DEF Attrs
<1>4. /\ IsFiniteSet(NumberedFeatures) /\ IsFiniteSet(NumberedAttrs)
      /\ J \in Nat /\ B \in Nat
      /\ J <= Len(feats) /\ B <= NumAttrs
    BY <1>1, <1>2, <1>3, FS_Subset, FS_CardinalityType
<1>5. ASSUME NEW k \in DOMAIN feats, k \notin NumberedFeatures PROVE J < Len(feats)
    <2>1. Cardinality(NumberedFeatures \cup {k}) = J + 1
        BY <1>1, <1>4, <1>5, FS_AddElement
    <2>2. Cardinality(NumberedFeatures \cup {k}) <= Cardinality(DOMAIN feats)
        BY <1>1, <1>2, FS_Subset
    <2> QED BY <1>2, <1>4, <2>1, <2>2
<1>6. ASSUME NEW a \in Attrs, a \notin NumberedAttrs PROVE B < NumAttrs
    <2>1. Cardinality(NumberedAttrs \cup {a}) = B + 1
        BY <1>1, <1>4, <1>6, FS_AddElement
    <2>2. Cardinality(NumberedAttrs \cup {a}) <= Cardinality(Attrs)
        BY <1>1, <1>3, FS_Subset
    <2> QED BY <1>3, <1>4, <2>1, <2>2
<1> QED BY <1>1, <1>4, <1>5, <1>6

\* Ids fit the numbers of features and attributes: the model type of the runs.
LEMMA TypeOKHolds == SaveInv => TypeOK
<1> SUFFICES ASSUME SaveInv PROVE TypeOK
    OBVIOUS
<1>1. Types /\ Ids
    BY DEF SaveInv
<1>2. num \in 0..Len(feats)
    BY <1>1, Counting DEF Ids
<1>3. ASSUME NEW k \in DOMAIN feats PROVE fmap[k] \in {-1} \cup 0..(Len(feats) - 1)
    <2>1. CASE fmap[k] = -1
        BY <2>1
    <2>2. CASE fmap[k] # -1
        <3>1. fmap[k] \in 0..(num - 1)
            BY <1>1, <2>2 DEF Ids, NumberedFeatures
        <3> QED BY <1>1, <1>2, <3>1, TrainedIs
    <2> QED BY <2>1, <2>2
<1>4. ASSUME NEW a \in Attrs PROVE amap[a] \in {-1} \cup Attrs
    <2>1. CASE amap[a] = -1
        BY <2>1
    <2>2. CASE amap[a] # -1
        <3>1. amap[a] \in 0..(B - 1)
            BY <1>1, <2>2 DEF Ids, NumberedAttrs
        <3>2. B \in Nat /\ B <= NumAttrs /\ NumAttrs \in Nat
            BY <1>1, Counting, SizeAssumption
        <3>3. amap[a] \in 0..(NumAttrs - 1)
            BY <3>1, <3>2
        <3> QED BY <3>3 DEF Attrs
    <2> QED BY <2>1, <2>2
<1>5. fmap \in [DOMAIN feats -> {-1} \cup 0..(Len(feats) - 1)]
    BY <1>1, <1>3 DEF Types
<1>6. amap \in [Attrs -> {-1} \cup Attrs]
    BY <1>1, <1>4 DEF Types
<1>7. trained.active \subseteq DOMAIN feats
    BY <1>1, TrainedIs
<1> QED BY <1>1, <1>2, <1>5, <1>6, <1>7 DEF Types, Shape, TypeOK

\* Items are numbers, and no two have the same id in their chunk.
LEMMA ItemsAre ==
    ASSUME Types, Ids, NEW c \in Chunks \ {"features"}
    PROVE  /\ Items(c) \subseteq Nat
           /\ Remaining(c) = {x \in Items(c) : x >= i}
           /\ \A x, y \in Items(c) : IdOf(c, x) = IdOf(c, y) => x = y
<1>1. Labels \subseteq Nat /\ Attrs \subseteq Nat /\ NumberedAttrs \subseteq Attrs
    BY SizeAssumption DEF Labels, Attrs, NumberedAttrs
<1>2. Items(c) \subseteq Nat
    BY <1>1 DEF Items
<1>3. Remaining(c) = {x \in Items(c) : x >= i}
    BY DEF Remaining, Items, NumberedAttrs, Chunks, Dictionaries, References
<1>4. \A x, y \in Items(c) : IdOf(c, x) = IdOf(c, y) => x = y
    BY DEF Ids, Items, IdOf
<1> QED BY <1>2, <1>3, <1>4

\* The writer goes from chunk to chunk, and leaves each behind.
LEMMA WrittenNext ==
    ASSUME NEW c \in Chunks
    PROVE  /\ After(c) \in (Chunks \ {"features"}) \cup {"close"}
           /\ After(c) # c
           /\ Written(After(c)) = Written(c) \cup {c}
           /\ c \notin Written(c)
           /\ After(c) \notin Written(After(c))
           /\ Written(c) \subseteq Chunks
BY DEF Chunks, Dictionaries, References, After, Written

-----------------------------------------------------------------------------
(* What does not change *)

\* While the id maps stay as they are, so does all that is derived from them.
LEMMA MapsKept ==
    ASSUME UNCHANGED <<trained, fmap, amap, num>>
    PROVE  /\ feats' = feats
           /\ NumberedFeatures' = NumberedFeatures /\ NumberedAttrs' = NumberedAttrs
           /\ Ids <=> Ids'
           /\ \A c : Items(c)' = Items(c)
           /\ \A c, x : IdOf(c, x)' = IdOf(c, x) /\ ItemOf(c, x)' = ItemOf(c, x)
<1>1. feats' = feats
    BY DEF feats
<1>2. NumberedFeatures' = NumberedFeatures /\ NumberedAttrs' = NumberedAttrs
    BY <1>1 DEF NumberedFeatures, NumberedAttrs
<1>3. J' = J /\ B' = B
    BY <1>1 DEF J, B
<1>4. Ids <=> Ids'
    BY <1>1, <1>2, <1>3 DEF Ids
<1>5. \A c : Items(c)' = Items(c)
    BY <1>2 DEF Items
<1>6. \A t, x : Refs(t, x)' = Refs(t, x)
    BY <1>1 DEF Refs, Starting
<1>7. \A c, x : IdOf(c, x)' = IdOf(c, x) /\ ItemOf(c, x)' = ItemOf(c, x)
    BY <1>6 DEF IdOf, ItemOf
<1> QED BY <1>1, <1>2, <1>4, <1>5, <1>7

\* A dictionary that is not written to stays whole.
LEMMA WholeKept ==
    ASSUME trained' = trained
    PROVE  /\ disk'.body["labels"] = disk.body["labels"] =>
                  (WholeLabels(disk) <=> WholeLabels(disk)')
           /\ disk'.body["attrs"] = disk.body["attrs"] =>
                  (WholeAttrs(disk) <=> WholeAttrs(disk)')
<1>1. disk'.body["labels"] = disk.body["labels"] => (WholeLabels(disk) <=> WholeLabels(disk)')
    BY DEF WholeLabels
<1>2. \A t, a : TrainedWeights(t, a)' = TrainedWeights(t, a)
    BY DEF TrainedWeights, Starting, feats
<1>3. ASSUME disk'.body["attrs"] = disk.body["attrs"]
      PROVE  WholeAttrs(disk) <=> WholeAttrs(disk)'
    <2>1. \A a : IdsOf(disk, a)' = IdsOf(disk, a)
        BY <1>3 DEF IdsOf
    <2> QED BY <1>2, <2>1 DEF WholeAttrs
<1> QED BY <1>1, <1>3

\* A file that is not written to says the same.
LEMMA CompleteKept ==
    ASSUME UNCHANGED <<trained, disk>>
    PROVE  Complete(disk) <=> Complete(disk)'
<1>1. \A t, a : TrainedWeights(t, a)' = TrainedWeights(t, a)
    BY DEF TrainedWeights, Starting, feats
<1>2. WholeLabels(disk)' <=> WholeLabels(disk)
    BY WholeKept
<1>3. WholeAttrs(disk)' <=> WholeAttrs(disk)
    BY WholeKept
<1> QED BY <1>1, <1>2, <1>3 DEF Complete, Readable, Weights, IdsOf

\* A chunk that is not written to holds what it held.
LEMMA HoldsKept ==
    ASSUME NEW c, Holds(c), Put(c)' = Put(c), disk'.body[c] = disk.body[c],
           UNCHANGED <<trained, fmap, amap, num>>
    PROVE  Holds(c)'
<1>1. \A x : IdOf(c, x)' = IdOf(c, x) /\ ItemOf(c, x)' = ItemOf(c, x)
    BY MapsKept
<1> QED BY <1>1 DEF Holds

\* A write goes to one chunk, or nowhere.
LEMMA StoreIs ==
    ASSUME Shape(disk), NEW c \in Chunks, NEW id, NEW x, NEW lost \in BOOLEAN,
           ferr \in BOOLEAN, Store(c, id, x, lost)
    PROVE  /\ Shape(disk)'
           /\ disk'.header = disk.header /\ disk'.sealed = disk.sealed
           /\ \A b \in Chunks \ {c} : disk'.body[b] = disk.body[b]
           /\ ferr' = (ferr \/ lost) /\ ferr' \in BOOLEAN
           /\ ~lost => disk'.body[c] = [n \in DOMAIN disk.body[c] \cup {id} |->
                                           IF n = id THEN x ELSE disk.body[c][n]]
<1>1. CASE lost
    BY <1>1 DEF Store, Shape
<1>2. CASE ~lost
    <2> DEFINE new == [n \in DOMAIN disk.body[c] \cup {id} |->
                          IF n = id THEN x ELSE disk.body[c][n]]
    <2>1. disk' = [disk EXCEPT !.body[c] = new]
        BY <1>2 DEF Store
    <2> HIDE DEF new
    <2>2. /\ disk'.header = disk.header /\ disk'.sealed = disk.sealed
          /\ disk'.body = [disk.body EXCEPT ![c] = new]
          /\ disk' = [header |-> disk'.header, body |-> disk'.body, sealed |-> disk'.sealed]
        BY <2>1 DEF Shape
    <2>3. /\ disk'.body = [b \in Chunks |-> disk'.body[b]]
          /\ disk'.body[c] = new
          /\ \A b \in Chunks \ {c} : disk'.body[b] = disk.body[b]
        BY <2>2 DEF Shape
    <2> QED BY <1>2, <2>2, <2>3 DEF Store, Shape, new
<1> QED BY <1>1, <1>2

-----------------------------------------------------------------------------
(* The steps of a save *)

\* Opening the file: nothing is in it, and no ids are given.
LEMMA OpenInv ==
    ASSUME SaveInv, OpenFile
    PROVE  SaveInv'
<1>1. Types /\ trained' = trained /\ feats' = feats
    BY DEF SaveInv, OpenFile, feats
<1>2. Types'
    <2>1. Shape(disk)'
        <3>1. Shape(EmptyFile)
            BY DEF Shape, EmptyFile
        <3> QED BY <3>1 DEF OpenFile, Shape
    <2>2. fmap' \in [DOMAIN feats' -> Int] /\ amap' \in [Attrs -> Int]
        BY <1>1 DEF OpenFile
    <2> QED BY <1>1, <2>1, <2>2 DEF OpenFile, Types, Chunks
<1>3. NumberedFeatures' = {} /\ NumberedAttrs' = {}
    BY <1>1 DEF OpenFile, NumberedFeatures, NumberedAttrs
<1>4. Ids'
    <2>1. J' = 0
        BY <1>2, <1>3, FS_EmptySet DEF J, NumberedFeatures
    <2> QED BY <1>3, <2>1 DEF Ids, OpenFile
<1>5. Numbering' /\ Control'
    BY <1>3 DEF OpenFile, Numbering, Control, Writing, Written, EmptyFile, Chunks
<1>6. Bodies'
    <2>1. \A c \in Chunks \ {"features"} : Put(c)' = {} /\ DOMAIN disk'.body[c] = {}
        BY DEF OpenFile, Put, Written, EmptyFile
    <2> QED BY <1>3, <2>1 DEF Bodies, Holds
<1>7. Promised'
    BY DEF OpenFile, Promised, EmptyFile
<1> QED BY <1>2, <1>4, <1>5, <1>6, <1>7 DEF SaveInv

\* A save that stops at an error leaves every chunk but the one at hand alone,
\* and seals none.
LEMMA StopInv ==
    ASSUME SaveInv, pc \in Chunks, pc' = "close", fault' \in {"io", "memory"},
           UNCHANGED <<trained, fmap, amap, num, off>>,
           wstate' \in Chunks \cup {"none"}, i' \in Nat,
           ferr' \in BOOLEAN, ferr => ferr',
           Shape(disk)', disk'.header = disk.header, disk'.sealed = disk.sealed,
           pc = "features" => disk' = disk,
           \A c \in Chunks \ {pc} : disk'.body[c] = disk.body[c]
    PROVE  SaveInv'
<1>1. Types /\ Ids /\ Control /\ Bodies /\ Promised
    BY DEF SaveInv
<1>2. /\ feats' = feats /\ NumberedFeatures' = NumberedFeatures /\ Ids'
    BY <1>1, MapsKept
<1>3. Types'
    BY <1>1, <1>2 DEF Types
<1>4. "close" \notin Chunks
    BY DEF Chunks, Dictionaries, References
<1>5. Numbering'
    BY <1>4 DEF Numbering
<1>6. Control'
    BY <1>1, <1>4 DEF Control, Clean, Writing
<1>7. disk'.body["features"] = disk.body["features"]
    BY DEF Chunks
<1>8. Bodies'
    BY <1>1, <1>2, <1>7 DEF Bodies, Clean
<1>9. Promised'
    <2>1. \A c \in disk'.sealed : disk'.body[c] = disk.body[c]
        BY <1>1, WrittenNext DEF Control
    <2> QED BY <1>1, <2>1, WholeKept DEF Promised, Clean
<1> QED BY <1>2, <1>3, <1>5, <1>6, <1>8, <1>9 DEF SaveInv

\* Out of memory, before anything is written.
LEMMA NoMemoryInv ==
    ASSUME SaveInv, NoMemory
    PROVE  SaveInv'
<1>1. Types /\ pc \in Chunks /\ pc' = "close" /\ fault' = "memory"
    BY DEF SaveInv, NoMemory, GoOn
<1>2. /\ UNCHANGED <<trained, fmap, amap, num, off>>
      /\ wstate' = wstate /\ i' = i /\ ferr' = ferr /\ disk' = disk
    BY DEF NoMemory
<1>3. Shape(disk)' /\ wstate' \in Chunks \cup {"none"} /\ i' \in Nat /\ ferr' \in BOOLEAN
    BY <1>1, <1>2 DEF Types, Shape
<1> QED BY <1>1, <1>2, <1>3, StopInv

\* The writer never finds another chunk open: a chunk is opened, and empty.
LEMMA OpenChunkInv ==
    ASSUME SaveInv, OpenChunk
    PROVE  SaveInv'
<1>1. /\ Types /\ Ids /\ Numbering /\ Control /\ Bodies /\ Promised
      /\ pc \in Chunks /\ wstate # pc
    BY DEF SaveInv, OpenChunk
<1>2. wstate = "none" /\ fault = "none" /\ "none" \notin Chunks
    BY <1>1 DEF Control, Chunks, Dictionaries, References
<1>3. /\ pc' = pc /\ fault' = "none" /\ wstate' = pc /\ off' = off \cup {pc} /\ i' = 0
      /\ UNCHANGED <<trained, fmap, amap, num, ferr, disk>>
    BY <1>2 DEF OpenChunk, GoOn
<1>4. /\ feats' = feats /\ NumberedFeatures' = NumberedFeatures /\ Ids'
      /\ \A c : Items(c)' = Items(c)
    BY <1>1, <1>3, MapsKept
<1>5. Types'
    BY <1>1, <1>3, <1>4 DEF Types, Shape
<1>6. Numbering'
    <2>1. \A k \in trained.active : k \in Nat
        BY <1>1, TrainedIs
    <2> QED BY <1>1, <1>2, <1>3, <1>4, <2>1 DEF Numbering
<1>7. Control'
    BY <1>1, <1>2, <1>3 DEF Control, Clean, Writing
<1>8. \A c \in Chunks \ {"features"} : Put(c)' = Put(c)
    <2> TAKE c \in Chunks \ {"features"}
    <2>1. {x \in Items(c) : x < 0} = {}
        BY <1>1, ItemsAre
    <2> QED BY <1>2, <1>3, <1>4, <2>1 DEF Put
<1>9. Bodies'
    <2>1. Writing /\ Clean => \A c \in Chunks \ {"features"} : Holds(c)'
        BY <1>1, <1>3, <1>8, HoldsKept DEF Bodies
    <2> QED BY <1>1, <1>2, <1>3, <1>4, <2>1 DEF Bodies, Writing, Clean
<1>10. Promised'
    BY <1>1, <1>2, <1>3, WholeKept, CompleteKept DEF Promised, Clean
<1> QED BY <1>4, <1>5, <1>6, <1>7, <1>9, <1>10 DEF SaveInv

\* An item is put behind all that were put before it, under an id of its own;
\* a write that is lost is never mistaken for one that was not.
LEMMA PutInv ==
    ASSUME SaveInv, NEW c \in Chunks \ {"features"}, pc = c, wstate = c,
           NEW n \in Remaining(c), \A m \in Remaining(c) : n <= m,
           NEW lost \in BOOLEAN, NEW id, id = IdOf(c, n), NEW item, item = ItemOf(c, n),
           Store(c, id, item, lost),
           i' = n + 1, pc' = pc, fault' = "none",
           UNCHANGED <<trained, wstate, fmap, amap, num, off>>
    PROVE  SaveInv'
<1>1. /\ Types /\ Ids /\ Numbering /\ Control /\ Bodies /\ Promised
      /\ fault = "none" /\ disk.header = {}
    BY DEF SaveInv, Control, Writing
<1>2. /\ feats' = feats /\ NumberedFeatures' = NumberedFeatures /\ Ids'
      /\ \A b : Items(b)' = Items(b)
      /\ \A b, x : IdOf(b, x)' = IdOf(b, x) /\ ItemOf(b, x)' = ItemOf(b, x)
    BY <1>1, MapsKept
<1>3. /\ Shape(disk)'
      /\ disk'.header = disk.header /\ disk'.sealed = disk.sealed
      /\ \A b \in Chunks \ {c} : disk'.body[b] = disk.body[b]
      /\ ferr' = (ferr \/ lost) /\ ferr' \in BOOLEAN
      /\ ~lost => disk'.body[c] = [x \in DOMAIN disk.body[c] \cup {id} |->
                                      IF x = id THEN item ELSE disk.body[c][x]]
    <2>1. Shape(disk) /\ c \in Chunks /\ ferr \in BOOLEAN
        BY <1>1 DEF Types
    <2> QED BY <2>1, StoreIs
<1>4. /\ Items(c) \subseteq Nat /\ n \in Items(c) /\ n >= i /\ i \in Nat
      /\ \A x \in Items(c) : x >= i => n <= x
      /\ \A x, y \in Items(c) : IdOf(c, x) = IdOf(c, y) => x = y
    BY <1>1, ItemsAre DEF Types
<1>5. c \notin Written(c)
    BY WrittenNext
<1>6. Put(c)' = Put(c) \cup {n} /\ Put(c) \subseteq Items(c) /\ n \notin Put(c)
    <2>1. Put(c) = {x \in Items(c) : x < i} /\ Put(c)' = {x \in Items(c) : x < n + 1}
        BY <1>2, <1>5 DEF Put
    <2>2. \A x \in Items(c) : x < n + 1 <=> (x < i \/ x = n)
        BY <1>4
    <2>3. ~(n < i)
        BY <1>4
    <2> QED BY <1>4, <2>1, <2>2, <2>3
<1>7. \A b \in Chunks \ {"features", c} : Put(b)' = Put(b)
    BY <1>2 DEF Put
<1>8. Types'
    BY <1>1, <1>2, <1>3, <1>4 DEF Types
<1>9. Numbering'
    BY <1>1, <1>2 DEF Numbering
<1>10. Control'
    BY <1>1, <1>3 DEF Control, Writing, Clean
<1>11. Bodies'
    <2>1. ASSUME ~ferr' PROVE Holds(c)'
        <3>1. Holds(c) /\ ~lost
            BY <1>1, <1>3, <2>1 DEF Bodies, Writing, Clean
        <3>2. disk'.body[c] = [x \in DOMAIN disk.body[c] \cup {id} |->
                                  IF x = id THEN item ELSE disk.body[c][x]]
            BY <1>3, <3>1
        <3>3. DOMAIN disk'.body[c] = {IdOf(c, x) : x \in Put(c)'}
            BY <1>6, <3>1, <3>2 DEF Holds
        <3>4. \A x \in Put(c) : IdOf(c, x) # IdOf(c, n)
            BY <1>4, <1>6
        <3>5. \A x \in Put(c) \cup {n} : disk'.body[c][IdOf(c, x)] = ItemOf(c, x)
            BY <3>1, <3>2, <3>4 DEF Holds
        <3>6. disk'.body[c] = [x \in DOMAIN disk'.body[c] |-> disk'.body[c][x]]
            BY <3>2
        <3> QED BY <1>2, <1>6, <3>3, <3>5, <3>6 DEF Holds
    <2>2. ASSUME ~ferr', NEW b \in Chunks \ {"features", c} PROVE Holds(b)'
        BY <1>1, <1>3, <1>7, <2>2, HoldsKept DEF Bodies, Writing, Clean
    <2>3. disk'.body["features"] = disk.body["features"] /\ (~ferr' => ~ferr)
        BY <1>3 DEF Chunks
    <2>4. ~ferr' => \A b \in Chunks \ {"features"} : Holds(b)'
        BY <2>1, <2>2
    <2> QED BY <1>1, <1>2, <2>3, <2>4 DEF Bodies, Clean
<1>12. Promised'
    <2>1. \A b \in disk'.sealed : disk'.body[b] = disk.body[b]
        <3>1. disk.sealed \subseteq Written(c) /\ Written(c) \subseteq Chunks
            BY <1>1, WrittenNext DEF Control
        <3> QED BY <1>3, <1>5, <3>1
    <2>2. pc \in Chunks /\ "returned" \notin Chunks
        BY DEF Chunks, Dictionaries, References
    <2> QED BY <1>1, <1>3, <2>1, <2>2, WholeKept DEF Promised
<1> QED BY <1>2, <1>8, <1>9, <1>10, <1>11, <1>12 DEF SaveInv

\* An active feature takes the next id, and its attribute one too if it has
\* none: the check of crf1dmw_put_feature() that ids come in order never fails.
LEMMA PutFeatureInv ==
    ASSUME SaveInv, NEW lost \in BOOLEAN, PutFeature(lost)
    PROVE  SaveInv'
<1>1. /\ Types /\ Ids /\ Numbering /\ Control /\ Bodies /\ Promised
      /\ pc = "features" /\ wstate = "features"
      /\ fault = "none" /\ disk.header = {} /\ disk.sealed = {}
    BY DEF SaveInv, PutFeature, Control, Writing, Written, Chunks
<1>2. /\ \A k \in trained.active : k \in NumberedFeatures <=> k < i
      /\ num = J /\ J \in Nat /\ B \in Nat /\ i \in Nat
      /\ IsFiniteSet(NumberedFeatures) /\ IsFiniteSet(NumberedAttrs)
      /\ J = Cardinality(NumberedFeatures) /\ B = Cardinality(NumberedAttrs)
    BY <1>1, Counting DEF Numbering, Ids, Types
<1>3. PICK k \in Remaining("features") :
          /\ \A m \in Remaining("features") : k <= m
          /\ fmap' = [fmap EXCEPT ![k] = num]
          /\ amap' = IF feats[k].type = "state" /\ amap[feats[k].src] = -1
                     THEN [amap EXCEPT ![feats[k].src] = B] ELSE amap
          /\ i' = k + 1
          /\ pc' = pc /\ fault' = "none" /\ num' = num + 1
          /\ \E src : Store(pc, num, [type |-> feats[k].type, dst |-> feats[k].dst,
                                      weight |-> k, src |-> src], lost)
          /\ UNCHANGED <<trained, wstate, off>>
    BY <1>1, <1>2 DEF PutFeature, NewFid, GoOn
<1>4. /\ k \in trained.active /\ k \in DOMAIN feats /\ k \in Nat /\ k >= i
      /\ \A m \in trained.active : m >= i => k <= m
      /\ k \notin NumberedFeatures
      /\ feats[k].type \in {"state", "trans"}
      /\ feats[k].type = "state" => feats[k].src \in Attrs
      /\ \A m \in trained.active : m \in Nat
      /\ feats' = feats
    <2>1. k \in trained.active /\ k >= i /\ \A m \in trained.active : m >= i => k <= m
        BY <1>3 DEF Remaining
    <2>2. feats' = feats
        BY <1>3 DEF feats
    <2>3. k \in DOMAIN feats /\ \A m \in trained.active : m \in Nat
        BY <1>1, <2>1, TrainedIs
    <2> QED BY <1>1, <1>2, <2>1, <2>2, <2>3, TrainedIs
<1>5. /\ NumberedFeatures' = NumberedFeatures \cup {k}
      /\ \A m \in NumberedFeatures : fmap'[m] = fmap[m]
      /\ fmap'[k] = num
      /\ fmap' \in [DOMAIN feats -> Int]
    <2>1. /\ fmap \in [DOMAIN feats -> Int]
          /\ fmap' = [fmap EXCEPT ![k] = num]
          /\ num \in Nat /\ num # -1
        BY <1>1, <1>2, <1>3 DEF Types
    <2>2. /\ fmap' \in [DOMAIN feats -> Int] /\ fmap'[k] = num
          /\ \A m \in DOMAIN feats : m # k => fmap'[m] = fmap[m]
        BY <1>4, <2>1
    <2>3. k \in DOMAIN feats /\ k \notin NumberedFeatures /\ feats' = feats
        BY <1>4
    <2> QED BY <2>1, <2>2, <2>3 DEF NumberedFeatures
<1>6. J' = J + 1
    <2>1. J' = Cardinality(NumberedFeatures')
        BY DEF J, NumberedFeatures
    <2> QED BY <1>2, <1>4, <1>5, <2>1, FS_AddElement
<1>7. /\ amap' \in [Attrs -> Int]
      /\ \A a \in NumberedAttrs' : amap'[a] \in 0..(B' - 1)
      /\ \A a, b \in NumberedAttrs' : amap'[a] = amap'[b] => a = b
      /\ NumberedAttrs' = NumberedAttrs \cup
             (IF feats[k].type = "state" THEN {feats[k].src} ELSE {})
    <2>1. CASE feats[k].type = "state" /\ amap[feats[k].src] = -1
        <3> DEFINE a0 == feats[k].src
        <3>1. a0 \in Attrs /\ a0 \notin NumberedAttrs
            BY <1>4, <2>1 DEF NumberedAttrs
        <3>2. amap' = [amap EXCEPT ![a0] = B] /\ amap \in [Attrs -> Int]
            BY <1>1, <1>3, <2>1 DEF Types
        <3>3. /\ NumberedAttrs' = NumberedAttrs \cup {a0}
              /\ amap' \in [Attrs -> Int]
              /\ amap'[a0] = B
              /\ \A a \in NumberedAttrs : amap'[a] = amap[a]
            BY <1>2, <3>1, <3>2 DEF NumberedAttrs
        <3>4. B' = B + 1
            <4>1. B' = Cardinality(NumberedAttrs')
                BY DEF B, NumberedAttrs
            <4> QED BY <1>2, <3>1, <3>3, <4>1, FS_AddElement
        <3>5. /\ \A a \in NumberedAttrs : amap[a] \in 0..(B - 1)
              /\ \A a, b \in NumberedAttrs : amap[a] = amap[b] => a = b
            BY <1>1 DEF Ids
        <3> HIDE DEF a0
        <3>6. /\ \A a \in NumberedAttrs' : amap'[a] \in 0..(B' - 1)
              /\ \A a, b \in NumberedAttrs' : amap'[a] = amap'[b] => a = b
            BY <1>2, <3>1, <3>3, <3>4, <3>5
        <3> QED BY <2>1, <3>3, <3>6 DEF a0
    <2>2. CASE ~(feats[k].type = "state" /\ amap[feats[k].src] = -1)
        <3>1. amap' = amap
            BY <1>3, <2>2
        <3>2. NumberedAttrs' = NumberedAttrs /\ B' = B
            BY <3>1 DEF NumberedAttrs, B
        <3>3. feats[k].type = "state" => feats[k].src \in NumberedAttrs
            BY <1>4, <2>2 DEF NumberedAttrs
        <3> QED BY <1>1, <3>1, <3>2, <3>3 DEF Ids, Types
    <2> QED BY <2>1, <2>2
<1>8. Ids'
    <2>1. num' = J'
        BY <1>2, <1>3, <1>6
    <2>2. \A m \in NumberedFeatures : fmap[m] \in 0..(num - 1) /\ m \in trained.active
        BY <1>1 DEF Ids
    <2>3. \A m \in NumberedFeatures' : fmap'[m] \in 0..(num' - 1) /\ m \in trained'.active
        BY <1>2, <1>3, <1>4, <1>5, <2>2
    <2>4. \A m, n \in NumberedFeatures' : fmap'[m] = fmap'[n] => m = n
        <3>1. \A m, n \in NumberedFeatures : fmap[m] = fmap[n] => m = n
            BY <1>1 DEF Ids
        <3>2. \A m \in NumberedFeatures : fmap'[m] # num
            BY <1>2, <1>5, <2>2
        <3> QED BY <1>5, <3>1, <3>2
    <2>5. \A a \in Attrs :
              a \in NumberedAttrs' <=>
                  \E m \in NumberedFeatures' : feats'[m].type = "state" /\ feats'[m].src = a
        <3>1. \A a \in Attrs :
                  a \in NumberedAttrs <=>
                      \E m \in NumberedFeatures : feats[m].type = "state" /\ feats[m].src = a
            BY <1>1 DEF Ids
        <3> QED BY <1>4, <1>5, <1>7, <3>1
    <2> QED BY <1>7, <2>1, <2>3, <2>4, <2>5 DEF Ids
<1>9. Numbering'
    <2>1. \A m \in trained.active : (m < i \/ m = k) <=> m < k + 1
        BY <1>2, <1>4
    <2> QED BY <1>1, <1>2, <1>3, <1>5, <2>1 DEF Numbering
<1>10. PICK src :
           Store(pc, num, [type |-> feats[k].type, dst |-> feats[k].dst,
                           weight |-> k, src |-> src], lost)
    BY <1>3
<1>11. PICK item :
           /\ item.dst = feats[k].dst /\ item.weight = k
           /\ Store(pc, num, item, lost)
    BY <1>10
<1>12. PICK id : id = num
    OBVIOUS
<1>13. Store("features", id, item, lost)
    BY <1>1, <1>11, <1>12 DEF Store
<1>14. /\ Shape(disk)'
       /\ disk'.header = disk.header /\ disk'.sealed = disk.sealed
       /\ \A b \in Chunks \ {"features"} : disk'.body[b] = disk.body[b]
       /\ ferr' = (ferr \/ lost) /\ ferr' \in BOOLEAN
       /\ ~lost => disk'.body["features"] =
                      [n \in DOMAIN disk.body["features"] \cup {id} |->
                          IF n = id THEN item ELSE disk.body["features"][n]]
    <2>1. Shape(disk) /\ "features" \in Chunks /\ ferr \in BOOLEAN
        BY <1>1 DEF Types, Chunks
    <2> QED BY <1>13, <2>1, StoreIs
<1>15. Types'
    BY <1>1, <1>3, <1>4, <1>5, <1>7, <1>14 DEF Types
<1>16. Control'
    BY <1>1, <1>3, <1>14 DEF Control, Writing, Clean
<1>17. Bodies'
    <2>1. ASSUME ~ferr', NEW m \in NumberedFeatures'
          PROVE  /\ fmap'[m] \in DOMAIN disk'.body["features"]
                 /\ disk'.body["features"][fmap'[m]].dst = feats'[m].dst
                 /\ disk'.body["features"][fmap'[m]].weight = m
        <3>1. ~ferr /\ ~lost
            BY <1>14, <2>1
        <3>2. CASE m = k
            BY <1>4, <1>5, <1>11, <1>12, <1>14, <3>1, <3>2
        <3>3. CASE m \in NumberedFeatures
            <4>1. fmap[m] # num /\ fmap'[m] = fmap[m]
                BY <1>1, <1>2, <1>5, <3>3 DEF Ids
            <4>2. /\ fmap[m] \in DOMAIN disk.body["features"]
                  /\ disk.body["features"][fmap[m]].dst = feats[m].dst
                  /\ disk.body["features"][fmap[m]].weight = m
                BY <1>1, <3>1, <3>3 DEF Bodies
            <4> QED BY <1>4, <1>12, <1>14, <3>1, <4>1, <4>2
        <3> QED BY <1>5, <3>2, <3>3
    <2>2. ASSUME ~ferr', NEW c \in Chunks \ {"features"} PROVE Holds(c)'
        <3>1. Put(c) = {} /\ Put(c)' = {}
            BY <1>1, <1>3 DEF Put, Written
        <3>2. Holds(c)
            BY <1>1, <1>14, <2>2 DEF Bodies, Clean, Writing, Chunks
        <3>3. DOMAIN disk'.body[c] = {}
            BY <1>14, <3>1, <3>2 DEF Holds
        <3> QED BY <3>1, <3>3 DEF Holds
    <2> QED BY <2>1, <2>2 DEF Bodies, Clean
<1>18. Promised'
    BY <1>1, <1>3, <1>14 DEF Promised
<1> QED BY <1>8, <1>9, <1>15, <1>16, <1>17, <1>18 DEF SaveInv

\* A dictionary that holds all its items is whole: identifiers of attributes
\* no active feature uses are not in it, the others once.
LEMMA HoldsWhole ==
    ASSUME Types, Ids, trained.active \subseteq NumberedFeatures
    PROVE  /\ Put("labels") = Labels /\ Holds("labels") => WholeLabels(disk)
           /\ Put("attrs") = NumberedAttrs /\ Holds("attrs") =>
                  /\ WholeAttrs(disk)
                  /\ \A a \in Attrs : IdsOf(disk, a) = {amap[b] : b \in NumberedAttrs \cap {a}}
<1>1. ASSUME Put("labels") = Labels, Holds("labels") PROVE WholeLabels(disk)
    <2>1. /\ DOMAIN disk.body["labels"] = Labels
          /\ \A x \in Labels : disk.body["labels"][x] = x
          /\ Labels # {} => disk.body["labels"] =
                 [n \in DOMAIN disk.body["labels"] |-> disk.body["labels"][n]]
        BY <1>1 DEF Holds, IdOf, ItemOf
    <2> QED BY <2>1 DEF WholeLabels
<1>2. ASSUME Put("attrs") = NumberedAttrs, Holds("attrs")
      PROVE  /\ WholeAttrs(disk)
             /\ \A a \in Attrs : IdsOf(disk, a) = {amap[b] : b \in NumberedAttrs \cap {a}}
    <2>1. /\ DOMAIN disk.body["attrs"] = {amap[x] : x \in NumberedAttrs}
          /\ \A x \in NumberedAttrs : disk.body["attrs"][amap[x]] = x
        BY <1>2 DEF Holds, IdOf, ItemOf
    <2>2. \A a \in Attrs : IdsOf(disk, a) = {amap[b] : b \in NumberedAttrs \cap {a}}
        BY <2>1 DEF IdsOf
    <2>3. \A a \in Attrs : TrainedWeights("state", a) = {} <=> a \notin NumberedAttrs
        <3> TAKE a \in Attrs
        <3>1. TrainedWeights("state", a) = {} <=> Starting("state", a) \cap trained.active = {}
            BY DEF TrainedWeights
        <3>2. Starting("state", a) \cap trained.active =
                  {k \in NumberedFeatures : feats[k].type = "state" /\ feats[k].src = a}
            BY DEF Ids, Starting, NumberedFeatures
        <3> QED BY <3>1, <3>2 DEF Ids
    <2>4. WholeAttrs(disk)
        <3> SUFFICES ASSUME NEW a \in Attrs
                     PROVE  IF TrainedWeights("state", a) = {} THEN IdsOf(disk, a) = {}
                            ELSE \E n \in IdsOf(disk, a) : IdsOf(disk, a) = {n}
            BY DEF WholeAttrs
        <3>1. CASE a \in NumberedAttrs
            BY <2>2, <2>3, <3>1
        <3>2. CASE a \notin NumberedAttrs
            BY <2>2, <2>3, <3>2
        <3> QED BY <3>1, <3>2
    <2> QED BY <2>2, <2>4
<1> QED BY <1>1, <1>2

\* When everything has been put, the file scores as the training found:
\* renumbering features and attributes, and leaving out those without weight,
\* changes nothing.
LEMMA BodiesComplete ==
    ASSUME SaveInv, pc = "close", Clean
    PROVE  /\ WholeLabels(disk) /\ WholeAttrs(disk)
           /\ \A a \in Attrs :
                  Weights(disk, "attrrefs", IdsOf(disk, a)) = TrainedWeights("state", a)
           /\ \A l \in Labels : Weights(disk, "labelrefs", {l}) = TrainedWeights("trans", l)
<1>1. /\ Types /\ Ids /\ Numbering /\ Bodies
      /\ trained.active \subseteq NumberedFeatures
      /\ NumberedFeatures \subseteq trained.active
      /\ ~ferr
    BY DEF SaveInv, Numbering, Clean, Ids
<1>2. \A c \in Chunks \ {"features"} : Holds(c) /\ Put(c) = Items(c)
    BY <1>1 DEF Bodies, Writing, Put, Written
<1>3. /\ {"labels", "attrs", "labelrefs", "attrrefs"} \subseteq Chunks \ {"features"}
      /\ Items("labels") = Labels /\ Items("labelrefs") = Labels
      /\ Items("attrs") = NumberedAttrs /\ Items("attrrefs") = NumberedAttrs
    BY DEF Chunks, Dictionaries, References, Items
<1>4. /\ WholeLabels(disk) /\ WholeAttrs(disk)
      /\ \A a \in Attrs : IdsOf(disk, a) = {amap[b] : b \in NumberedAttrs \cap {a}}
    BY <1>1, <1>2, <1>3, HoldsWhole
<1>5. ASSUME NEW type \in {"state", "trans"}, NEW n
      PROVE  /\ Refs(type, n) = {fmap[k] : k \in Starting(type, n) \cap trained.active}
             /\ {<<disk.body["features"][x].dst, disk.body["features"][x].weight>> :
                    x \in Refs(type, n) \cap DOMAIN disk.body["features"]}
                  = TrainedWeights(type, n)
    <2>1. Starting(type, n) \subseteq DOMAIN feats
        BY DEF Starting
    <2>2. \A k \in DOMAIN feats : k \in trained.active <=> fmap[k] # -1
        BY <1>1 DEF NumberedFeatures
    <2>3. Refs(type, n) = {fmap[k] : k \in Starting(type, n) \cap trained.active}
        BY <2>1, <2>2 DEF Refs
    <2>4. \A k \in trained.active :
              /\ fmap[k] \in DOMAIN disk.body["features"]
              /\ disk.body["features"][fmap[k]].dst = feats[k].dst
              /\ disk.body["features"][fmap[k]].weight = k
        BY <1>1 DEF Bodies
    <2> QED BY <2>3, <2>4 DEF TrainedWeights
<1>6. ASSUME NEW l \in Labels
      PROVE  Weights(disk, "labelrefs", {l}) = TrainedWeights("trans", l)
    <2>1. l \in DOMAIN disk.body["labelrefs"] /\ disk.body["labelrefs"][l] = Refs("trans", l)
        <3>1. Holds("labelrefs") /\ l \in Put("labelrefs")
            BY <1>2, <1>3
        <3>2. IdOf("labelrefs", l) = l /\ ItemOf("labelrefs", l) = Refs("trans", l)
            BY DEF IdOf, ItemOf
        <3> QED BY <3>1, <3>2 DEF Holds
    <2>2. UNION {disk.body["labelrefs"][n] : n \in {l} \cap DOMAIN disk.body["labelrefs"]}
              = Refs("trans", l)
        BY <2>1
    <2> QED BY <1>5, <2>2 DEF Weights
<1>7. ASSUME NEW a \in Attrs
      PROVE  Weights(disk, "attrrefs", IdsOf(disk, a)) = TrainedWeights("state", a)
    <2>1. CASE a \in NumberedAttrs
        <3>1. IdsOf(disk, a) = {amap[a]}
            BY <1>4, <2>1
        <3>2. amap[a] \in DOMAIN disk.body["attrrefs"]
              /\ disk.body["attrrefs"][amap[a]] = Refs("state", a)
            <4>1. Holds("attrrefs") /\ a \in Put("attrrefs")
                BY <1>2, <1>3, <2>1
            <4>2. IdOf("attrrefs", a) = amap[a] /\ ItemOf("attrrefs", a) = Refs("state", a)
                BY DEF IdOf, ItemOf
            <4> QED BY <4>1, <4>2 DEF Holds
        <3>3. UNION {disk.body["attrrefs"][n] :
                        n \in {amap[a]} \cap DOMAIN disk.body["attrrefs"]} = Refs("state", a)
            BY <3>2
        <3> QED BY <1>5, <3>1, <3>3 DEF Weights
    <2>2. CASE a \notin NumberedAttrs
        <3>1. IdsOf(disk, a) = {}
            BY <1>4, <2>2
        <3>2. Weights(disk, "attrrefs", {}) = {}
            BY DEF Weights
        <3>3. Starting("state", a) \cap trained.active = {}
            BY <1>1, <2>2 DEF Ids, Starting
        <3> QED BY <3>1, <3>2, <3>3 DEF TrainedWeights
    <2> QED BY <2>1, <2>2
<1> QED BY <1>4, <1>6, <1>7

\* A chunk is sealed when all its items are in it, and the writer goes on.
LEMMA SealInv ==
    ASSUME SaveInv, NEW c \in Chunks, pc = c, wstate = c, Remaining(c) = {},
           pc' = After(c), wstate' = "none", fault' = "none",
           UNCHANGED <<trained, i, fmap, amap, num, off>>,
           Shape(disk)', disk'.header = disk.header, disk'.body = disk.body,
           \/ disk'.sealed = disk.sealed \cup {c} /\ ferr' = ferr
           \/ disk'.sealed = disk.sealed /\ ferr' = TRUE,
           c \in Dictionaries => ~ferr
    PROVE  SaveInv'
<1>1. /\ Types /\ Ids /\ Numbering /\ Control /\ Bodies /\ Promised
      /\ fault = "none" /\ disk.header = {}
      /\ off = Written(c) \cup {c} /\ disk.sealed \subseteq Written(c)
      /\ "none" \notin Chunks /\ "returned" \notin Chunks /\ "close" \notin Chunks
    BY DEF SaveInv, Control, Writing, Chunks, Dictionaries, References
<1>2. /\ After(c) \in (Chunks \ {"features"}) \cup {"close"}
      /\ After(c) # c
      /\ Written(After(c)) = Written(c) \cup {c}
      /\ c \notin Written(c)
      /\ After(c) \notin Written(After(c))
    BY WrittenNext
<1>3. /\ feats' = feats /\ NumberedFeatures' = NumberedFeatures /\ Ids'
      /\ NumberedAttrs' = NumberedAttrs
      /\ \A b : Items(b)' = Items(b)
    BY <1>1, MapsKept
<1>4. Types'
    BY <1>1, <1>2, <1>3 DEF Types
<1>5. trained.active \subseteq NumberedFeatures
    <2>1. CASE c = "features"
        <3>1. \A k \in trained.active : k \in Nat
            BY <1>1, TrainedIs
        <3>2. \A k \in trained.active : ~(k >= i)
            BY <2>1 DEF Remaining
        <3>3. \A k \in trained.active : k < i
            BY <1>1, <3>1, <3>2 DEF Types
        <3> QED BY <1>1, <2>1, <3>3 DEF Numbering
    <2>2. CASE c # "features"
        BY <1>1, <2>2 DEF Numbering
    <2> QED BY <2>1, <2>2
<1>6. Numbering'
    BY <1>2, <1>3, <1>5 DEF Numbering
<1>7. Control'
    <2>1. Written("close") = Chunks
        BY DEF Written
    <2>2. Writing' /\ disk'.header = {} /\ off' = Written(pc')
        BY <1>1, <1>2 DEF Writing
    <2>3. disk'.sealed \subseteq Written(pc')
        BY <1>1, <1>2
    <2>4. Clean' => disk'.sealed = Written(pc')
        BY <1>1, <1>2 DEF Control, Clean, Writing
    <2> QED BY <1>1, <2>1, <2>2, <2>3, <2>4 DEF Control
<1>8. c # "features" => Put(c) = Items(c)
    <2> SUFFICES ASSUME c # "features" PROVE Put(c) = Items(c)
        OBVIOUS
    <2>1. Put(c) = {x \in Items(c) : x < i}
        BY <1>2 DEF Put
    <2>2. Items(c) \subseteq Nat /\ Remaining(c) = {x \in Items(c) : x >= i}
        BY <1>1, ItemsAre
    <2>3. \A x \in Items(c) : x < i
        BY <1>1, <2>2 DEF Types
    <2> QED BY <2>1, <2>3
<1>9. ASSUME NEW b \in Chunks \ {"features"} PROVE Put(b)' = Put(b)
    <2>1. CASE b = c
        BY <1>2, <1>3, <1>8, <2>1 DEF Put
    <2>2. CASE b # c
        BY <1>1, <1>2, <1>3, <2>2 DEF Put
    <2> QED BY <2>1, <2>2
<1>10. Bodies'
    <2>1. ASSUME ~ferr', NEW b \in Chunks \ {"features"} PROVE Holds(b)'
        BY <1>1, <1>9, <2>1, HoldsKept DEF Bodies, Writing, Clean
    <2> QED BY <1>1, <1>3, <2>1 DEF Bodies, Clean
<1>11. Promised'
    <2>1. (WholeLabels(disk) <=> WholeLabels(disk)') /\ (WholeAttrs(disk) <=> WholeAttrs(disk)')
        BY WholeKept
    <2>2. disk'.header = {} /\ pc' # "returned"
        BY <1>1, <1>2
    <2>3. ASSUME c \in Dictionaries
          PROVE  /\ c = "labels" => WholeLabels(disk)
                 /\ c = "attrs" => WholeAttrs(disk)
        <3>1. c # "features" /\ ~ferr
            BY <2>3 DEF Dictionaries
        <3>2. Holds(c) /\ Put(c) = Items(c)
            BY <1>1, <1>8, <3>1 DEF Bodies, Writing, Clean
        <3> QED BY <1>1, <1>5, <3>2, HoldsWhole DEF Items
    <2>4. "labels" \in Dictionaries /\ "attrs" \in Dictionaries
        BY DEF Dictionaries
    <2>5. disk'.sealed \subseteq disk.sealed \cup {c}
        OBVIOUS
    <2> QED BY <1>1, <2>1, <2>2, <2>3, <2>4, <2>5 DEF Promised
<1> QED BY <1>3, <1>4, <1>6, <1>7, <1>10, <1>11 DEF SaveInv

\* The header is the last write: with it the file is the trained model.
LEMMA CloseInv ==
    ASSUME SaveInv, NEW lost \in BOOLEAN, CloseFile(lost)
    PROVE  SaveInv'
<1>1. /\ Types /\ Ids /\ Numbering /\ Control /\ Bodies /\ Promised
      /\ pc = "close" /\ pc' = "returned" /\ ferr' = (ferr \/ lost)
      /\ UNCHANGED <<trained, wstate, i, fmap, amap, num, off, fault>>
    BY DEF SaveInv, CloseFile
<1>2. /\ Shape(disk)' /\ disk'.body = disk.body /\ disk'.sealed = disk.sealed
      /\ disk'.header = IF lost THEN disk.header ELSE off
    <2>1. CASE lost
        BY <1>1, <2>1 DEF CloseFile, Types, Shape
    <2>2. CASE ~lost
        <3>1. disk' = [disk EXCEPT !.header = off]
            BY <2>2 DEF CloseFile
        <3>2. /\ disk'.body = disk.body /\ disk'.sealed = disk.sealed /\ disk'.header = off
              /\ disk' = [header |-> off, body |-> disk.body, sealed |-> disk.sealed]
            BY <1>1, <3>1 DEF Types, Shape
        <3> QED BY <1>1, <2>2, <3>2 DEF Types, Shape
    <2> QED BY <2>1, <2>2
<1>3. feats' = feats /\ NumberedFeatures' = NumberedFeatures /\ Ids'
    BY <1>1, MapsKept
<1>4. Types'
    BY <1>1, <1>2, <1>3 DEF Types
<1>5. ~Writing' /\ pc' \notin Chunks
    BY <1>1 DEF Writing, Chunks, Dictionaries, References
<1>6. Numbering' /\ Control'
    BY <1>1, <1>5 DEF Numbering, Control, Chunks
<1>7. Bodies'
    BY <1>1, <1>2, <1>3, <1>5 DEF Bodies
<1>8. ASSUME Clean' PROVE Complete(disk)'
    <2>1. Clean /\ ~lost
        BY <1>1, <1>8 DEF Clean
    <2>2. disk'.header = Chunks /\ disk'.sealed = Chunks
        BY <1>1, <1>2, <2>1 DEF Control, Writing, Clean, Written
    <2>3. /\ WholeLabels(disk) /\ WholeAttrs(disk)
          /\ \A a \in Attrs :
                 Weights(disk, "attrrefs", IdsOf(disk, a)) = TrainedWeights("state", a)
          /\ \A l \in Labels : Weights(disk, "labelrefs", {l}) = TrainedWeights("trans", l)
        BY <1>1, <2>1, BodiesComplete
    <2>4. WholeLabels(disk)' /\ WholeAttrs(disk)'
        BY <1>1, <1>2, <2>3, WholeKept
    <2>5. /\ \A t, a : TrainedWeights(t, a)' = TrainedWeights(t, a)
          /\ \A a : IdsOf(disk, a)' = IdsOf(disk, a)
          /\ \A c, ids : Weights(disk, c, ids)' = Weights(disk, c, ids)
        BY <1>1, <1>2 DEF TrainedWeights, Starting, feats, IdsOf, Weights
    <2>6. \A c \in Chunks : Readable(disk, c)'
        BY <2>2 DEF Readable
    <2> QED BY <2>3, <2>4, <2>5, <2>6 DEF Complete
<1>9. Promised'
    BY <1>1, <1>2, <1>8, WholeKept DEF Promised
<1> QED BY <1>3, <1>4, <1>6, <1>7, <1>9 DEF SaveInv

\* Whatever stops or starts a save between two calls leaves the file alone.
LEMMA ProcessInv ==
    ASSUME SaveInv, OpenFileFails \/ Kill \/ Retrain \/ UNCHANGED vars
    PROVE  SaveInv'
<1>1. /\ Types /\ Ids /\ Numbering /\ Control /\ Bodies /\ Promised
      /\ UNCHANGED <<trained, wstate, i, fmap, amap, num, off, ferr, disk>>
    BY DEF SaveInv, OpenFileFails, Kill, Retrain, vars
<1>2. /\ feats' = feats /\ NumberedFeatures' = NumberedFeatures /\ Ids'
      /\ \A c : Items(c)' = Items(c)
    BY <1>1, MapsKept
<1>3. /\ WholeLabels(disk) <=> WholeLabels(disk)'
      /\ WholeAttrs(disk) <=> WholeAttrs(disk)'
      /\ Complete(disk) <=> Complete(disk)'
    BY <1>1, WholeKept, CompleteKept
<1>4. CASE UNCHANGED vars
    <2>1. pc' = pc /\ fault' = fault
        BY <1>4 DEF vars
    <2>2. Types'
        BY <1>1, <1>2, <2>1 DEF Types, Shape
    <2>3. Numbering' /\ Control' /\ Promised'
        BY <1>1, <1>2, <1>3, <2>1 DEF Numbering, Control, Promised, Writing, Clean
    <2>4. \A c : Put(c)' = Put(c)
        BY <1>1, <1>2, <2>1 DEF Put
    <2>5. Bodies'
        <3>1. Writing /\ Clean => \A c \in Chunks \ {"features"} : Holds(c)'
            BY <1>1, <2>4, HoldsKept DEF Bodies
        <3> QED BY <1>1, <1>2, <2>1, <3>1 DEF Bodies, Writing, Clean
    <2> QED BY <1>2, <2>2, <2>3, <2>5 DEF SaveInv
<1>5. CASE OpenFileFails \/ Kill \/ Retrain
    <2>1. /\ pc' \in {"open", "returned", "killed"}
          /\ fault' \in {"none", "io", "memory"}
          /\ Clean' => Clean /\ pc' # "returned"
        BY <1>1, <1>5 DEF OpenFileFails, Kill, Retrain, Clean, Types
    <2>2. ~Writing' /\ pc' \notin Chunks
        BY <2>1 DEF Writing, Chunks, Dictionaries, References
    <2>3. Types'
        BY <1>1, <1>2, <2>1 DEF Types, Shape
    <2>4. Numbering' /\ Control' /\ Bodies'
        BY <1>1, <1>2, <2>1, <2>2 DEF Numbering, Control, Bodies, Chunks
    <2>5. Promised'
        BY <1>1, <1>3, <2>1 DEF Promised
    <2> QED BY <1>2, <2>3, <2>4, <2>5 DEF SaveInv
<1> QED BY <1>4, <1>5

\* The loops over labels and attributes stop at the first write they know is
\* lost.
LEMMA PutStringInv ==
    ASSUME SaveInv, NEW lost \in BOOLEAN, PutString(lost)
    PROVE  SaveInv'
<1>1. /\ Types /\ Ids /\ pc \in Dictionaries /\ wstate = pc
      /\ pc \in Chunks \ {"features"}
    BY DEF SaveInv, PutString, Chunks, Dictionaries
<1>2. PICK c \in Chunks \ {"features"} : pc = c /\ wstate = c /\ c \in Dictionaries
    BY <1>1
<1>3. PICK n \in Remaining(c) :
          /\ \A m \in Remaining(c) : n <= m
          /\ Store(c, IF c = "labels" THEN n ELSE amap[n], n, lost)
          /\ GoOn(c, IF ferr' THEN "io" ELSE "none")
          /\ i' = n + 1
          /\ UNCHANGED <<trained, wstate, fmap, amap, num, off>>
    BY <1>2 DEF PutString
<1>4. PICK id, item : id = IdOf(c, n) /\ item = ItemOf(c, n)
    OBVIOUS
<1>5. id = (IF c = "labels" THEN n ELSE amap[n]) /\ item = n
    BY <1>2, <1>4 DEF IdOf, ItemOf, Dictionaries
<1>6. Store(c, id, item, lost)
    BY <1>3, <1>5 DEF Store
<1>7. n \in Nat
    BY <1>1, <1>3, ItemsAre
<1>8. CASE ~ferr'
    <2>1. fault' = "none" /\ pc' = pc
        BY <1>2, <1>3, <1>8 DEF GoOn
    <2> QED BY <1>2, <1>3, <1>4, <1>6, <2>1, PutInv
<1>9. CASE ferr'
    <2>1. fault' = "io" /\ pc' = "close"
        BY <1>3, <1>9 DEF GoOn
    <2>2. /\ Shape(disk)'
          /\ disk'.header = disk.header /\ disk'.sealed = disk.sealed
          /\ \A b \in Chunks \ {c} : disk'.body[b] = disk.body[b]
          /\ ferr' = (ferr \/ lost) /\ ferr' \in BOOLEAN
          /\ ~lost => disk'.body[c] = [x \in DOMAIN disk.body[c] \cup {id} |->
                                          IF x = id THEN item ELSE disk.body[c][x]]
        <3>1. Shape(disk) /\ c \in Chunks /\ ferr \in BOOLEAN
            BY <1>1 DEF Types
        <3> QED BY <1>6, <3>1, StoreIs
    <2>3. wstate' \in Chunks \cup {"none"} /\ i' \in Nat
        BY <1>2, <1>3, <1>7
    <2> QED BY <1>1, <1>2, <1>3, <1>9, <2>1, <2>2, <2>3, StopInv
<1> QED BY <1>8, <1>9

\* The loops over references go on after a lost write: nothing looks.
LEMMA PutReferencesInv ==
    ASSUME SaveInv, NEW lost \in BOOLEAN, PutReferences(lost)
    PROVE  SaveInv'
<1>1. /\ pc \in References /\ wstate = pc /\ fault = "none"
      /\ pc \in Chunks \ {"features"}
    BY DEF SaveInv, Control, PutReferences, Chunks, References
<1>2. PICK c \in Chunks \ {"features"} : pc = c /\ wstate = c /\ c \in References
    BY <1>1
<1>3. PICK n \in Remaining(c) :
          /\ \A m \in Remaining(c) : n <= m
          /\ IF c = "labelrefs" THEN Store(c, n, Refs("trans", n), lost)
                                ELSE Store(c, amap[n], Refs("state", n), lost)
          /\ i' = n + 1
          /\ UNCHANGED <<trained, pc, wstate, fmap, amap, num, off, fault>>
    BY <1>2 DEF PutReferences
<1>4. PICK id, item : id = IdOf(c, n) /\ item = ItemOf(c, n)
    OBVIOUS
<1>5. Store(c, id, item, lost)
    <2>1. CASE c = "labelrefs"
        <3>1. id = n /\ item = Refs("trans", n)
            BY <1>4, <2>1 DEF IdOf, ItemOf
        <3> QED BY <1>3, <2>1, <3>1 DEF Store
    <2>2. CASE c = "attrrefs"
        <3>1. id = amap[n] /\ item = Refs("state", n)
            BY <1>4, <2>2 DEF IdOf, ItemOf
        <3> QED BY <1>3, <2>2, <3>1 DEF Store
    <2> QED BY <1>2, <2>1, <2>2 DEF References
<1> QED BY <1>1, <1>2, <1>3, <1>4, <1>5, PutInv

\* A chunk header that is lost leaves the chunk unsealed, and the error behind.
LEMMA SealChunkInv ==
    ASSUME SaveInv, NEW lost \in BOOLEAN, SealChunk(lost)
    PROVE  SaveInv'
<1>1. /\ Types /\ fault = "none" /\ pc \in {"features"} \cup References /\ pc \in Chunks
    BY DEF SaveInv, Control, SealChunk, Chunks
<1>2. PICK c \in Chunks : pc = c /\ c \notin Dictionaries
    BY <1>1 DEF References, Dictionaries
<1>3. /\ wstate = c /\ Remaining(c) = {}
      /\ ferr' = (ferr \/ lost)
      /\ disk' = IF lost THEN disk ELSE [disk EXCEPT !.sealed = @ \cup {c}]
      /\ wstate' = "none" /\ pc' = After(c) /\ fault' = "none"
      /\ UNCHANGED <<trained, i, fmap, amap, num, off>>
    BY <1>1, <1>2 DEF SealChunk
<1>4. CASE lost
    <2>1. Shape(disk)' /\ disk' = disk /\ ferr' = TRUE
        BY <1>1, <1>3, <1>4 DEF Types, Shape
    <2> QED BY <1>2, <1>3, <2>1, SealInv
<1>5. CASE ~lost
    <2>1. /\ disk' = [disk EXCEPT !.sealed = disk.sealed \cup {c}]
          /\ ferr' = ferr
        BY <1>1, <1>3, <1>5 DEF Types
    <2>2. /\ disk'.header = disk.header /\ disk'.body = disk.body
          /\ disk'.sealed = disk.sealed \cup {c}
          /\ disk' = [header |-> disk.header, body |-> disk.body,
                      sealed |-> disk.sealed \cup {c}]
        BY <1>1, <2>1 DEF Types, Shape
    <2>3. Shape(disk)'
        BY <1>1, <2>2 DEF Types, Shape
    <2> QED BY <1>2, <1>3, <2>1, <2>2, <2>3, SealInv
<1> QED BY <1>4, <1>5

\* cqdb_writer_close() seals a dictionary only when no write was lost.
LEMMA SealDictionaryInv ==
    ASSUME SaveInv, NEW lostTables \in BOOLEAN, NEW lostHeader \in BOOLEAN,
           SealDictionary(lostTables, lostHeader)
    PROVE  SaveInv'
<1>1. /\ Types /\ fault = "none" /\ pc \in Dictionaries /\ pc \in Chunks
    BY DEF SaveInv, Control, SealDictionary, Chunks
<1>2. PICK c \in Chunks : pc = c /\ c \in Dictionaries /\ c # "features"
    BY <1>1 DEF Dictionaries
<1>3. PICK body :
          body = [disk.body EXCEPT ![c] = IF lostTables THEN <<>> ELSE disk.body[c]]
    OBVIOUS
<1>4. PICK sealed :
          sealed = IF ~(ferr \/ lostTables) /\ ~lostHeader THEN disk.sealed \cup {c}
                   ELSE disk.sealed
    OBVIOUS
<1>5. /\ wstate = c /\ Remaining(c) = {}
      /\ ferr' = (ferr \/ lostTables \/ (~(ferr \/ lostTables) /\ lostHeader))
      /\ disk' = [disk EXCEPT !.body[c] = IF lostTables THEN <<>> ELSE disk.body[c],
                              !.sealed = sealed]
      /\ GoOn(After(c), IF ~(ferr \/ lostTables) /\ ~lostHeader THEN "none" ELSE "io")
      /\ wstate' = IF fault' = "none" THEN "none" ELSE wstate
      /\ UNCHANGED <<trained, i, fmap, amap, num, off>>
    BY <1>2, <1>4 DEF SealDictionary, Sealable
<1>6. /\ disk'.header = disk.header /\ disk'.body = body /\ disk'.sealed = sealed
      /\ disk' = [header |-> disk.header, body |-> body, sealed |-> sealed]
    BY <1>1, <1>3, <1>5 DEF Types, Shape
<1>7. /\ body = [b \in Chunks |-> body[b]]
      /\ \A b \in Chunks \ {c} : body[b] = disk.body[b]
      /\ ~lostTables => body = disk.body
    BY <1>1, <1>3 DEF Types, Shape
<1>8. Shape(disk)'
    BY <1>1, <1>4, <1>6, <1>7 DEF Types, Shape
<1>9. CASE ~ferr /\ ~lostTables /\ ~lostHeader
    <2>1. /\ disk'.sealed = disk.sealed \cup {c} /\ disk'.body = disk.body
          /\ fault' = "none" /\ pc' = After(c) /\ wstate' = "none"
          /\ ferr' = ferr
        BY <1>1, <1>4, <1>5, <1>6, <1>7, <1>9 DEF GoOn, Types
    <2> QED BY <1>2, <1>5, <1>6, <1>8, <1>9, <2>1, SealInv
<1>10. CASE ferr \/ lostTables \/ lostHeader
    <2>1. /\ disk'.sealed = disk.sealed
          /\ fault' = "io" /\ pc' = "close" /\ wstate' = wstate
        BY <1>4, <1>5, <1>6, <1>10 DEF GoOn
    <2>2. ferr' \in BOOLEAN /\ (ferr => ferr') /\ i' \in Nat
        BY <1>1, <1>5 DEF Types
    <2> QED BY <1>2, <1>5, <1>6, <1>7, <1>8, <2>1, <2>2, StopInv
<1> QED BY <1>9, <1>10

-----------------------------------------------------------------------------

\* Before the first save there is no file and nothing is numbered.
LEMMA InitSave == Init => SaveInv
<1> SUFFICES ASSUME Init PROVE SaveInv
    OBVIOUS
<1>1. Types
    <2>1. Shape(EmptyFile)
        BY DEF Shape, EmptyFile
    <2>2. fmap \in [DOMAIN feats -> Int] /\ amap \in [Attrs -> Int]
        BY DEF Init
    <2> QED BY <2>1, <2>2 DEF Init, Types
<1>2. NumberedFeatures = {} /\ NumberedAttrs = {}
    BY DEF Init, NumberedFeatures, NumberedAttrs
<1>3. Ids
    <2>1. J = 0
        BY <1>2, FS_EmptySet DEF J, NumberedFeatures
    <2> QED BY <1>2, <2>1 DEF Ids, Init
<1>4. pc = "open" /\ "open" \notin Chunks
    BY DEF Init, Chunks, Dictionaries, References
<1>5. Numbering /\ Control /\ Bodies
    BY <1>2, <1>4 DEF Numbering, Control, Bodies, Writing, Chunks
<1>6. Promised
    BY <1>4 DEF Init, Promised, EmptyFile
<1> QED BY <1>1, <1>3, <1>5, <1>6 DEF SaveInv

\* Every call of the writer, and whatever stops it, keeps the invariant.
LEMMA NextSave == SaveInv /\ [Next]_vars => SaveInv'
<1> SUFFICES ASSUME SaveInv, [Next]_vars PROVE SaveInv'
    OBVIOUS
<1>1. CASE OpenFile
    BY <1>1, OpenInv
<1>2. CASE OpenChunk
    BY <1>2, OpenChunkInv
<1>3. CASE NoMemory
    BY <1>3, NoMemoryInv
<1>4. ASSUME NEW lost \in BOOLEAN, PutFeature(lost) PROVE SaveInv'
    BY <1>4, PutFeatureInv
<1>5. ASSUME NEW lost \in BOOLEAN, PutString(lost) PROVE SaveInv'
    BY <1>5, PutStringInv
<1>6. ASSUME NEW lost \in BOOLEAN, PutReferences(lost) PROVE SaveInv'
    BY <1>6, PutReferencesInv
<1>7. ASSUME NEW lost \in BOOLEAN, SealChunk(lost) PROVE SaveInv'
    BY <1>7, SealChunkInv
<1>8. ASSUME NEW lost \in BOOLEAN, CloseFile(lost) PROVE SaveInv'
    BY <1>8, CloseInv
<1>9. ASSUME NEW lostTables \in BOOLEAN, NEW lost \in BOOLEAN, SealDictionary(lostTables, lost)
      PROVE  SaveInv'
    BY <1>9, SealDictionaryInv
<1>10. CASE OpenFileFails \/ Kill \/ Retrain \/ UNCHANGED vars
    BY <1>10, ProcessInv
<1> QED BY <1>1, <1>2, <1>3, <1>4, <1>5, <1>6, <1>7, <1>8, <1>9, <1>10 DEF Next

\* A save never leaves the invariant, however often it is killed and run again.
THEOREM SaveInvariant == Spec => []SaveInv
<1> QED BY InitSave, NextSave, PTL DEF Spec

\* The ids crf1de_save_model() gives fit the numbers of features and attributes.
THEOREM TypeCorrect == Spec => []TypeOK
<1> QED BY SaveInvariant, TypeOKHolds, PTL

\* What is saved without an error is what was trained, for every model; the
\* checks of the writer's state and of the order of features never fail.
THEOREM RoundTripAlways == Spec => []RoundTrip
<1>1. SaveInv => RoundTrip
    BY DEF SaveInv, Types, Promised, RoundTrip
<1> QED BY <1>1, SaveInvariant, PTL

\* As long as no write was lost, the header commits: before it is written
\* nobody can read the model, and afterwards it is the whole model.
THEOREM HeaderCommitsAlways == Spec => []HeaderCommits
<1>1. SaveInv => HeaderCommits
    BY DEF SaveInv, Promised, HeaderCommits, Readable
<1> QED BY <1>1, SaveInvariant, PTL

\* Whatever write is lost and wherever the tool is killed, a dictionary that
\* cqdb_reader() accepts holds all labels, or all attributes of the model.
THEOREM DictionariesWholeAlways == Spec => []DictionariesWhole
<1>1. SaveInv => DictionariesWhole
    BY DEF SaveInv, Promised, DictionariesWhole, Readable
<1> QED BY <1>1, SaveInvariant, PTL

===============================================================================
