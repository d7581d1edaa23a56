------------------------------ MODULE Vocabulary ------------------------------
(***************************************************************************)
(* The strings of a model: a dictionary (dictionary.c) numbers them with a *)
(* quark (quark.c), which keeps them in an array and, for the way back, in *)
(* a threaded AVL tree (rumavl.c); the encoder writes those it needs to a  *)
(* constant quark database (cqdb.c), from which a tagger looks them up.    *)
(*                                                                         *)
(* The client is the encoder with its dictionary, or a user of the tree    *)
(* alone, who also deletes: rumavl.c is a library of its own. A string is  *)
(* a key; the record of its node holds its number in numberOf.             *)
(***************************************************************************)
EXTENDS Cqdb

CONSTANTS
    Keys,       \* integers in the order of the tree's cmp()
    Strings,    \* those that are strings of a dictionary
    MaxIds,     \* bound on the numbers a dictionary gives
    Hashes,     \* what hashlittle() may be
    MaxRounds,  \* bound on the rounds of balancing one node
    Null

ASSUME KeysAssumption == Keys \subseteq Int /\ Strings \subseteq Keys /\ Null \notin Keys
ASSUME BoundAssumption ==
    /\ MaxIds \in Nat /\ MaxRounds \in Nat \ {0} /\ NumTables \in Nat \ {0}
    /\ Hashes \subseteq [Strings -> Nat]

VARIABLES
    client,   \* "tree" or "dictionary"
    signed,   \* whether char is signed on this machine
    tree,     \* tree->root and the nodes
    present,  \* the keys that were put into the tree and not deleted
    numberOf, \* the qid of each record of the tree
    strs,     \* qrk->id_to_string, num entries
    max,      \* qrk->max
    pc,       \* "open", "saving", "saved", "destroying", "gone" or "crashed"
    cursor,   \* the node rumavl_destroy() frees next
    heap,     \* how many strings that quark_get() allocated are not freed
    nomem,    \* whether a lack of memory was ignored
    hash,     \* hashlittle() of each string
    used,     \* the numbers of the strings to be saved, in their order
    writer,   \* the cqdb_writer_t
    chunk     \* what the file holds of it

treeVars == <<signed, tree, present, numberOf>>
quarkVars == <<strs, max, heap, nomem>>
dbVars == <<hash, used, writer, chunk>>
vars == <<client, pc, cursor, treeVars, quarkVars, dbVars>>

INSTANCE RumAvl WITH CharSigned <- signed

TypeOK ==
    /\ client \in {"tree", "dictionary"} /\ signed \in BOOLEAN /\ nomem \in BOOLEAN
    /\ pc \in {"open", "saving", "saved", "destroying", "gone", "crashed"}
    /\ Nodes(tree) \subseteq Keys /\ tree.root \in Keys \cup {Null}
    /\ present \subseteq Keys
    /\ DOMAIN numberOf \subseteq Strings
    /\ strs \in Seq(Strings) /\ Len(strs) <= max /\ heap \in 0..Len(strs)
    /\ cursor \in Nodes(tree) \cup {Null}
    /\ \A t \in Tables : Len(writer.ht[t].bucket) <= writer.ht[t].size
    /\ writer.bwd_num <= Len(writer.bwd)

Init ==
    /\ client \in {"tree", "dictionary"}
    /\ signed \in BOOLEAN /\ (client = "dictionary" => signed)
    /\ tree = Empty /\ present = {} /\ numberOf = [s \in {} |-> 0]
    /\ strs = << >> /\ max = 0 /\ heap = 0 /\ nomem = FALSE
    /\ pc = "open" /\ cursor = Null
    /\ hash = [s \in Strings |-> 0] /\ used = << >>
    /\ writer = NewWriter /\ chunk = Unreadable

-----------------------------------------------------------------------------
(* A user of the tree. A call that fails for lack of memory, finds the key   *)
(* there, or does not find it, leaves the tree as it is.                     *)

\* rumavl_set(), rumavl_insert()
Set(k) ==
    /\ client = "tree" /\ pc = "open"
    /\ k \notin Nodes(tree)
    /\ tree' = Insert(tree, k)
    /\ present' = present \cup {k}
    /\ UNCHANGED <<client, pc, cursor, signed, numberOf, quarkVars, dbVars>>

\* rumavl_delete()
Drop(k) ==
    /\ client = "tree" /\ pc = "open"
    /\ k \in Nodes(tree)
    /\ tree' = Delete(tree, k)
    /\ present' = present \ {k}
    /\ UNCHANGED <<client, pc, cursor, signed, numberOf, quarkVars, dbVars>>

-----------------------------------------------------------------------------
(* The dictionary. get() of a string that is found changes nothing.          *)

\* Mutant of Grown: the array grows when it has overflown.
GrownLate(m, num) == IF m < num THEN (m + 1) * 2 ELSE m

\* "if (qrk->max <= qrk->num)" the array grows
Grown(m, num) == IF m <= num THEN (m + 1) * 2 ELSE m

\* Mutant of Number: num has been counted up before.
NextNumber(num) == num + 1

\* key.qid = qrk->num, which is counted up afterwards
Number(num) == num

\* quark_get() of a new string. The result of rumavl_insert() is not looked
\* at: out of memory, the string has a number and is not in the tree.
Get(s, inserted) ==
    /\ client = "dictionary" /\ pc = "open"
    /\ Len(strs) < MaxIds
    /\ Find(tree, s) = Null
    /\ strs' = Append(strs, s)
    /\ max' = Grown(max, Len(strs))
    /\ heap' = heap + 1
    /\ nomem' = (nomem \/ ~inserted)
    /\ IF inserted
       THEN /\ tree' = Insert(tree, s)
            /\ present' = present \cup {s}
            /\ numberOf' = [x \in DOMAIN numberOf \cup {s} |->
                              IF x = s THEN Number(Len(strs)) ELSE numberOf[x]]
       ELSE UNCHANGED <<tree, present, numberOf>>
    /\ UNCHANGED <<client, pc, cursor, signed, dbVars>>

\* quark_get() when the string or the array cannot be allocated: a null pointer
\* is stored or written through. (A null that is the first of an empty tree is
\* compared only in the next call.)
GetCrashes(s) ==
    /\ client = "dictionary" /\ pc = "open"
    /\ Find(tree, s) = Null
    /\ pc' = "crashed"
    /\ UNCHANGED <<client, cursor, treeVars, quarkVars, dbVars>>

\* quark_to_id(), quark_to_string()
QuarkToId(s) == IF Find(tree, s) = Null THEN -1 ELSE numberOf[s]
QuarkToString(id) == IF id < Len(strs) THEN strs[id + 1] ELSE NoString

-----------------------------------------------------------------------------
(* crf1de_save_model() writes some of the strings, renumbered in their order *)

\* What is saved as number n
Saved(n) == QuarkToString(used[n + 1])

\* A set of numbers in their order
InOrder(ids) ==
    {q \in [1..Cardinality(ids) -> ids] : \A i, j \in DOMAIN q : i < j => q[i] < q[j]}

OpenWriter(ids) ==
    /\ client = "dictionary" /\ pc = "open"
    /\ pc' = "saving"
    /\ used' \in InOrder(ids)
    /\ hash' \in Hashes
    /\ writer' = NewWriter
    /\ UNCHANGED <<client, cursor, treeVars, quarkVars, chunk>>

\* The strings written so far
NumPut == Len(writer.cells)

\* cqdb_writer_put() of the next string. After an error nothing more is put.
PutNext(fails) ==
    /\ pc = "saving" /\ ~writer.error
    /\ NumPut < Len(used)
    /\ writer' = IF fails THEN WriterGivesUp(writer)
                 ELSE WriterPut(writer, Saved(NumPut), hash[Saved(NumPut)], NumPut)
    /\ UNCHANGED <<client, pc, cursor, treeVars, quarkVars, hash, used, chunk>>

\* cqdb_writer_close(), which writes the header last and only if nothing failed
CloseWriter(fails) ==
    /\ pc = "saving"
    /\ writer.error \/ NumPut = Len(used)
    /\ pc' = "saved"
    /\ chunk' = IF writer.error \/ fails THEN Unreadable ELSE WriterClose(writer)
    /\ UNCHANGED <<client, cursor, treeVars, quarkVars, hash, used, writer>>

-----------------------------------------------------------------------------
(* quark_delete() and rumavl_destroy(): the nodes are freed in key order, and *)
(* with each, by the delete callback, its string. That the dictionary was    *)
(* saved before makes no difference to it.                                   *)

Destroy ==
    /\ pc = "open"
    /\ pc' = IF tree.root = Null THEN "gone" ELSE "destroying"
    /\ cursor' = IF tree.root = Null THEN Null ELSE Furthest(tree, tree.root, 0)
    /\ UNCHANGED <<client, treeVars, quarkVars, dbVars>>

\* Mutant of Following: by the order of the nodes freed, read after the free.
FollowingFreed(t, n) == SeqChild(t, n, 1)

\* tmp = seq_next(node, RUMAVL_ASC), before node is freed
Following(t, n) == SeqNext(t, n, 1)

DestroyNode ==
    /\ pc = "destroying"
    /\ cursor' = Following(tree, cursor)
    /\ tree' = Without(tree, cursor)
    /\ heap' = IF client = "dictionary" THEN heap - 1 ELSE heap
    /\ pc' = IF cursor' = Null THEN "gone" ELSE "destroying"
    /\ UNCHANGED <<client, signed, present, numberOf, strs, max, nomem, dbVars>>

Next ==
    \/ \E k \in Keys : Set(k) \/ Drop(k)
    \/ \E s \in Strings : GetCrashes(s) \/ \E inserted \in BOOLEAN : Get(s, inserted)
    \/ \E ids \in SUBSET (0..(Len(strs) - 1)) : OpenWriter(ids)
    \/ \E fails \in BOOLEAN : PutNext(fails) \/ CloseWriter(fails)
    \/ Destroy \/ DestroyNode

Spec == Init /\ [][Next]_vars

-----------------------------------------------------------------------------
(* The tree *)

\* The height of the subtree on side ln of n
Height(t) ==
    LET height[n \in Nodes(t) \cup {Null}, d \in 0..Cardinality(Nodes(t))] ==
            LET below(ln) == IF t.node[n].thread[ln] = 0 THEN height[t.node[n].link[ln], d - 1] ELSE 0
            IN IF n = Null \/ d = 0 THEN 0 ELSE 1 + Max({below(0), below(1)})
    IN height

\* After every insertion and deletion, on machines with signed and with
\* unsigned characters, each balance factor is the difference of the heights
\* of the subtrees and is at most one; the loops that balance a node end.
Balanced ==
    pc # "destroying" /\ pc # "gone" =>
    LET size == Cardinality(Nodes(tree))
        height(n, ln) == IF tree.node[n].thread[ln] > 0 THEN 0
                         ELSE Height(tree)[tree.node[n].link[ln], size]
    IN /\ ~tree.spins
       /\ \A n \in Nodes(tree) :
              /\ tree.node[n].balance \in -1..1
              /\ tree.node[n].balance = height(n, 1) - height(n, 0)

\* The tree holds what was put in: find() finds exactly that, and the threads
\* lead through it in order, up and down.
Ordered ==
    pc # "destroying" /\ pc # "gone" =>
    /\ Nodes(tree) = present
    /\ \A k \in Keys : Find(tree, k) = (IF k \in present THEN k ELSE Null)
    /\ LET up == Sequence(tree, 1)
       IN /\ Len(up) = Cardinality(present) /\ Sequence(tree, 0) = Reverse(up)
          /\ \A i \in 1..(Len(up) - 1) : up[i] < up[i + 1]

\* rumavl_destroy(), which looks for the next node among those it frees, has
\* freed all when it ends, and with them every string unless memory was short.
AllFreed == pc = "gone" => Nodes(tree) = {} /\ (~nomem => heap = 0)

-----------------------------------------------------------------------------
(* The dictionary and its database *)

Gone == pc \in {"destroying", "gone"}

D == INSTANCE Dictionary WITH
       names <- IF Gone THEN << >> ELSE strs,
       numbers <- IF Gone THEN [s \in {} |-> 0]
                  ELSE [s \in {x \in DOMAIN numberOf : QuarkToId(x) # -1} |-> QuarkToId(s)]

\* Quark and tree implement the dictionary, also when memory is short, as long
\* as the process lives.
ImplementsDictionary == D!DictionarySpec

\* A database that was closed without an error answers as the dictionary does:
\* each string that was saved has its new number, others have none, and back;
\* its size is the number of strings. Strings may have equal hash values, and a
\* string that got two numbers (memory was short) has either of them.
LooksUp ==
    chunk # Unreadable =>
    LET db == Reader(chunk)
        ids(s) == {n \in 0..(Len(used) - 1) : Saved(n) = s}
    IN /\ db.num = Len(used)
       /\ \A s \in Strings :
             IdOf(db, s, hash[s]) \in (IF ids(s) = {} THEN {NotFound} ELSE ids(s))
       /\ \A n \in 0..MaxIds :
             StringOf(db, n) = (IF n < Len(used) THEN Saved(n) ELSE NoString)

=============================================================================
