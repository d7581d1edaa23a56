--------------------------- MODULE VocabularyProofs ---------------------------
(***************************************************************************)
(* The quark of a dictionary (quark.c) on a tree that holds what was put   *)
(* into it keeps the promises of Dictionary, for any set of strings, with  *)
(* memory short at any call, and through saving and destruction.           *)
(*                                                                         *)
(* That the tree does so (Ordered: find() finds just the records that were *)
(* inserted) is the hypothesis: it is what quark.c uses of rumavl.c, and   *)
(* the model checker's to confirm. Proved of the tree is what it computes  *)
(* of heights: rotations, and the rounds that balance a node.              *)
(*                                                                         *)
(* The database that is saved (cqdb.c) needs no such hypothesis: it finds  *)
(* every string again, for any number of tables and any hash function.     *)
(***************************************************************************)
EXTENDS Vocabulary, Foundations

\* Every record of the tree has a number. A user of the tree alone has none.
Records ==
    /\ numberOf \in [DOMAIN numberOf -> Nat]
    /\ DOMAIN numberOf \subseteq Strings
    /\ strs \in Seq(Strings)
    /\ client = "dictionary" /\ ~Gone => DOMAIN numberOf = present
    /\ client # "dictionary" => DOMAIN numberOf = {} /\ strs = << >>

\* What the dictionary remembers
NamesNow == IF Gone THEN << >> ELSE strs
NumbersNow ==
    IF Gone THEN [s \in {} |-> 0]
    ELSE [s \in {x \in DOMAIN numberOf : QuarkToId(x) # -1} |-> QuarkToId(s)]

LEMMA RecordsStart == Init => Records
  <1> SUFFICES ASSUME Init PROVE Records
    OBVIOUS
  <1>1. /\ numberOf = [s \in {} |-> 0] /\ strs = << >> /\ present = {}
        /\ DOMAIN numberOf = {}
    BY DEF Init
  <1> QED BY <1>1 DEF Records

LEMMA RecordsStep == Records /\ [Next]_vars => Records'
  <1> SUFFICES ASSUME Records, [Next]_vars PROVE Records'
    OBVIOUS
  <1>1. ASSUME NEW k \in Keys, Set(k) \/ Drop(k) PROVE Records'
    BY <1>1 DEF Set, Drop, Records, Gone, quarkVars
  <1>2. ASSUME NEW s \in Strings, GetCrashes(s) PROVE Records'
    BY <1>2 DEF GetCrashes, Records, Gone, treeVars, quarkVars
  <1>3. ASSUME NEW s \in Strings, NEW inserted \in BOOLEAN, Get(s, inserted) PROVE Records'
    <2>1. /\ client = "dictionary" /\ client' = client /\ pc = "open" /\ pc' = pc
          /\ strs' = Append(strs, s)
      BY <1>3 DEF Get
    <2>2. strs' \in Seq(Strings) /\ Len(strs) \in Nat
      BY <2>1 DEF Records
    <2>3. CASE inserted
      <3>1. /\ present' = present \cup {s}
            /\ numberOf' = [x \in DOMAIN numberOf \cup {s} |->
                              IF x = s THEN Len(strs) ELSE numberOf[x]]
        BY <1>3, <2>3 DEF Get, Number
      <3> QED BY <2>1, <2>2, <3>1 DEF Records, Gone
    <2>4. CASE ~inserted
      <3>1. present' = present /\ numberOf' = numberOf
        BY <1>3, <2>4 DEF Get
      <3> QED BY <2>1, <2>2, <3>1 DEF Records, Gone
    <2> QED BY <2>3, <2>4
  <1>4. ASSUME NEW ids, OpenWriter(ids) PROVE Records'
    BY <1>4 DEF OpenWriter, Records, Gone, treeVars, quarkVars
  <1>5. ASSUME NEW fails, PutNext(fails) \/ CloseWriter(fails) PROVE Records'
    BY <1>5 DEF PutNext, CloseWriter, Records, Gone, treeVars, quarkVars
  <1>6. CASE Destroy
    BY <1>6 DEF Destroy, Records, Gone, treeVars, quarkVars
  <1>7. CASE DestroyNode
    BY <1>7 DEF DestroyNode, Records, Gone
  <1>8. CASE UNCHANGED vars
    BY <1>8 DEF vars, treeVars, quarkVars, Records, Gone
  <1> QED BY <1>1, <1>2, <1>3, <1>4, <1>5, <1>6, <1>7, <1>8 DEF Next

\* A string that was inserted is found, and its number with it.
LEMMA NumbersAre ==
  ASSUME Records, Ordered
  PROVE  NumbersNow = IF Gone THEN [s \in {} |-> 0] ELSE numberOf
  <1> SUFFICES ASSUME ~Gone PROVE NumbersNow = numberOf
    BY DEF NumbersNow
  <1>1. CASE client # "dictionary"
    <2>1. DOMAIN numberOf = {}
      BY <1>1 DEF Records
    <2>2. numberOf = [s \in {} |-> 0] /\ NumbersNow = [s \in {} |-> QuarkToId(s)]
      BY <2>1 DEF Records, NumbersNow
    <2> QED BY <2>2
  <1>2. CASE client = "dictionary"
    <2>1. \A x \in DOMAIN numberOf : x \in present /\ x \in Keys /\ x # Null /\ numberOf[x] \in Nat
      BY <1>2, KeysAssumption DEF Records, KeysAssumption
    <2>2. \A k \in Keys : Find(tree, k) = (IF k \in present THEN k ELSE Null)
      BY DEF Ordered, Gone
    <2>3. \A x \in DOMAIN numberOf : QuarkToId(x) = numberOf[x] /\ numberOf[x] # -1
      BY <2>1, <2>2 DEF QuarkToId
    <2>4. numberOf = [s \in DOMAIN numberOf |-> numberOf[s]]
      BY DEF Records
    <2> QED BY <2>3, <2>4 DEF NumbersNow
  <1> QED BY <1>1, <1>2

-----------------------------------------------------------------------------
(* The refinement, step by step *)

\* What the dictionary remembers, read off the records
NumbersFact == NumbersNow = IF Gone THEN [s \in {} |-> 0] ELSE numberOf

LEMMA StartsEmpty == Init => D!DictionaryInit
  <1> SUFFICES ASSUME Init PROVE D!DictionaryInit
    OBVIOUS
  <1>1. strs = << >> /\ numberOf = [s \in {} |-> 0] /\ DOMAIN numberOf = {} /\ ~Gone
    BY DEF Init, Gone
  <1>2. NamesNow = << >> /\ NumbersNow = [s \in {} |-> 0]
    BY <1>1 DEF NamesNow, NumbersNow
  <1> QED BY <1>2 DEF D!DictionaryInit, NamesNow, NumbersNow

\* A step that leaves both views alone is none of the dictionary's.
LEMMA Stutters ==
  ASSUME NamesNow' = NamesNow, NumbersNow' = NumbersNow
  PROVE  UNCHANGED D!dictionaryVars
  BY DEF D!dictionaryVars, NamesNow, NumbersNow

\* Each step of the quark is a step of the dictionary, or none.
LEMMA StepRefines ==
  ASSUME Records, Ordered, NumbersFact, NumbersFact', [Next]_vars
  PROVE  [D!DictionaryNext]_D!dictionaryVars
  <1>0. ASSUME UNCHANGED <<strs, numberOf>>, Gone' <=> Gone
        PROVE  UNCHANGED D!dictionaryVars
    <2>1. NamesNow' = NamesNow
      BY <1>0 DEF NamesNow
    <2>2. NumbersNow' = NumbersNow
      BY <1>0 DEF NumbersFact
    <2> QED BY <2>1, <2>2, Stutters
  <1>1. ASSUME NEW k \in Keys, Set(k) \/ Drop(k) PROVE UNCHANGED D!dictionaryVars
    BY <1>0, <1>1 DEF Set, Drop, Gone, quarkVars
  <1>2. ASSUME NEW s \in Strings, GetCrashes(s) PROVE UNCHANGED D!dictionaryVars
    BY <1>0, <1>2 DEF GetCrashes, Gone, treeVars, quarkVars
  <1>3. ASSUME NEW s \in Strings, NEW inserted \in BOOLEAN, Get(s, inserted)
        PROVE  D!DictionaryNext
    <2>1. /\ client = "dictionary" /\ ~Gone /\ ~Gone'
          /\ strs' = Append(strs, s) /\ Find(tree, s) = Null
      BY <1>3 DEF Get, Gone
    <2>2. NamesNow = strs /\ NamesNow' = Append(NamesNow, s)
      BY <2>1 DEF NamesNow
    <2>3. NumbersNow = numberOf /\ NumbersNow' = numberOf'
      BY <2>1 DEF NumbersFact
    <2>4. s \in Keys /\ s # Null
      BY KeysAssumption DEF KeysAssumption
    <2>5. s \notin present
      BY <2>1, <2>4 DEF Ordered, Gone
    <2>6. s \notin DOMAIN NumbersNow
      BY <2>1, <2>3, <2>5 DEF Records
    <2>7. CASE inserted
      <3>1. NumbersNow' = [x \in DOMAIN NumbersNow \cup {s} |->
                             IF x = s THEN Len(NamesNow) ELSE NumbersNow[x]]
        BY <1>3, <2>2, <2>3, <2>7 DEF Get, Number
      <3>2. D!Issue(s)
        BY <2>2, <2>6, <3>1 DEF D!Issue, D!Num, NamesNow, NumbersNow
      <3> QED BY <3>2 DEF D!DictionaryNext
    <2>8. CASE ~inserted
      <3>1. NumbersNow' = NumbersNow
        BY <1>3, <2>3, <2>8 DEF Get
      <3>2. D!Forget(s)
        BY <2>2, <2>6, <3>1 DEF D!Forget, NamesNow, NumbersNow
      <3> QED BY <3>2 DEF D!DictionaryNext
    <2> QED BY <2>7, <2>8
  <1>4. ASSUME NEW ids, OpenWriter(ids) PROVE UNCHANGED D!dictionaryVars
    BY <1>0, <1>4 DEF OpenWriter, Gone, treeVars, quarkVars
  <1>5. ASSUME NEW fails, PutNext(fails) \/ CloseWriter(fails)
        PROVE  UNCHANGED D!dictionaryVars
    BY <1>0, <1>5 DEF PutNext, CloseWriter, Gone, treeVars, quarkVars
  <1>6. CASE Destroy
    <2>1. Gone'
      BY <1>6 DEF Destroy, Gone
    <2>2. NamesNow' = << >> /\ NumbersNow' = [s \in {} |-> 0]
      BY <2>1 DEF NamesNow, NumbersFact
    <2>3. D!Release
      BY <2>2 DEF D!Release, NamesNow, NumbersNow
    <2> QED BY <2>3 DEF D!DictionaryNext
  <1>7. CASE DestroyNode
    BY <1>0, <1>7 DEF DestroyNode, Gone
  <1>8. CASE UNCHANGED vars
    BY <1>0, <1>8 DEF vars, treeVars, quarkVars, Gone
  <1> QED BY <1>1, <1>2, <1>3, <1>4, <1>5, <1>6, <1>7, <1>8 DEF Next

-----------------------------------------------------------------------------

\* Every record of the dictionary's tree has a number, and only those have.
THEOREM RecordsInvariant == Spec => []Records
  BY RecordsStart, RecordsStep, PTL DEF Spec

\* As long as find() finds what was inserted and nothing else, the quark is a
\* dictionary: a string that is not known gets the next number, or, when the
\* record could not be inserted, a number that is forgotten; numbers stay what
\* they are; nothing is known once quark_delete() has begun.
THEOREM Implements == Spec /\ []Ordered => ImplementsDictionary
  <1>1. Records /\ Ordered => NumbersFact
    BY NumbersAre DEF NumbersFact
  <1>2. Records /\ Ordered /\ NumbersFact /\ NumbersFact' /\ [Next]_vars
          => [D!DictionaryNext]_D!dictionaryVars
    BY StepRefines
  <1> QED BY <1>1, <1>2, RecordsInvariant, StartsEmpty, PTL
          DEF Spec, ImplementsDictionary, D!DictionarySpec

-----------------------------------------------------------------------------
(* The arithmetic of rumavl.c, which keeps differences of heights only *)

\* The height of a node above two subtrees
Above(x, y) == 1 + (IF x > y THEN x ELSE y)

\* A node's factor where the subtree on side dir has height x, the other one y
Factor(dir, x, y) == dir * (x - y)

\* rotate() knows the two balance factors, not the heights. Whatever these are,
\* the factors it computes are those of the rotated nodes, and what it returns
\* is the change of the height. The child that moves up has the subtrees outer
\* and inner, the node that moves down has it and the subtree other.
THEOREM RotationIsRight ==
  ASSUME NEW dir \in {-1, 1}, NEW outer \in Nat, NEW inner \in Nat, NEW other \in Nat
  PROVE  LET a == Factor(dir, other, Above(outer, inner))
             b == Factor(dir, inner, outer)
         IN /\ RotatedBalances(a, b, dir).old = Factor(dir, other, inner)
            /\ RotatedBalances(a, b, dir).new = Factor(dir, Above(inner, other), outer)
            /\ RotateDiff(a, b, dir) =
                  Above(outer, Above(inner, other)) - Above(Above(outer, inner), other)
  <1>1. PICK a, b : /\ a = Factor(dir, other, Above(outer, inner))
                    /\ b = Factor(dir, inner, outer)
    OBVIOUS
  <1>2. CASE dir = 1
    <2>1. a \in Int /\ b \in Int /\ a = other - Above(outer, inner) /\ b = inner - outer
      BY <1>1, <1>2 DEF Factor, Above
    <2>2. /\ RotatedBalances(a, b, 1).old = other - inner
          /\ RotatedBalances(a, b, 1).new = Above(inner, other) - outer
          /\ RotateDiff(a, b, 1) =
                Above(outer, Above(inner, other)) - Above(Above(outer, inner), other)
      BY <2>1 DEF RotatedBalances, RotateDiff, Above
    <2>3. Factor(1, other, inner) = other - inner
      BY DEF Factor
    <2>4. Factor(1, Above(inner, other), outer) = Above(inner, other) - outer
      BY DEF Factor, Above
    <2> QED BY <1>1, <1>2, <2>2, <2>3, <2>4
  <1>3. CASE dir = -1
    <2>1. a \in Int /\ b \in Int /\ a = Above(outer, inner) - other /\ b = outer - inner
      BY <1>1, <1>3 DEF Factor, Above
    <2>2. /\ RotatedBalances(a, b, -1).old = inner - other
          /\ RotatedBalances(a, b, -1).new = outer - Above(inner, other)
          /\ RotateDiff(a, b, -1) =
                Above(outer, Above(inner, other)) - Above(Above(outer, inner), other)
      BY <2>1 DEF RotatedBalances, RotateDiff, Above
    <2>3. Factor(-1, other, inner) = inner - other
      BY DEF Factor
    <2>4. Factor(-1, Above(inner, other), outer) = outer - Above(inner, other)
      BY DEF Factor, Above
    <2> QED BY <1>1, <1>3, <2>2, <2>3, <2>4
  <1> QED BY <1>2, <1>3

\* stack_update() knows how much the height of the subtree on side dir has
\* changed and the factors before and after: it hands on how much the height of
\* the node has.
THEOREM HeightDiffIsRight ==
  ASSUME NEW dir \in {-1, 1}, NEW before \in Nat, NEW after \in Nat, NEW other \in Nat
  PROVE  LET ob == Factor(dir, before, other)
             diff == after - before
         IN /\ ob + diff * dir = Factor(dir, after, other)
            /\ HeightDiff(diff, dir, ob, ob + diff * dir) =
                  Above(after, other) - Above(before, other)
  <1>1. PICK ob, diff : ob = Factor(dir, before, other) /\ diff = after - before
    OBVIOUS
  <1>2. CASE dir = 1
    <2>1. /\ ob = before - other /\ ob + diff * 1 = after - other
          /\ Factor(1, after, other) = after - other
      BY <1>1, <1>2 DEF Factor
    <2>2. HeightDiff(diff, 1, ob, after - other) = Above(after, other) - Above(before, other)
      BY <1>1, <2>1 DEF HeightDiff, Above
    <2> QED BY <1>1, <1>2, <2>1, <2>2
  <1>3. CASE dir = -1
    <2>1. /\ ob = other - before /\ ob + diff * (-1) = other - after
          /\ Factor(-1, after, other) = other - after
      BY <1>1, <1>3 DEF Factor
    <2>2. HeightDiff(diff, -1, ob, other - after) = Above(after, other) - Above(before, other)
      BY <1>1, <2>1 DEF HeightDiff, Above
    <2> QED BY <1>1, <1>3, <2>1, <2>2
  <1> QED BY <1>2, <1>3

\* The factors of the nodes that balance() turns, and no change of the child's
\* height that the node above it would have to know of: a is the node's factor,
\* b that of the child on the other side of dir, g that of its inner child.
BalancesOut(a, b, g, dir) ==
    LET child == RotatedBalances(b, g, -dir)
        twice == RotatedBalances(a, child.new, dir)
        once == RotatedBalances(a, b, dir)
    IN IF InnerHeavy(b, dir)
       THEN /\ twice.old \in -1..1 /\ twice.new \in -1..1 /\ child.old \in -1..1
            /\ RotateDiff(b, g, -dir) = 0
       ELSE once.old \in -1..1 /\ once.new \in -1..1

\* One round of balance() is enough for a node that one insertion or deletion
\* has put out of balance, but where char is unsigned "balance == (char) dir"
\* is false for dir = -1: there the node's child needs a second round, in the
\* other direction, and no third one.
THEOREM RoundsOfBalance ==
  ASSUME NEW a \in {-2, 2}, NEW b \in -1..1, NEW g \in -1..1,
         NEW dir, dir = IF a > 1 THEN -1 ELSE 1
  PROVE  \/ BalancesOut(a, b, g, dir)
         \/ /\ a = 2 /\ b = -1 /\ ~signed
            /\ RotatedBalances(2, b, -1) = [old |-> 1, new |-> -2]
            /\ BalancesOut(-2, 1, g, 1)
  <1>1. ASSUME NEW x \in -1..1 PROVE BalancesOut(-2, x, g, 1)
    <2>1. CASE x = 1
      <3>1. InnerHeavy(1, 1)
        BY DEF InnerHeavy
      <3>2. PICK c, d : RotatedBalances(1, g, -1) = [old |-> c, new |-> d]
        BY DEF RotatedBalances
      <3>3. c \in -1..0 /\ d \in -2..-1 /\ RotateDiff(1, g, -1) = 0
        BY <3>2 DEF RotatedBalances, RotateDiff
      <3>4. RotatedBalances(-2, d, 1).old \in -1..1 /\ RotatedBalances(-2, d, 1).new \in -1..1
        BY <3>2, <3>3 DEF RotatedBalances
      <3> QED BY <2>1, <3>1, <3>2, <3>3, <3>4 DEF BalancesOut
    <2>2. CASE x # 1
      <3>1. ~InnerHeavy(x, 1)
        BY <2>2 DEF InnerHeavy
      <3>2. RotatedBalances(-2, x, 1).old \in -1..1 /\ RotatedBalances(-2, x, 1).new \in -1..1
        BY <2>2 DEF RotatedBalances
      <3> QED BY <3>1, <3>2 DEF BalancesOut
    <2> QED BY <2>1, <2>2
  <1>2. CASE a = -2
    BY <1>1, <1>2
  <1>3. CASE a = 2 /\ dir = -1 /\ b = -1 /\ ~signed
    <2>1. RotatedBalances(2, -1, -1) = [old |-> 1, new |-> -2]
      BY DEF RotatedBalances
    <2> QED BY <1>1, <1>3, <2>1
  <1>4. CASE a = 2 /\ dir = -1 /\ b = -1 /\ signed
    <2>1. InnerHeavy(-1, -1)
      BY <1>4 DEF InnerHeavy
    <2>2. PICK c, d : RotatedBalances(-1, g, 1) = [old |-> c, new |-> d]
      BY DEF RotatedBalances
    <2>3. c \in 0..1 /\ d \in 1..2 /\ RotateDiff(-1, g, 1) = 0
      BY <2>2 DEF RotatedBalances, RotateDiff
    <2>4. RotatedBalances(2, d, -1).old \in -1..1 /\ RotatedBalances(2, d, -1).new \in -1..1
      BY <2>3 DEF RotatedBalances
    <2>5. ASSUME NEW e \in Int, e + 1 = 0 PROVE BalancesOut(2, -1, g, e)
      <3>1. -e = 1
        BY <2>5
      <3>2. e = -1
        BY <2>5
      <3> QED BY <2>1, <2>2, <2>3, <2>4, <3>1, <3>2 DEF BalancesOut
    <2>6. BalancesOut(2, -1, g, -1)
      BY <2>5
    <2> QED BY <1>4, <2>6
  <1>5. CASE a = 2 /\ dir = -1 /\ b # -1
    <2>1. ~InnerHeavy(b, -1)
      BY <1>5 DEF InnerHeavy
    <2>2. RotatedBalances(2, b, -1).old \in -1..1 /\ RotatedBalances(2, b, -1).new \in -1..1
      BY <1>5 DEF RotatedBalances
    <2>3. BalancesOut(2, b, g, -1)
      BY <2>1, <2>2 DEF BalancesOut
    <2> QED BY <1>5, <2>3
  <1> QED BY <1>2, <1>3, <1>4, <1>5

-----------------------------------------------------------------------------
(* The writer of a constant quark database *)

LEMMA EnlargedIs ==
  ASSUME NEW size \in Nat, NEW n \in Nat
  PROVE  /\ Enlarged(size, n) \in Nat
         /\ Enlarged(size, n) > n
         /\ Enlarged(size, n) >= size
  <1> DEFINE Op(x) == IF x <= n THEN (x + 1) * 2 ELSE x
             step == [p \in (1..(n + 1)) \X Nat |-> Op(p[2])]
             Body(f) == [k \in 0..(n + 1) |-> IF k = 0 THEN size ELSE Op(f[k - 1])]
             g == CHOOSE f : f = Body(f)
  <1>1. step \in Steps(n + 1, Nat) /\ \A k \in 1..(n + 1), x \in Nat : step[<<k, x>>] = Op(x)
    BY DEF Steps
  <1>2. PICK f : Follows(f, n + 1, Nat, size, step)
    <2>1. n + 1 \in Nat
      OBVIOUS
    <2> HIDE DEF step
    <2> QED BY <1>1, <2>1, Recursion
  <1>3. f = Body(f)
    <2>1. /\ f \in [0..(n + 1) -> Nat] /\ f[0] = size
          /\ \A k \in 1..(n + 1) : f[k] = step[<<k, f[k - 1]>>]
      BY <1>2 DEF Follows
    <2>2. ASSUME NEW k \in 1..(n + 1) PROVE f[k] = Op(f[k - 1])
      <3>1. k - 1 \in 0..(n + 1) /\ f[k - 1] \in Nat
        BY <2>1
      <3> QED BY <1>1, <2>1, <3>1
    <2> QED BY <2>1, <2>2
  <1>4. g = Body(g)
    <2> HIDE DEF Body
    <2> QED BY <1>3
  <1>5. Enlarged(size, n) = g[n + 1]
    BY DEF Enlarged
  <1> HIDE DEF g
  <1>6. g[0] = size /\ \A k \in 1..(n + 1) : g[k] = Op(g[k - 1])
    <2>1. \A k \in 0..(n + 1) : g[k] = IF k = 0 THEN size ELSE Op(g[k - 1])
      BY <1>4
    <2> HIDE DEF Op
    <2> QED BY <2>1
  <1> DEFINE P == {k \in Nat : k <= n + 1 =>
                     g[k] \in Nat /\ g[k] >= size /\ (g[k] > n \/ g[k] >= k)}
  <1>7. 0 \in P
    BY <1>6
  <1>8. ASSUME NEW k \in Nat, k \in P PROVE k + 1 \in P
    <2> SUFFICES ASSUME k + 1 <= n + 1
                 PROVE  /\ g[k + 1] \in Nat /\ g[k + 1] >= size
                        /\ g[k + 1] > n \/ g[k + 1] >= k + 1
      OBVIOUS
    <2>1. g[k + 1] = Op(g[k])
      <3>1. k + 1 \in 1..(n + 1) /\ (k + 1) - 1 = k
        OBVIOUS
      <3> QED BY <1>6, <3>1
    <2>2. g[k] \in Nat /\ g[k] >= size /\ (g[k] > n \/ g[k] >= k)
      BY <1>8
    <2> QED BY <2>1, <2>2
  <1>9. Nat \subseteq P
    <2> HIDE DEF P
    <2> QED BY <1>7, <1>8, Induction
  <1> QED BY <1>5, <1>9

StringCells == [id : Nat, key : Strings]
Entries == [hash : Nat, offset : Nat \ {0}]
Writers == [cells : Seq(StringCells), ht : [Tables -> [size : Nat, bucket : Seq(Entries)]],
            bwd : Seq(Nat), bwd_num : Nat, error : BOOLEAN]

\* An entry of table t that is for one of the first m strings of s
Points(e, t, s, h, m) ==
    e.offset \in 1..m /\ e.hash = h[s[e.offset]] /\ e.hash % NumTables = t

\* w was given the first m strings of s, and nothing failed.
Holds(w, s, h, m) ==
    /\ w \in Writers
    /\ Len(w.cells) = m /\ \A i \in 1..m : w.cells[i] = [id |-> i - 1, key |-> s[i]]
    /\ \A t \in Tables : \A j \in 1..Len(w.ht[t].bucket) : Points(w.ht[t].bucket[j], t, s, h, m)
    /\ \A i \in 1..m : \E j \in 1..Len(w.ht[h[s[i]] % NumTables].bucket) :
         w.ht[h[s[i]] % NumTables].bucket[j].offset = i
    /\ SumOver([t \in Tables |-> Len(w.ht[t].bucket)], Tables) = m
    /\ m <= Len(w.bwd) /\ w.bwd_num = m /\ \A i \in 1..m : w.bwd[i] = i

LEMMA TablesFinite == IsFiniteSet(Tables)
  BY FS_Interval, BoundAssumption DEF Tables, BoundAssumption

LEMMA HoldsNone ==
  ASSUME NEW s, NEW h
  PROVE  Holds(NewWriter, s, h, 0)
  <1>1. NewWriter \in Writers
    BY DEF NewWriter, Writers, EmptyTable
  <1>2. \A t \in Tables : NewWriter.ht[t].bucket = << >>
    BY DEF NewWriter, EmptyTable
  <1>3. SumOver([t \in Tables |-> Len(NewWriter.ht[t].bucket)], Tables) = 0
    <2>1. PICK z : z = [t \in Tables |-> Len(NewWriter.ht[t].bucket)]
      OBVIOUS
    <2>2. \A t \in Tables : z[t] = 0
      BY <1>2, <2>1
    <2> QED BY <2>1, <2>2, TablesFinite, SumOfZeros
  <1>4. NewWriter.cells = << >> /\ NewWriter.bwd = << >> /\ NewWriter.bwd_num = 0
    BY DEF NewWriter
  <1> QED BY <1>1, <1>2, <1>3, <1>4 DEF Holds

LEMMA HoldsMore ==
  ASSUME NEW s \in Seq(Strings), NEW h \in [Strings -> Nat], NEW m \in Nat, m < Len(s),
         NEW w, Holds(w, s, h, m)
  PROVE  Holds(WriterPut(w, s[m + 1], h[s[m + 1]], m), s, h, m + 1)
  <1> DEFINE key == s[m + 1]
             hv == h[key]
             u == hv % NumTables
             e == [hash |-> hv, offset |-> Cur(w)]
             size == Enlarged(Len(w.bwd), m)
             bwd == [k \in 1..size |-> IF k <= Len(w.bwd) THEN w.bwd[k] ELSE 0]
             v == WriterPut(w, key, hv, m)
  <1>1. key \in Strings /\ hv \in Nat /\ NumTables \in Nat \ {0}
    BY BoundAssumption DEF BoundAssumption
  <1>2. u \in Tables
    BY <1>1, Division DEF Tables
  <1>3. w \in Writers /\ Len(w.cells) = m
    BY DEF Holds
  <1>4. Cur(w) = m + 1 /\ e \in Entries
    BY <1>1, <1>3 DEF Cur, FirstOffset, Entries
  <1>5. /\ Len(w.bwd) \in Nat /\ w.bwd \in Seq(Nat) /\ w.cells \in Seq(StringCells)
        /\ w.ht \in [Tables -> [size : Nat, bucket : Seq(Entries)]] /\ w.error \in BOOLEAN
    BY <1>3 DEF Writers
  <1>6. size \in Nat /\ size > m /\ size >= Len(w.bwd)
    BY <1>5, EnlargedIs
  <1>7. bwd \in Seq(Nat) /\ Len(bwd) = size
    <2> HIDE DEF size
    <2>1. \A k \in 1..size : (IF k <= Len(w.bwd) THEN w.bwd[k] ELSE 0) \in Nat
      BY <1>5, <1>6
    <2> QED BY <1>6, <2>1
  <1>8. /\ v.cells = Append(w.cells, [id |-> m, key |-> key])
        /\ v.ht = [w.ht EXCEPT ![u] =
                     [size |-> Enlarged(w.ht[u].size, Len(w.ht[u].bucket)),
                      bucket |-> Append(w.ht[u].bucket, e)]]
        /\ v.bwd = [bwd EXCEPT ![m + 1] = Cur(w)]
        /\ v.bwd_num = (IF w.bwd_num <= m THEN m + 1 ELSE w.bwd_num)
        /\ v.error = w.error
        /\ v = [cells |-> v.cells, ht |-> v.ht, bwd |-> v.bwd, bwd_num |-> v.bwd_num,
                error |-> v.error]
    <2> DEFINE tables == [w.ht EXCEPT ![u] =
                     [size |-> Enlarged(w.ht[u].size, Len(w.ht[u].bucket)),
                      bucket |-> Append(w.ht[u].bucket, e)]]
               back == [bwd EXCEPT ![m + 1] = Cur(w)]
               more == IF w.bwd_num <= m THEN m + 1 ELSE w.bwd_num
               record == Append(w.cells, [id |-> m, key |-> key])
    <2>1. v = [w EXCEPT !.cells = record, !.ht = tables, !.bwd = back, !.bwd_num = more]
      <3> QED BY <1>3 DEF WriterPut, Writers
    <2>2. w = [cells |-> w.cells, ht |-> w.ht, bwd |-> w.bwd, bwd_num |-> w.bwd_num,
               error |-> w.error]
      BY <1>3 DEF Writers
    <2> HIDE DEF tables, back, more, record, v
    <2>3. v = [cells |-> record, ht |-> tables, bwd |-> back, bwd_num |-> more, error |-> w.error]
      BY <2>1, <2>2
    <2>4. v.cells = record /\ v.ht = tables /\ v.bwd = back /\ v.bwd_num = more /\ v.error = w.error
      BY <2>3
    <2> QED BY <2>3, <2>4 DEF tables, back, more, record
  <1> HIDE DEF key, hv, u, e, size, bwd, v
  <1>9. /\ v.cells \in Seq(StringCells) /\ Len(v.cells) = m + 1
        /\ \A i \in 1..(m + 1) : v.cells[i] = [id |-> i - 1, key |-> s[i]]
    <2>1. PICK r \in StringCells : r = [id |-> m, key |-> key]
      BY <1>1 DEF StringCells
    <2>2. v.cells = Append(w.cells, r)
      BY <1>8, <2>1
    <2>3. \A i \in 1..m : w.cells[i] = [id |-> i - 1, key |-> s[i]]
      BY DEF Holds
    <2>4. \A i \in 1..m : v.cells[i] = w.cells[i]
      BY <1>3, <1>5, <2>2
    <2>5. v.cells[m + 1] = r /\ Len(v.cells) = m + 1 /\ v.cells \in Seq(StringCells)
      BY <1>3, <1>5, <2>2
    <2>6. r = [id |-> (m + 1) - 1, key |-> s[m + 1]]
      BY <2>1 DEF key
    <2>7. ASSUME NEW i \in 1..(m + 1) PROVE v.cells[i] = [id |-> i - 1, key |-> s[i]]
      <3>1. CASE i = m + 1
        BY <2>5, <2>6, <3>1
      <3>2. CASE i # m + 1
        BY <2>3, <2>4, <2>7, <3>2
      <3> QED BY <3>1, <3>2
    <2> QED BY <2>5, <2>7
  <1>10. /\ v.bwd \in Seq(Nat) /\ m + 1 <= Len(v.bwd)
         /\ \A i \in 1..(m + 1) : v.bwd[i] = i
    <2>1. m + 1 \in 1..size /\ DOMAIN bwd = 1..size
      BY <1>6, <1>7
    <2>2. v.bwd \in Seq(Nat) /\ Len(v.bwd) = size
      <3>1. PICK x \in Nat : x = Cur(w)
        BY <1>4
      <3> QED BY <1>6, <1>7, <1>8, <2>1, <3>1
    <2>3. v.bwd[m + 1] = m + 1
      BY <1>4, <1>8, <2>1
    <2>4. ASSUME NEW i \in 1..m PROVE v.bwd[i] = i
      <3>1. i <= Len(w.bwd) /\ w.bwd[i] = i
        BY <1>5 DEF Holds
      <3>2. i \in 1..size /\ i # m + 1
        BY <1>6
      <3>3. v.bwd[i] = bwd[i]
        BY <1>8, <2>1, <3>2
      <3> QED BY <3>1, <3>2, <3>3 DEF bwd
    <2> QED BY <1>6, <2>2, <2>3, <2>4
  <1>11. v.bwd_num = m + 1
    BY <1>8 DEF Holds
  <1>12. /\ v.ht \in [Tables -> [size : Nat, bucket : Seq(Entries)]]
         /\ v.ht[u].bucket = Append(w.ht[u].bucket, e)
         /\ \A t \in Tables : t # u => v.ht[t] = w.ht[t]
    <2>1. w.ht[u].size \in Nat /\ w.ht[u].bucket \in Seq(Entries)
      BY <1>2, <1>5
    <2>2. Enlarged(w.ht[u].size, Len(w.ht[u].bucket)) \in Nat
      <3>1. PICK n \in Nat : n = Len(w.ht[u].bucket)
        BY <2>1
      <3> QED BY <2>1, <3>1, EnlargedIs
    <2>3. Append(w.ht[u].bucket, e) \in Seq(Entries)
      BY <1>4, <2>1
    <2>4. PICK n, q : /\ n = Enlarged(w.ht[u].size, Len(w.ht[u].bucket))
                      /\ q = Append(w.ht[u].bucket, e)
      OBVIOUS
    <2>5. PICK x : x = [size |-> n, bucket |-> q]
      OBVIOUS
    <2>6. x \in [size : Nat, bucket : Seq(Entries)] /\ x.bucket = q
      BY <2>2, <2>3, <2>4, <2>5
    <2>7. v.ht = [w.ht EXCEPT ![u] = x]
      BY <1>8, <2>4, <2>5
    <2> QED BY <1>2, <1>5, <2>4, <2>6, <2>7
  <1>13. v \in Writers
    <2>1. v.bwd_num \in Nat /\ v.error \in BOOLEAN
      BY <1>5, <1>8, <1>11
    <2> QED BY <1>8, <1>9, <1>10, <1>12, <2>1 DEF Writers
  <1>14. PICK b \in Seq(Entries), c \in Seq(Entries), l \in Nat :
           /\ b = w.ht[u].bucket /\ c = v.ht[u].bucket /\ l = Len(b) /\ Len(c) = l + 1
           /\ c[l + 1] = e /\ \A j \in 1..l : c[j] = b[j]
    <2>1. PICK b \in Seq(Entries) : b = w.ht[u].bucket
      BY <1>2, <1>5
    <2>2. PICK x \in Entries : x = e
      BY <1>4
    <2>3. PICK c \in Seq(Entries) : c = Append(b, x)
      <3>1. \A p \in Seq(Entries), y \in Entries : Append(p, y) \in Seq(Entries)
        OBVIOUS
      <3> QED BY <2>1, <2>2, <3>1
    <2>4. /\ Len(c) = Len(b) + 1 /\ c[Len(b) + 1] = x
          /\ \A j \in 1..Len(b) : c[j] = b[j]
      BY <2>1, <2>2, <2>3
    <2>5. c = v.ht[u].bucket
      BY <1>12, <2>1, <2>2, <2>3
    <2>6. Len(b) \in Nat
      BY <2>1
    <2> QED BY <2>1, <2>2, <2>3, <2>4, <2>5, <2>6
  <1>15. ASSUME NEW t \in Tables, NEW j \in 1..Len(v.ht[t].bucket)
         PROVE  Points(v.ht[t].bucket[j], t, s, h, m + 1)
    <2>1. \A x : Points(x, t, s, h, m) => Points(x, t, s, h, m + 1)
      BY DEF Points
    <2>2. \A i \in 1..Len(w.ht[t].bucket) : Points(w.ht[t].bucket[i], t, s, h, m)
      BY DEF Holds
    <2>3. CASE t # u
      BY <1>12, <1>15, <2>1, <2>2, <2>3
    <2>4. CASE t = u /\ j # l + 1
      <3>1. j \in 1..l /\ v.ht[t].bucket[j] = b[j]
        <4>1. v.ht[t].bucket = c /\ Len(c) = l + 1
          BY <1>14, <2>4
        <4>2. j \in 1..(l + 1)
          BY <1>15, <4>1
        <4>3. \A i \in 1..(l + 1) : i # l + 1 => i \in 1..l
          OBVIOUS
        <4>4. j \in 1..l
          BY <2>4, <4>2, <4>3
        <4> QED BY <1>14, <4>1, <4>4
      <3>2. Points(b[j], t, s, h, m)
        BY <1>14, <2>2, <2>4, <3>1
      <3> QED BY <2>1, <3>1, <3>2
    <2>5. CASE t = u /\ j = l + 1
      <3>1. Points(e, u, s, h, m + 1)
        <4>1. e.offset = m + 1 /\ e.hash = hv
          BY <1>4 DEF e
        <4> QED BY <4>1 DEF Points, u, hv, key
      <3> QED BY <1>14, <2>5, <3>1
    <2> QED BY <2>3, <2>4, <2>5
  <1>16. ASSUME NEW i \in 1..(m + 1)
         PROVE  \E j \in 1..Len(v.ht[h[s[i]] % NumTables].bucket) :
                  v.ht[h[s[i]] % NumTables].bucket[j].offset = i
    <2>1. CASE i = m + 1
      <3>1. h[s[i]] % NumTables = u
        BY <2>1 DEF u, hv, key
      <3>2. e.offset = m + 1
        BY <1>4 DEF e
      <3>3. l + 1 \in 1..Len(v.ht[u].bucket) /\ v.ht[u].bucket[l + 1].offset = i
        BY <1>14, <2>1, <3>2
      <3> QED BY <3>1, <3>3
    <2>2. CASE i # m + 1
      <3>1. PICK t : t = h[s[i]] % NumTables
        OBVIOUS
      <3>2. t \in Tables
        <4>1. s[i] \in Strings /\ h[s[i]] \in Nat
          <5>1. i \in 1..Len(s)
            OBVIOUS
          <5> QED BY <5>1
        <4> QED BY <1>1, <3>1, <4>1, Division DEF Tables
      <3>3. PICK j \in 1..Len(w.ht[t].bucket) : w.ht[t].bucket[j].offset = i
        <4>1. i \in 1..m
          BY <1>16, <2>2
        <4> QED BY <3>1, <4>1 DEF Holds
      <3>4. CASE t # u
        BY <1>12, <3>1, <3>2, <3>3, <3>4
      <3>5. CASE t = u
        <4>1. j \in 1..l /\ b[j].offset = i
          BY <1>14, <3>3, <3>5
        <4>2. j \in 1..Len(v.ht[u].bucket) /\ v.ht[u].bucket[j].offset = i
          <5>1. j \in 1..(l + 1) /\ c[j] = b[j]
            BY <1>14, <4>1
          <5> QED BY <1>14, <4>1, <5>1
        <4> QED BY <3>1, <3>5, <4>2
      <3> QED BY <3>4, <3>5
    <2> QED BY <2>1, <2>2
  <1>17. SumOver([t \in Tables |-> Len(v.ht[t].bucket)], Tables) = m + 1
    <2>1. PICK a, z : /\ a = [t \in Tables |-> Len(w.ht[t].bucket)]
                      /\ z = [t \in Tables |-> Len(v.ht[t].bucket)]
      OBVIOUS
    <2>2. \A t \in Tables : a[t] \in Int /\ z[t] \in Int
      BY <1>5, <1>12, <2>1
    <2>3. z[u] = a[u] + 1 /\ a[u] \in Int /\ \A t \in Tables \ {u} : z[t] = a[t]
      <3>1. a[u] = l /\ z[u] = l + 1
        BY <1>2, <1>14, <2>1
      <3>2. \A t \in Tables \ {u} : z[t] = a[t]
        BY <1>12, <2>1
      <3> QED BY <1>14, <3>1, <3>2
    <2>4. /\ SumOver(a, Tables) = SumOver(a, Tables \ {u}) + a[u]
          /\ SumOver(z, Tables) = SumOver(z, Tables \ {u}) + z[u]
      BY <1>2, <2>2, TablesFinite, SumRemove
    <2>5. SumOver(z, Tables \ {u}) = SumOver(a, Tables \ {u})
      <3>1. PICK S : S = Tables \ {u}
        OBVIOUS
      <3>2. SumOver(z, S) = SumOver(a, S)
        BY <2>3, <3>1, SumSame
      <3> QED BY <3>1, <3>2
    <2>6. SumOver(a, Tables \ {u}) \in Int
      <3>1. PICK S : S = Tables \ {u}
        OBVIOUS
      <3>2. IsFiniteSet(S) /\ \A c1 \in S : a[c1] \in Int
        BY <2>2, <3>1, TablesFinite, FS_Subset
      <3> QED BY <3>1, <3>2, SumRemove
    <2>7. SumOver(a, Tables) = m
      BY <2>1 DEF Holds
    <2>8. SumOver(z, Tables) = m + 1
      BY <2>3, <2>4, <2>5, <2>6, <2>7
    <2> QED BY <2>1, <2>8
  <1>18. Holds(v, s, h, m + 1)
    BY <1>9, <1>10, <1>11, <1>13, <1>15, <1>16, <1>17 DEF Holds
  <1> QED BY <1>18 DEF v, key, hv

-----------------------------------------------------------------------------
(* A table *)

\* The slot at distance d of a search that begins at start
Slot(start, d, n) == (start + d) % n

LEMMA SlotIn ==
  ASSUME NEW n \in Nat \ {0}, NEW a \in Nat, NEW d \in Nat
  PROVE  Slot(a, d, n) \in 0..(n - 1)
  <1>1. PICK x \in Nat : x = a + d
    OBVIOUS
  <1> QED BY <1>1, Division DEF Slot

LEMMA SmallRemainder ==
  ASSUME NEW n \in Nat \ {0}, NEW a \in 0..(n - 1)
  PROVE  a % n = a
  <1>1. a \div n \in Int /\ a % n \in 0..(n - 1) /\ a = n * (a \div n) + (a % n)
    BY Division
  <1>2. PICK q \in Int, x \in 0..(n - 1) : q = a \div n /\ x = a % n /\ a = n * q + x
    BY <1>1
  <1>3. n * q + x = n * 0 + a
    BY <1>2
  <1>4. x = a
    BY <1>3, RemainderUnique
  <1> QED BY <1>2, <1>4

\* A search comes to every slot.
LEMMA EverySlot ==
  ASSUME NEW n \in Nat \ {0}, NEW a \in 0..(n - 1), NEW k \in 0..(n - 1)
  PROVE  \E d \in 0..(n - 1) : Slot(a, d, n) = k
  <1>1. k % n = k
    BY SmallRemainder
  <1>2. CASE a <= k
    <2>1. k - a \in 0..(n - 1) /\ a + (k - a) = k
      BY <1>2
    <2> QED BY <1>1, <2>1 DEF Slot
  <1>3. CASE k < a
    <2>1. (k - a) + n \in 0..(n - 1) /\ a + ((k - a) + n) = k + n
      BY <1>3
    <2>2. (k + n) % n = k % n
      <3>1. k \in Nat
        OBVIOUS
      <3> QED BY <3>1, SlotRepeats
    <2> QED BY <1>1, <2>1, <2>2 DEF Slot
  <1> QED BY <1>2, <1>3

LEMMA StartIn ==
  ASSUME NEW n \in Nat \ {0}, NEW hv \in Nat
  PROVE  Start(hv, n) \in 0..(n - 1)
  <1>1. NumTables \in Nat \ {0}
    BY BoundAssumption DEF BoundAssumption
  <1>2. PICK q \in Int, x \in Int : q = hv \div NumTables /\ x \in 0..(NumTables - 1) /\ hv = NumTables * q + x
    <2>1. hv \div NumTables \in Int /\ hv % NumTables \in 0..(NumTables - 1)
          /\ hv = NumTables * (hv \div NumTables) + (hv % NumTables)
      BY <1>1, Division
    <2> QED BY <2>1
  <1>3. q \in Nat
    <2> SUFFICES ASSUME q <= -1 PROVE FALSE
      BY <1>2
    <2>1. NumTables * q <= -NumTables
      BY <1>1, <1>2
    <2>2. hv < 0
      BY <1>1, <1>2, <2>1
    <2> QED BY <2>2
  <1> QED BY <1>2, <1>3, Division DEF Start

\* The entry e was put where its search finds it: the slots before are taken.
Found(dst, e, n) ==
    \E d \in 0..(n - 1) :
        /\ dst[Slot(Start(e.hash, n), d, n)] = e
        /\ \A c \in 0..(d - 1) : dst[Slot(Start(e.hash, n), c, n)].offset # 0

Taken(dst, n) == {k \in 0..(n - 1) : dst[k].offset # 0}

\* The table after the first j entries of a bucket
Filling(dst, b, j, n) ==
    /\ dst \in [0..(n - 1) -> Entries \cup {Vacant}]
    /\ \A k \in 0..(n - 1) : dst[k].offset # 0 => \E i \in 1..j : dst[k] = b[i]
    /\ \A i \in 1..j : Found(dst, b[i], n)
    /\ Cardinality(Taken(dst, n)) <= j

\* As long as there are fewer entries than slots, one is free.
LEMMA OneIsFree ==
  ASSUME NEW n \in Nat, NEW j \in Nat, j < n, NEW b, NEW dst, Filling(dst, b, j, n)
  PROVE  \E k \in 0..(n - 1) : dst[k].offset = 0
  <1> SUFFICES ASSUME \A k \in 0..(n - 1) : dst[k].offset # 0 PROVE FALSE
    OBVIOUS
  <1>1. Taken(dst, n) = 0..(n - 1)
    BY DEF Taken
  <1>2. Cardinality(0..(n - 1)) = n
    <2>1. 0 \in Int /\ n - 1 \in Int
      OBVIOUS
    <2>2. Cardinality(0..(n - 1)) = IF 0 > n - 1 THEN 0 ELSE (n - 1) - 0 + 1
      BY <2>1, FS_Interval
    <2> QED BY <2>2
  <1> QED BY <1>1, <1>2 DEF Filling

LEMMA PlaceFills ==
  ASSUME NEW n \in Nat, NEW j \in Nat, j < n, NEW b \in Seq(Entries), j < Len(b),
         NEW dst, Filling(dst, b, j, n)
  PROVE  Filling(Place(dst, b[j + 1], n), b, j + 1, n)
  <1> DEFINE e == b[j + 1]
             start == Start(e.hash, n)
             free == Free(dst, start, n)
             d == Min(free)
             x == Slot(start, d, n)
             new == Place(dst, e, n)
  <1>1. n \in Nat \ {0} /\ e \in Entries /\ e.hash \in Nat /\ e.offset # 0
    <2>1. j + 1 \in 1..Len(b) /\ n > 0
      OBVIOUS
    <2>2. e \in Entries
      BY <2>1
    <2> HIDE DEF e
    <2> QED BY <2>1, <2>2 DEF Entries
  <1>2. start \in 0..(n - 1)
    BY <1>1, StartIn
  <1>3. PICK k \in 0..(n - 1) : dst[k].offset = 0
    BY OneIsFree
  <1>4. free = {c \in 0..(n - 1) : dst[Slot(start, c, n)].offset = 0}
    BY DEF Free, Slot
  <1> HIDE DEF free, start, e
  <1>5. free # {}
    <2>1. PICK c \in 0..(n - 1) : Slot(start, c, n) = k
      BY <1>1, <1>2, EverySlot
    <2> QED BY <1>3, <1>4, <2>1
  <1>6. d \in free /\ \A c \in free : d <= c
    <2>1. free \subseteq Nat
      BY <1>4
    <2> QED BY <1>5, <2>1, MinIs
  <1>7. d \in 0..(n - 1) /\ dst[x].offset = 0 /\ \A c \in 0..(d - 1) : dst[Slot(start, c, n)].offset # 0
    <2> HIDE DEF d
    <2>1. d \in 0..(n - 1) /\ dst[Slot(start, d, n)].offset = 0
      BY <1>4, <1>6
    <2>2. ASSUME NEW c \in 0..(d - 1) PROVE dst[Slot(start, c, n)].offset # 0
      <3>1. c \in 0..(n - 1) /\ ~ (d <= c)
        BY <2>1
      <3> QED BY <1>4, <1>6, <3>1
    <2> QED BY <2>1, <2>2 DEF x
  <1> HIDE DEF d
  <1>8. x \in 0..(n - 1)
    <2>1. start \in Nat /\ d \in Nat
      BY <1>2, <1>7
    <2> QED BY <1>1, <2>1, SlotIn DEF x
  <1>9. new = [dst EXCEPT ![x] = e]
    BY DEF Place, Slot, x, d, free, start
  <1> HIDE DEF x, new
  <1>10. dst \in [0..(n - 1) -> Entries \cup {Vacant}]
    BY DEF Filling
  <1>11. /\ new \in [0..(n - 1) -> Entries \cup {Vacant}]
         /\ new[x] = e
         /\ \A c \in 0..(n - 1) : c # x => new[c] = dst[c]
    BY <1>1, <1>8, <1>9, <1>10
  <1>12. ASSUME NEW c \in 0..(n - 1), new[c].offset # 0 PROVE \E i \in 1..(j + 1) : new[c] = b[i]
    <2>1. CASE c = x
      <3>1. j + 1 \in 1..(j + 1)
        OBVIOUS
      <3> QED BY <1>11, <2>1, <3>1 DEF e
    <2>2. CASE c # x
      <3>1. new[c] = dst[c]
        BY <1>11, <1>12, <2>2
      <3>2. PICK i \in 1..j : dst[c] = b[i]
        BY <1>12, <3>1 DEF Filling
      <3>3. i \in 1..(j + 1)
        OBVIOUS
      <3> QED BY <3>1, <3>2, <3>3
    <2> QED BY <2>1, <2>2
  <1>13. \A c \in 0..(n - 1) : dst[c].offset # 0 => c # x /\ new[c] = dst[c]
    BY <1>7, <1>11
  <1>14. ASSUME NEW i \in 1..j PROVE Found(new, b[i], n)
    <2>1. PICK s : s = Start(b[i].hash, n)
      OBVIOUS
    <2>2. PICK f \in 0..(n - 1) : /\ dst[Slot(s, f, n)] = b[i]
                                  /\ \A c \in 0..(f - 1) : dst[Slot(s, c, n)].offset # 0
      <3>1. Found(dst, b[i], n)
        BY <1>14 DEF Filling
      <3> QED BY <2>1, <3>1 DEF Found
    <2>3. b[i] \in Entries
      <3>1. i \in 1..Len(b)
        OBVIOUS
      <3> QED BY <3>1
    <2>4. b[i].hash \in Nat /\ b[i].offset # 0
      BY <2>3 DEF Entries
    <2>5. s \in 0..(n - 1)
      BY <1>1, <2>1, <2>4, StartIn
    <2>6. \A c \in 0..(n - 1) : Slot(s, c, n) \in 0..(n - 1)
      <3>1. ASSUME NEW c \in 0..(n - 1) PROVE Slot(s, c, n) \in 0..(n - 1)
        <4>1. s \in Nat /\ c \in Nat
          BY <2>5, <3>1
        <4> QED BY <1>1, <4>1, SlotIn
      <3> QED BY <3>1
    <2>7. new[Slot(s, f, n)] = b[i]
      BY <1>13, <2>2, <2>4, <2>6
    <2>8. ASSUME NEW c \in 0..(f - 1) PROVE new[Slot(s, c, n)].offset # 0
      <3>1. c \in 0..(n - 1)
        BY <2>2
      <3> QED BY <1>13, <2>2, <2>6, <3>1
    <2> QED BY <2>1, <2>2, <2>7, <2>8 DEF Found
  <1>15. Found(new, e, n)
    <2>1. \A c \in 0..(n - 1) : Slot(start, c, n) \in 0..(n - 1)
      <3>1. ASSUME NEW c \in 0..(n - 1) PROVE Slot(start, c, n) \in 0..(n - 1)
        <4>1. start \in Nat /\ c \in Nat
          BY <1>2, <3>1
        <4> QED BY <1>1, <4>1, SlotIn
      <3> QED BY <3>1
    <2>2. new[Slot(start, d, n)] = e
      BY <1>11 DEF x
    <2>3. ASSUME NEW c \in 0..(d - 1) PROVE new[Slot(start, c, n)].offset # 0
      <3>1. c \in 0..(n - 1)
        BY <1>7
      <3>2. dst[Slot(start, c, n)].offset # 0
        BY <1>7
      <3> QED BY <1>13, <2>1, <3>1, <3>2
    <2> QED BY <1>7, <2>2, <2>3 DEF Found, start
  <1>16. Cardinality(Taken(new, n)) <= j + 1
    <2>1. IsFiniteSet(Taken(dst, n))
      <3>1. IsFiniteSet(0..(n - 1))
        <4>1. 0 \in Int /\ n - 1 \in Int
          OBVIOUS
        <4> QED BY <4>1, FS_Interval
      <3>2. Taken(dst, n) \subseteq 0..(n - 1)
        BY DEF Taken
      <3> QED BY <3>1, <3>2, FS_Subset
    <2>2. Taken(new, n) = Taken(dst, n) \cup {x}
      <3>1. new[x].offset # 0
        BY <1>1, <1>11
      <3> QED BY <1>8, <1>11, <1>13, <3>1 DEF Taken
    <2>3. x \notin Taken(dst, n)
      BY <1>7 DEF Taken
    <2>4. Cardinality(Taken(new, n)) = Cardinality(Taken(dst, n)) + 1
      BY <2>1, <2>2, <2>3, FS_AddElement
    <2>5. Cardinality(Taken(dst, n)) \in Nat /\ Cardinality(Taken(dst, n)) <= j
      BY <2>1, FS_CardinalityType DEF Filling
    <2> QED BY <2>4, <2>5
  <1>17. \A i \in 1..(j + 1) : Found(new, b[i], n)
    <2>1. ASSUME NEW i \in 1..(j + 1) PROVE Found(new, b[i], n)
      <3>1. CASE i = j + 1
        BY <1>15, <3>1 DEF e
      <3>2. CASE i # j + 1
        BY <1>14, <2>1, <3>2
      <3> QED BY <3>1, <3>2
    <2> QED BY <2>1
  <1>18. Filling(new, b, j + 1, n)
    BY <1>11, <1>12, <1>16, <1>17 DEF Filling
  <1> QED BY <1>18 DEF new, e

\* A closed table has every entry where it is found, nothing else, and a slot
\* that is free.
LEMMA PlacedIs ==
  ASSUME NEW b \in Seq(Entries), NEW n \in Nat, n = Slots(Len(b))
  PROVE  Filling(Placed(b), b, Len(b), n)
  <1> DEFINE l == Len(b)
             R == [0..(n - 1) -> Entries \cup {Vacant}]
             none == [k \in 0..(n - 1) |-> Vacant]
             step == [p \in (1..l) \X R |-> Place(p[2], b[p[1]], n)]
             Body(f) == [j \in 0..l |-> IF j = 0 THEN none ELSE Place(f[j - 1], b[j], n)]
             g == CHOOSE f : f = Body(f)
  <1>1. Placed(b) = g[l]
    BY DEF Placed
  <1>2. l \in Nat /\ n = l * 2 /\ DOMAIN b = 1..l
    BY DEF Slots
  <1>3. ASSUME NEW j \in 1..l, NEW t \in R PROVE Place(t, b[j], n) \in R
    <2>1. b[j] \in Entries
      BY <1>2
    <2>2. \E x : Place(t, b[j], n) = [t EXCEPT ![x] = b[j]]
      BY DEF Place
    <2> QED BY <2>1, <2>2
  <1>4. /\ step \in Steps(l, R)
        /\ \A j \in 1..l, t \in R : step[<<j, t>>] = Place(t, b[j], n)
    <2> HIDE DEF R
    <2> QED BY <1>3 DEF Steps
  <1>5. none \in R
    OBVIOUS
  <1> HIDE DEF R, none, l, step
  <1>6. PICK f : Follows(f, l, R, none, step)
    BY <1>2, <1>4, <1>5, Recursion
  <1>7. f = Body(f)
    <2>1. /\ f \in [0..l -> R] /\ f[0] = none
          /\ \A j \in 1..l : f[j] = step[<<j, f[j - 1]>>]
      BY <1>6 DEF Follows
    <2>2. ASSUME NEW j \in 1..l PROVE f[j] = Place(f[j - 1], b[j], n)
      <3>1. j - 1 \in 0..l /\ f[j - 1] \in R
        BY <1>2, <2>1
      <3> QED BY <1>4, <2>1, <3>1
    <2> QED BY <1>2, <2>1, <2>2
  <1>8. g = Body(g)
    <2> HIDE DEF Body
    <2> QED BY <1>7
  <1> HIDE DEF g
  <1>9. g[0] = none /\ \A j \in 1..l : g[j] = Place(g[j - 1], b[j], n)
    <2>1. \A j \in 0..l : g[j] = IF j = 0 THEN none ELSE Place(g[j - 1], b[j], n)
      BY <1>8
    <2>2. 0 \in 0..l /\ \A j \in 1..l : j \in 0..l /\ j # 0
      BY <1>2
    <2> QED BY <2>1, <2>2
  <1> DEFINE P == {j \in Nat : j <= l => Filling(g[j], b, j, n)}
  <1>10. 0 \in P
    <2>1. none \in [0..(n - 1) -> Entries \cup {Vacant}]
      BY <1>5 DEF R
    <2>2. \A k \in 0..(n - 1) : none[k].offset = 0
      BY DEF none, Vacant
    <2>3. Taken(none, n) = {}
      BY <2>2 DEF Taken
    <2>4. Cardinality(Taken(none, n)) <= 0
      BY <2>3, FS_EmptySet
    <2>5. Filling(none, b, 0, n)
      BY <2>1, <2>2, <2>4 DEF Filling
    <2> QED BY <1>9, <2>5
  <1>11. ASSUME NEW j \in Nat, j \in P PROVE j + 1 \in P
    <2> SUFFICES ASSUME j + 1 <= l PROVE Filling(g[j + 1], b, j + 1, n)
      OBVIOUS
    <2>1. j + 1 \in 1..l /\ (j + 1) - 1 = j /\ j < n /\ j < Len(b) /\ n \in Nat
      BY <1>2 DEF l
    <2>2. Filling(g[j], b, j, n)
      BY <1>2, <1>11
    <2>3. g[j + 1] = Place(g[j], b[j + 1], n)
      BY <1>9, <2>1
    <2>4. Filling(Place(g[j], b[j + 1], n), b, j + 1, n)
      BY <2>1, <2>2, PlaceFills
    <2> QED BY <2>3, <2>4
  <1>12. Nat \subseteq P
    <2> HIDE DEF P
    <2> QED BY <1>10, <1>11, Induction
  <1>13. Filling(g[l], b, l, n)
    BY <1>2, <1>12
  <1> QED BY <1>1, <1>13 DEF l

-----------------------------------------------------------------------------
(* The cells of a closed database *)

\* Sequences one behind the other: where each of them begins
Joined(g, p, z, m, T) ==
    /\ g \in [0..m -> Seq(T)] /\ p \in [0..(m - 1) -> Seq(T)] /\ z \in [0..m -> Nat]
    /\ z[0] = Len(g[0])
    /\ \A t \in 1..m : g[t] = g[t - 1] \o p[t - 1] /\ z[t] = z[t - 1] + Len(p[t - 1])

\* What lies where in the last
Lies(g, p, z, m) ==
    /\ Len(g[m]) = z[m]
    /\ \A i \in 1..z[0] : i <= z[m] /\ g[m][i] = g[0][i]
    /\ \A t \in 0..(m - 1) : \A k \in 1..Len(p[t]) :
         z[t] + k <= z[m] /\ g[m][z[t] + k] = p[t][k]

LEMMA Pieces ==
  ASSUME NEW T, NEW m \in Nat, NEW g, NEW p, NEW z, Joined(g, p, z, m, T)
  PROVE  Lies(g, p, z, m)
  <1> DEFINE Good(j) == /\ Len(g[j]) = z[j]
                        /\ \A i \in 1..z[0] : i <= z[j] /\ g[j][i] = g[0][i]
                        /\ \A t \in 0..(j - 1) : \A k \in 1..Len(p[t]) :
                             z[t] + k <= z[j] /\ g[j][z[t] + k] = p[t][k]
             P == {j \in Nat : j <= m => Good(j)}
  <1>1. 0 \in P
    <2>1. z[0] \in Nat /\ Len(g[0]) = z[0]
      BY DEF Joined
    <2> QED BY <2>1
  <1>2. ASSUME NEW j \in Nat, j \in P PROVE j + 1 \in P
    <2> SUFFICES ASSUME j + 1 <= m PROVE Good(j + 1)
      OBVIOUS
    <2>1. Good(j)
      BY <1>2
    <2>2. j + 1 \in 1..m /\ j \in 0..(m - 1) /\ j \in 0..m /\ (j + 1) - 1 = j
      OBVIOUS
    <2>3. PICK a \in Seq(T), b \in Seq(T), c \in Seq(T), x \in Nat :
            /\ a = g[j] /\ b = p[j] /\ c = g[j + 1] /\ x = z[j]
      <3>1. g[j] \in Seq(T) /\ g[j + 1] \in Seq(T) /\ p[j] \in Seq(T) /\ z[j] \in Nat
        BY <2>2 DEF Joined
      <3> QED BY <3>1
    <2>4. c = a \o b /\ z[j + 1] = x + Len(b)
      BY <2>2, <2>3 DEF Joined
    <2>5. /\ Len(a) = x /\ Len(b) \in Nat /\ Len(c) = x + Len(b)
          /\ \A i \in 1..x : c[i] = a[i]
          /\ \A i \in 1..Len(b) : c[x + i] = b[i]
      <3>1. Len(a) = x
        BY <2>1, <2>3
      <3>2. \A q \in Seq(T), y \in Seq(T) :
              /\ Len(q) \in Nat /\ Len(y) \in Nat /\ Len(q \o y) = Len(q) + Len(y)
              /\ \A i \in 1..Len(q) : (q \o y)[i] = q[i]
              /\ \A i \in 1..Len(y) : (q \o y)[Len(q) + i] = y[i]
        OBVIOUS
      <3>3. /\ Len(a) \in Nat /\ Len(b) \in Nat /\ Len(a \o b) = Len(a) + Len(b)
            /\ \A i \in 1..Len(a) : (a \o b)[i] = a[i]
            /\ \A i \in 1..Len(b) : (a \o b)[Len(a) + i] = b[i]
        BY <2>3, <3>2
      <3> QED BY <2>4, <3>1, <3>3
    <2>6. Len(g[j + 1]) = z[j + 1]
      BY <2>3, <2>4, <2>5
    <2>7. ASSUME NEW i \in 1..z[0] PROVE i <= z[j + 1] /\ g[j + 1][i] = g[0][i]
      <3>1. i <= x /\ a[i] = g[0][i]
        BY <2>1, <2>3, <2>7
      <3>2. z[0] \in Nat
        BY DEF Joined
      <3>3. i \in 1..x
        BY <2>7, <3>1, <3>2
      <3>4. i <= x + Len(b)
        BY <2>3, <2>5, <3>3
      <3>5. c[i] = g[0][i]
        BY <2>5, <3>1, <3>3
      <3> QED BY <2>3, <2>4, <3>4, <3>5
    <2>8. ASSUME NEW t \in 0..((j + 1) - 1), NEW k \in 1..Len(p[t])
          PROVE  z[t] + k <= z[j + 1] /\ g[j + 1][z[t] + k] = p[t][k]
      <3>1. z[t] \in Nat /\ p[t] \in Seq(T)
        BY <2>2, <2>8 DEF Joined
      <3>2. Len(p[t]) \in Nat
        BY <3>1
      <3>3. CASE t = j
        <4>1. k \in 1..Len(b)
          BY <2>3, <2>8, <3>3
        <4>2. c[x + k] = b[k] /\ x + k <= x + Len(b)
          BY <2>3, <2>5, <4>1
        <4> QED BY <2>3, <2>4, <3>3, <4>2
      <3>4. CASE t # j
        <4>1. t \in 0..(j - 1)
          BY <2>8, <3>4
        <4>2. z[t] + k <= x /\ a[z[t] + k] = p[t][k]
          BY <2>1, <2>3, <2>8, <4>1
        <4>3. z[t] + k \in 1..x
          BY <2>8, <3>1, <3>2, <4>2
        <4>4. z[t] + k <= x + Len(b)
          BY <2>3, <2>5, <4>3
        <4>5. c[z[t] + k] = p[t][k]
          BY <2>5, <4>2, <4>3
        <4> QED BY <2>3, <2>4, <4>4, <4>5
      <3> QED BY <3>3, <3>4
    <2> QED BY <2>6, <2>7, <2>8
  <1>3. Nat \subseteq P
    <2> HIDE DEF P
    <2> QED BY <1>1, <1>2, Induction
  <1>4. Good(m)
    <2> HIDE DEF Good
    <2> QED BY <1>3
  <1> QED BY <1>4 DEF Lies

\* The sums of cqdb_writer_close() and cqdb_reader() are sums over tables.
LEMMA CellsBeforeIs ==
  ASSUME NEW w, NEW t
  PROVE  CellsBefore(w, t) = SumOver([u \in 0..(t - 1) |-> Slots(Len(w.ht[u].bucket))], 0..(t - 1))
  <1> DEFINE S == 0..(t - 1)
             h == [u \in S |-> Slots(Len(w.ht[u].bucket))]
             Direct(iter) == [s \in SUBSET S |-> IF s = {} THEN 0
                                 ELSE Slots(Len(w.ht[Some(s)].bucket)) + iter[s \ {Some(s)}]]
             Body(iter) == [s \in SUBSET S |-> IF s = {} THEN 0
                               ELSE h[Some(s)] + iter[s \ {Some(s)}]]
  <1>1. /\ CellsBefore(w, t) = (CHOOSE iter : iter = Direct(iter))[S]
        /\ SumOver(h, S) = (CHOOSE iter : iter = Body(iter))[S]
    BY DEF CellsBefore, SumOver, MapThenSumSet, MapThenFoldSet, Some
  <1>2. ASSUME NEW iter PROVE Direct(iter) = Body(iter)
    <2>1. \A s \in SUBSET S : s # {} => h[Some(s)] = Slots(Len(w.ht[Some(s)].bucket))
      BY SomeIs
    <2> HIDE DEF h
    <2> QED BY <2>1
  <1> HIDE DEF Direct, Body
  <1> QED BY <1>1, <1>2

LEMMA NumRecordsIs ==
  ASSUME NEW c
  PROVE  NumRecords(c) = SumOver([t \in Tables |-> c.header.ref[t].num \div 2], Tables)
  <1> DEFINE S == Tables
             h == [t \in S |-> c.header.ref[t].num \div 2]
             Direct(iter) == [s \in SUBSET S |-> IF s = {} THEN 0
                                 ELSE (c.header.ref[Some(s)].num \div 2) + iter[s \ {Some(s)}]]
             Body(iter) == [s \in SUBSET S |-> IF s = {} THEN 0
                               ELSE h[Some(s)] + iter[s \ {Some(s)}]]
  <1>1. /\ NumRecords(c) = (CHOOSE iter : iter = Direct(iter))[S]
        /\ SumOver(h, S) = (CHOOSE iter : iter = Body(iter))[S]
    BY DEF NumRecords, SumOver, MapThenSumSet, MapThenFoldSet, Some
  <1>2. ASSUME NEW iter PROVE Direct(iter) = Body(iter)
    <2>1. \A s \in SUBSET S : s # {} => h[Some(s)] = c.header.ref[Some(s)].num \div 2
      BY SomeIs
    <2> HIDE DEF h
    <2> QED BY <2>1
  <1> HIDE DEF Direct, Body
  <1> QED BY <1>1, <1>2

LEMMA CellsBeforeNext ==
  ASSUME NEW w \in Writers
  PROVE  /\ CellsBefore(w, 0) = 0
         /\ \A t \in Tables : /\ CellsBefore(w, t) \in Int
                              /\ CellsBefore(w, t + 1) = CellsBefore(w, t) + Slots(Len(w.ht[t].bucket))
  <1> DEFINE h(t) == [u \in 0..(t - 1) |-> Slots(Len(w.ht[u].bucket))]
  <1>1. \A t \in Tables : Slots(Len(w.ht[t].bucket)) \in Nat
    BY DEF Writers, Slots
  <1>2. NumTables \in Nat \ {0}
    BY BoundAssumption DEF BoundAssumption
  <1>3. CellsBefore(w, 0) = 0
    <2>1. \A x \in {} : h(0)[x] \in Int
      OBVIOUS
    <2>2. 0..(0 - 1) = {} /\ IsFiniteSet({})
      BY FS_EmptySet
    <2> HIDE DEF h
    <2>3. SumOver(h(0), {}) = 0
      BY <2>1, <2>2, SumRemove
    <2> QED BY <2>2, <2>3, CellsBeforeIs DEF h
  <1>4. ASSUME NEW t \in Tables
        PROVE  /\ CellsBefore(w, t) \in Int
               /\ CellsBefore(w, t + 1) = CellsBefore(w, t) + Slots(Len(w.ht[t].bucket))
    <2>1. PICK S, V : S = 0..(t - 1) /\ V = 0..((t + 1) - 1)
      OBVIOUS
    <2>2. t \in Nat /\ t \in V /\ V \ {t} = S /\ V \subseteq Tables
      BY <1>2, <1>4, <2>1 DEF Tables
    <2>3. IsFiniteSet(S) /\ IsFiniteSet(V)
      <3>1. 0 \in Int /\ t - 1 \in Int /\ (t + 1) - 1 \in Int
        BY <2>2
      <3> QED BY <2>1, <3>1, FS_Interval
    <2>4. PICK a, b : a = h(t) /\ b = h(t + 1)
      OBVIOUS
    <2>5. /\ \A x \in S : a[x] \in Int /\ a[x] = b[x]
          /\ \A x \in V : b[x] \in Int
          /\ b[t] = Slots(Len(w.ht[t].bucket))
      BY <1>1, <2>1, <2>2, <2>4
    <2>6. SumOver(b, V) = SumOver(b, S) + b[t]
      BY <2>2, <2>3, <2>5, SumRemove
    <2>7. SumOver(a, S) = SumOver(b, S)
      BY <2>5, SumSame
    <2>8. SumOver(a, S) \in Int
      BY <2>3, <2>5, SumRemove
    <2>9. CellsBefore(w, t) = SumOver(a, S) /\ CellsBefore(w, t + 1) = SumOver(b, V)
      BY <2>1, <2>4, CellsBeforeIs
    <2> QED BY <2>5, <2>6, <2>7, <2>8, <2>9
  <1> QED BY <1>3, <1>4

\* What a cell of a database may be
AnyCell == StringCells \cup Entries \cup {Vacant} \cup Nat

LEMMA TableCellsAre ==
  ASSUME NEW b \in Seq(Entries)
  PROVE  /\ TableCells(b) \in Seq(AnyCell)
         /\ Len(TableCells(b)) = Slots(Len(b))
         /\ \A k \in 0..(Slots(Len(b)) - 1) : TableCells(b)[k + 1] = Placed(b)[k]
  <1>1. PICK n \in Nat : n = Slots(Len(b))
    BY DEF Slots
  <1>2. Filling(Placed(b), b, Len(b), n)
    BY <1>1, PlacedIs
  <1>3. PICK p : p = Placed(b) /\ p \in [0..(n - 1) -> Entries \cup {Vacant}]
    BY <1>2 DEF Filling
  <1>4. TableCells(b) = [k \in 1..n |-> p[k - 1]]
    BY <1>1, <1>3 DEF TableCells
  <1>5. \A k \in 1..n : p[k - 1] \in AnyCell
    <2>1. ASSUME NEW k \in 1..n PROVE p[k - 1] \in AnyCell
      <3>1. k - 1 \in 0..(n - 1)
        BY <1>1
      <3> QED BY <1>3, <3>1 DEF AnyCell
    <2> QED BY <2>1
  <1>6. ASSUME NEW k \in 0..(n - 1) PROVE TableCells(b)[k + 1] = p[k]
    <2>1. k + 1 \in 1..n /\ (k + 1) - 1 = k
      BY <1>1
    <2> QED BY <1>4, <2>1
  <1>7. TableCells(b) \in Seq(AnyCell) /\ Len(TableCells(b)) = n
    BY <1>1, <1>4, <1>5
  <1> QED BY <1>1, <1>3, <1>6, <1>7

\* Where cqdb_writer_close() puts everything
Lays(c, w, s, n) ==
    /\ c.header.bwd_size = n
    /\ \A t \in Tables :
         /\ c.header.ref[t].num = Slots(Len(w.ht[t].bucket))
         /\ w.ht[t].bucket = << >> <=> c.header.ref[t].offset = 0
         /\ w.ht[t].bucket # << >> =>
              \A k \in 0..(Slots(Len(w.ht[t].bucket)) - 1) :
                  Cell(c, c.header.ref[t].offset + k) = Placed(w.ht[t].bucket)[k]
    /\ \A i \in 1..n : Cell(c, i) = [id |-> i - 1, key |-> s[i]]
    /\ n > 0 => /\ c.header.bwd_offset # 0
                /\ \A i \in 0..(n - 1) : Cell(c, c.header.bwd_offset + i) = i + 1
    /\ NumRecords(c) = n

\* The tables one behind the other
LEMMA WrittenIs ==
  ASSUME NEW w \in Writers
  PROVE  \E g, p, z :
           /\ Joined(g, p, z, NumTables, AnyCell)
           /\ g[0] = w.cells
           /\ \A t \in Tables : p[t] = TableCells(w.ht[t].bucket)
           /\ \A t \in Tables : z[t] = Len(w.cells) + CellsBefore(w, t)
           /\ WriterClose(w).cells = g[NumTables] \o SubSeq(w.bwd, 1, w.bwd_num)
           /\ WriterClose(w).header.bwd_offset =
                (IF w.bwd = << >> THEN 0 ELSE FirstOffset + Len(g[NumTables]))
  <1> DEFINE m == NumTables
             R == Seq(AnyCell)
             first == w.cells
             p == [t \in 0..(m - 1) |-> TableCells(w.ht[t].bucket)]
             z == [t \in 0..m |-> Len(w.cells) + CellsBefore(w, t)]
             step == [q \in (1..m) \X R |-> q[2] \o p[q[1] - 1]]
             Body(f) == [t \in 0..m |-> IF t = 0 THEN w.cells
                                        ELSE f[t - 1] \o TableCells(w.ht[t - 1].bucket)]
             g == CHOOSE f : f = Body(f)
  <1>1. m \in Nat \ {0} /\ Tables = 0..(m - 1)
    BY BoundAssumption DEF BoundAssumption, Tables
  <1>2. w.cells \in R /\ Len(w.cells) \in Nat
    BY DEF Writers, AnyCell
  <1>3. \A t \in Tables : w.ht[t].bucket \in Seq(Entries)
    BY DEF Writers
  <1>4. p \in [0..(m - 1) -> R] /\ \A t \in Tables : p[t] = TableCells(w.ht[t].bucket)
    <2> HIDE DEF m, R
    <2>1. \A t \in Tables : TableCells(w.ht[t].bucket) \in R
      BY <1>3, TableCellsAre DEF R
    <2> QED BY <1>1, <2>1
  <1>5. /\ WriterClose(w).cells = g[m] \o SubSeq(w.bwd, 1, w.bwd_num)
        /\ WriterClose(w).header.bwd_offset =
             (IF w.bwd = << >> THEN 0 ELSE FirstOffset + Len(g[m]))
    BY DEF WriterClose
  <1> HIDE DEF p, R, m
  <1>6. ASSUME NEW j \in 1..m, NEW r \in R PROVE r \o p[j - 1] \in R
    <2>1. j - 1 \in 0..(m - 1)
      BY <1>1, <1>6
    <2>2. p[j - 1] \in R
      BY <1>4, <2>1
    <2> QED BY <2>2, <1>6 DEF R
  <1>7. step \in Steps(m, R) /\ \A j \in 1..m, r \in R : step[<<j, r>>] = r \o p[j - 1]
    BY <1>6 DEF Steps
  <1> HIDE DEF step
  <1>8. PICK f : Follows(f, m, R, first, step)
    <2>1. first \in R /\ m \in Nat
      BY <1>1, <1>2
    <2> HIDE DEF first
    <2> QED BY <1>7, <2>1, Recursion
  <1>9. /\ f \in [0..m -> R] /\ f[0] = w.cells
        /\ \A t \in 1..m : f[t] = f[t - 1] \o p[t - 1]
    <2>1. /\ f \in [0..m -> R] /\ f[0] = w.cells
          /\ \A t \in 1..m : f[t] = step[<<t, f[t - 1]>>]
      BY <1>8 DEF Follows
    <2>2. ASSUME NEW t \in 1..m PROVE f[t] = f[t - 1] \o p[t - 1]
      <3>1. t - 1 \in 0..m /\ f[t - 1] \in R
        BY <1>1, <2>1, <2>2
      <3> QED BY <1>7, <2>1, <2>2, <3>1
    <2> QED BY <2>1, <2>2
  <1>10. f = Body(f)
    <2>1. ASSUME NEW t \in 1..m PROVE p[t - 1] = TableCells(w.ht[t - 1].bucket)
      <3>1. t - 1 \in Tables
        BY <1>1, <2>1
      <3> QED BY <1>4, <3>1
    <2>2. \A t \in 0..m : f[t] = IF t = 0 THEN w.cells
                                 ELSE f[t - 1] \o TableCells(w.ht[t - 1].bucket)
      BY <1>1, <1>9, <2>1
    <2> QED BY <1>9, <2>2
  <1>11. g = Body(g)
    <2> HIDE DEF Body
    <2> QED BY <1>10
  <1> HIDE DEF g
  <1>12. g[0] = w.cells /\ \A t \in 1..m : g[t] = g[t - 1] \o p[t - 1]
    <2>1. \A t \in 0..m : g[t] = IF t = 0 THEN w.cells
                                 ELSE g[t - 1] \o TableCells(w.ht[t - 1].bucket)
      BY <1>11
    <2>2. ASSUME NEW t \in 1..m PROVE g[t] = g[t - 1] \o p[t - 1]
      <3>1. t - 1 \in Tables /\ t \in 0..m /\ t # 0
        BY <1>1, <2>2
      <3> QED BY <1>4, <2>1, <3>1
    <2>3. 0 \in 0..m
      BY <1>1
    <2> QED BY <2>1, <2>2, <2>3
  <1>13. g \in [0..m -> R]
    <2> DEFINE P == {t \in Nat : t <= m => g[t] \in R}
    <2>1. 0 \in P
      BY <1>2, <1>12
    <2>2. ASSUME NEW t \in Nat, t \in P PROVE t + 1 \in P
      <3> SUFFICES ASSUME t + 1 <= m PROVE g[t + 1] \in R
        OBVIOUS
      <3>1. t + 1 \in 1..m /\ (t + 1) - 1 = t /\ g[t] \in R
        BY <1>1, <2>2
      <3>2. g[t + 1] = g[t] \o p[t]
        BY <1>12, <3>1
      <3>3. g[t] \o p[(t + 1) - 1] \in R
        BY <1>6, <3>1
      <3> QED BY <3>1, <3>2, <3>3
    <2>3. Nat \subseteq P
      <3> HIDE DEF P
      <3> QED BY <2>1, <2>2, Induction
    <2>4. \A t \in 0..m : g[t] \in R
      BY <1>1, <2>3
    <2>5. g = [t \in 0..m |-> g[t]]
      BY <1>11
    <2> QED BY <2>4, <2>5
  <1>14. /\ z \in [0..m -> Nat] /\ z[0] = Len(g[0])
         /\ \A t \in 1..m : z[t] = z[t - 1] + Len(p[t - 1])
    <2>1. PICK l \in Nat : l = Len(w.cells)
      BY <1>2
    <2>2. /\ CellsBefore(w, 0) = 0
          /\ \A t \in Tables : /\ CellsBefore(w, t) \in Int
                               /\ CellsBefore(w, t + 1) = CellsBefore(w, t) + Len(p[t])
                               /\ Len(p[t]) \in Nat
      <3>1. \A t \in Tables : Len(p[t]) = Slots(Len(w.ht[t].bucket))
        BY <1>3, <1>4, TableCellsAre
      <3>2. \A t \in Tables : Len(p[t]) \in Nat
        BY <1>1, <1>4 DEF R
      <3> QED BY <3>1, <3>2, CellsBeforeNext
    <2> DEFINE P == {t \in Nat : t <= m => CellsBefore(w, t) \in Nat}
    <2>3. 0 \in P
      BY <2>2
    <2>4. ASSUME NEW t \in Nat, t \in P PROVE t + 1 \in P
      <3> SUFFICES ASSUME t + 1 <= m PROVE CellsBefore(w, t + 1) \in Nat
        OBVIOUS
      <3>1. t \in Tables /\ CellsBefore(w, t) \in Nat
        BY <1>1, <2>4
      <3> QED BY <2>2, <3>1
    <2>5. Nat \subseteq P
      <3> HIDE DEF P
      <3> QED BY <2>3, <2>4, Induction
    <2>6. \A t \in 0..m : CellsBefore(w, t) \in Nat
      BY <1>1, <2>5
    <2>7. z \in [0..m -> Nat] /\ z[0] = l
      BY <1>1, <2>1, <2>2, <2>6
    <2>8. ASSUME NEW t \in 1..m PROVE z[t] = z[t - 1] + Len(p[t - 1])
      <3>1. t - 1 \in Tables /\ (t - 1) + 1 = t /\ t - 1 \in 0..m /\ t \in 0..m
        BY <1>1, <2>8
      <3>2. z[t] = l + CellsBefore(w, t) /\ z[t - 1] = l + CellsBefore(w, t - 1)
        BY <2>1, <3>1
      <3>3. CellsBefore(w, t) = CellsBefore(w, t - 1) + Len(p[t - 1])
        BY <2>2, <3>1
      <3>4. CellsBefore(w, t - 1) \in Nat /\ Len(p[t - 1]) \in Nat
        BY <2>2, <2>6, <3>1
      <3> QED BY <3>2, <3>3, <3>4
    <2> QED BY <1>12, <2>1, <2>7, <2>8
  <1>15. Joined(g, p, z, m, AnyCell)
    BY <1>4, <1>12, <1>13, <1>14 DEF Joined, R
  <1>16. \A t \in Tables : z[t] = Len(w.cells) + CellsBefore(w, t)
    BY <1>1
  <1> HIDE DEF z
  <1> QED BY <1>4, <1>5, <1>12, <1>15, <1>16 DEF m

LEMMA ClosedLays ==
  ASSUME NEW s \in Seq(Strings), NEW h, NEW n \in Nat, NEW w, Holds(w, s, h, n)
  PROVE  Lays(WriterClose(w), w, s, n)
  <1> DEFINE c == WriterClose(w)
  <1>1. w \in Writers /\ Len(w.cells) = n /\ n <= Len(w.bwd) /\ w.bwd_num = n
    BY DEF Holds
  <1>2. PICK g, p, z :
           /\ Joined(g, p, z, NumTables, AnyCell)
           /\ g[0] = w.cells
           /\ \A t \in Tables : p[t] = TableCells(w.ht[t].bucket)
           /\ \A t \in Tables : z[t] = Len(w.cells) + CellsBefore(w, t)
           /\ c.cells = g[NumTables] \o SubSeq(w.bwd, 1, w.bwd_num)
           /\ c.header.bwd_offset =
                (IF w.bwd = << >> THEN 0 ELSE FirstOffset + Len(g[NumTables]))
    BY <1>1, WrittenIs
  <1>3. PICK m \in Nat \ {0} : m = NumTables
    BY BoundAssumption DEF BoundAssumption
  <1>4. Tables = 0..(m - 1)
    BY <1>3 DEF Tables
  <1>5. PICK q \in Seq(AnyCell), back \in Seq(Nat) :
          /\ q = g[m] /\ back = SubSeq(w.bwd, 1, n) /\ Len(back) = n
          /\ \A i \in 1..n : back[i] = i
    <2>1. g[m] \in Seq(AnyCell)
      BY <1>2, <1>3 DEF Joined
    <2>2. w.bwd \in Seq(Nat)
      BY <1>1 DEF Writers
    <2>3. SubSeq(w.bwd, 1, n) \in Seq(Nat) /\ Len(SubSeq(w.bwd, 1, n)) = n
          /\ \A i \in 1..n : SubSeq(w.bwd, 1, n)[i] = w.bwd[i]
      <3>1. PICK b \in Seq(Nat) : b = w.bwd /\ n <= Len(b)
        BY <1>1, <2>2
      <3>2. /\ SubSeq(b, 1, n) = [i \in 1..n |-> b[i]]
        BY <3>1
      <3>3. \A i \in 1..n : b[i] \in Nat
        BY <3>1
      <3> QED BY <3>1, <3>2, <3>3
    <2>4. \A i \in 1..n : w.bwd[i] = i
      BY DEF Holds
    <2> QED BY <2>1, <2>3, <2>4
  <1>6. c.cells = q \o back
    BY <1>1, <1>2, <1>3, <1>5
  <1>7. /\ Len(q) = z[m] /\ Len(q) \in Nat
        /\ \A i \in 1..z[0] : i <= z[m] /\ q[i] = w.cells[i]
        /\ \A t \in Tables : \A k \in 1..Len(p[t]) : z[t] + k <= z[m] /\ q[z[t] + k] = p[t][k]
    <2>1. /\ Len(g[m]) = z[m]
          /\ \A i \in 1..z[0] : i <= z[m] /\ g[m][i] = g[0][i]
          /\ \A t \in 0..(m - 1) : \A k \in 1..Len(p[t]) :
               z[t] + k <= z[m] /\ g[m][z[t] + k] = p[t][k]
      <3>1. m \in Nat /\ Joined(g, p, z, m, AnyCell)
        BY <1>2, <1>3
      <3>2. Lies(g, p, z, m)
        BY <3>1, Pieces
      <3> QED BY <3>2 DEF Lies
    <2> QED BY <1>2, <1>4, <1>5, <2>1
  <1>8. z[0] = n
    BY <1>1, <1>2 DEF Joined
  <1>9. /\ \A i \in 1..Len(q) : Cell(c, i) = q[i]
        /\ \A i \in 1..n : Cell(c, Len(q) + i) = i
    <2>1. /\ Len(q \o back) = Len(q) + n
          /\ \A i \in 1..Len(q) : (q \o back)[i] = q[i]
          /\ \A i \in 1..n : (q \o back)[Len(q) + i] = back[i]
          /\ DOMAIN (q \o back) = 1..(Len(q) + n)
      <3>1. \A a \in Seq(AnyCell), d \in Seq(Nat) :
              /\ Len(a \o d) = Len(a) + Len(d)
              /\ \A i \in 1..Len(a) : (a \o d)[i] = a[i]
              /\ \A i \in 1..Len(d) : (a \o d)[Len(a) + i] = d[i]
              /\ DOMAIN (a \o d) = 1..(Len(a) + Len(d))
        OBVIOUS
      <3>2. /\ Len(q \o back) = Len(q) + Len(back)
            /\ \A i \in 1..Len(q) : (q \o back)[i] = q[i]
            /\ \A i \in 1..Len(back) : (q \o back)[Len(q) + i] = back[i]
            /\ DOMAIN (q \o back) = 1..(Len(q) + Len(back))
        BY <1>5, <3>1
      <3>3. Len(back) = n
        BY <1>5
      <3> QED BY <3>2, <3>3
    <2>2. \A i \in 1..(Len(q) + n) : Cell(c, i) = c.cells[i]
      <3>1. ASSUME NEW i \in 1..(Len(q) + n) PROVE Cell(c, i) = c.cells[i]
        <4>1. i - 1 + 1 = i /\ i \in DOMAIN c.cells
          BY <1>6, <2>1, <3>1, <1>7
        <4> QED BY <4>1 DEF Cell, FirstOffset
      <3> QED BY <3>1
    <2>3. ASSUME NEW i \in 1..Len(q) PROVE Cell(c, i) = q[i]
      <3>1. i \in 1..(Len(q) + n)
        BY <1>7
      <3> QED BY <1>6, <2>1, <2>2, <3>1
    <2>4. ASSUME NEW i \in 1..n PROVE Cell(c, Len(q) + i) = i
      <3>1. Len(q) + i \in 1..(Len(q) + n)
        BY <1>7
      <3> QED BY <1>5, <1>6, <2>1, <2>2, <3>1
    <2> QED BY <2>3, <2>4
  <1>10. /\ c.header.bwd_size = w.bwd_num
         /\ \A t \in Tables :
              /\ c.header.ref[t].num = Slots(Len(w.ht[t].bucket))
              /\ c.header.ref[t].offset = (IF w.ht[t].bucket = << >> THEN 0
                                           ELSE Cur(w) + CellsBefore(w, t))
    BY DEF WriterClose
  <1> HIDE DEF c
  <1>11. ASSUME NEW i \in 1..n PROVE Cell(c, i) = [id |-> i - 1, key |-> s[i]]
    <2>1. i <= z[m] /\ q[i] = w.cells[i]
      BY <1>7, <1>8, <1>11
    <2>2. i \in 1..Len(q)
      BY <1>7, <1>11, <2>1
    <2>3. w.cells[i] = [id |-> i - 1, key |-> s[i]]
      BY <1>11 DEF Holds
    <2> QED BY <1>9, <2>1, <2>2, <2>3
  <1>12. ASSUME n > 0
         PROVE  /\ c.header.bwd_offset # 0
                /\ \A i \in 0..(n - 1) : Cell(c, c.header.bwd_offset + i) = i + 1
    <2>1. w.bwd # << >>
      <3>1. Len(<< >>) = 0
        OBVIOUS
      <3> QED BY <1>1, <1>12, <3>1
    <2>2. PICK x \in Nat : x = Len(q)
      BY <1>7
    <2>3. c.header.bwd_offset = x + 1
      BY <1>2, <1>3, <1>5, <2>1, <2>2 DEF FirstOffset
    <2>4. ASSUME NEW i \in 0..(n - 1) PROVE Cell(c, c.header.bwd_offset + i) = i + 1
      <3>1. i + 1 \in 1..n /\ (x + 1) + i = x + (i + 1)
        BY <2>4
      <3>2. Cell(c, x + (i + 1)) = i + 1
        BY <1>9, <2>2, <3>1
      <3> QED BY <2>3, <3>1, <3>2
    <2>5. c.header.bwd_offset # 0
      BY <2>2, <2>3
    <2> QED BY <2>4, <2>5
  <1>13. ASSUME NEW t \in Tables
         PROVE  /\ c.header.ref[t].num = Slots(Len(w.ht[t].bucket))
                /\ w.ht[t].bucket = << >> <=> c.header.ref[t].offset = 0
                /\ w.ht[t].bucket # << >> =>
                     \A k \in 0..(Slots(Len(w.ht[t].bucket)) - 1) :
                       Cell(c, c.header.ref[t].offset + k) = Placed(w.ht[t].bucket)[k]
    <2>1. PICK b \in Seq(Entries) : b = w.ht[t].bucket
      BY <1>1 DEF Writers
    <2>2. PICK x \in Nat : x = z[t] /\ x = n + CellsBefore(w, t)
      <3>1. z[t] \in Nat
        <4>1. z \in [0..m -> Nat]
          BY <1>2, <1>3 DEF Joined
        <4>2. t \in 0..m
          BY <1>3, <1>4, <1>13
        <4> QED BY <4>1, <4>2
      <3> QED BY <1>1, <1>2, <3>1
    <2>3. b # << >> => c.header.ref[t].offset = x + 1
      <3>1. CellsBefore(w, t) \in Int
        BY <1>1, CellsBeforeNext
      <3>2. Cur(w) + CellsBefore(w, t) = x + 1
        BY <1>1, <2>2, <3>1 DEF Cur, FirstOffset
      <3> QED BY <1>10, <2>1, <3>2
    <2>4. /\ Len(p[t]) = Slots(Len(b))
          /\ \A k \in 0..(Slots(Len(b)) - 1) : p[t][k + 1] = Placed(b)[k]
      BY <1>2, <2>1, TableCellsAre
    <2>5. PICK l \in Nat : l = Slots(Len(b))
      BY <2>1 DEF Slots
    <2>6. ASSUME b # << >>, NEW k \in 0..(l - 1)
          PROVE  Cell(c, c.header.ref[t].offset + k) = Placed(b)[k]
      <3>1. k + 1 \in 1..l /\ (x + 1) + k = x + (k + 1)
        BY <2>6
      <3>2. x + (k + 1) <= z[m] /\ q[x + (k + 1)] = p[t][k + 1]
        <4>1. k + 1 \in 1..Len(p[t])
          BY <2>4, <2>5, <3>1
        <4>2. z[t] + (k + 1) <= z[m] /\ q[z[t] + (k + 1)] = p[t][k + 1]
          BY <1>7, <4>1
        <4> QED BY <2>2, <4>2
      <3>3. x + (k + 1) \in 1..Len(q)
        BY <1>7, <2>2, <2>6, <3>2
      <3>4. Cell(c, x + (k + 1)) = p[t][k + 1]
        BY <1>9, <3>2, <3>3
      <3>5. p[t][k + 1] = Placed(b)[k]
        BY <2>4, <2>5, <2>6
      <3> QED BY <2>3, <2>6, <3>1, <3>4, <3>5
    <2> QED BY <1>10, <2>1, <2>2, <2>3, <2>5, <2>6
  <1>14. NumRecords(c) = n
    <2>1. PICK a, d : /\ a = [t \in Tables |-> c.header.ref[t].num \div 2]
                      /\ d = [t \in Tables |-> Len(w.ht[t].bucket)]
      OBVIOUS
    <2>2. ASSUME NEW t \in Tables PROVE a[t] = d[t]
      <3>1. PICK l \in Nat : l = Len(w.ht[t].bucket)
        BY <1>1 DEF Writers
      <3>2. (l * 2) \div 2 = l
        <4>1. PICK y \in Nat : y = l * 2
          BY <3>1
        <4>2. y \div 2 \in Int /\ y % 2 \in 0..1 /\ y = 2 * (y \div 2) + (y % 2)
          <5>1. 2 \in Nat \ {0} /\ 2 - 1 = 1
            OBVIOUS
          <5> QED BY <5>1, Division
        <4>3. PICK r \in Int, e \in 0..1 : r = y \div 2 /\ y = 2 * r + e
          BY <4>2
        <4>4. r = l
          <5>1. l \in Int /\ 0 \in 0..(2 - 1) /\ e \in 0..(2 - 1) /\ 2 \in Nat \ {0}
            BY <3>1, <4>3
          <5>2. 2 * r + e = 2 * l + 0
            <6>1. y = 2 * r + e
              BY <4>3
            <6>2. y = 2 * l + 0
              BY <3>1, <4>1
            <6> QED BY <6>1, <6>2
          <5> QED BY <4>3, <5>1, <5>2, RemainderUnique
        <4> QED BY <4>1, <4>3, <4>4
      <3> QED BY <1>10, <2>1, <3>1, <3>2 DEF Slots
    <2>3. SumOver(a, Tables) = SumOver(d, Tables)
      BY <2>2, SumSame
    <2>4. SumOver(d, Tables) = n
      BY <2>1 DEF Holds
    <2> QED BY <2>1, <2>3, <2>4, NumRecordsIs
  <1>15. Lays(c, w, s, n)
    BY <1>1, <1>10, <1>11, <1>12, <1>13, <1>14 DEF Lays
  <1> QED BY <1>15 DEF c

-----------------------------------------------------------------------------
(* The reader *)

\* Where a string was put
Places(s, n, x) == {i \in 0..(n - 1) : s[i + 1] = x}

\* What is answered to a string that was put there
Answers(c, x, h, ids) ==
    IdOf(Reader(c), x, h[x]) \in (IF ids = {} THEN {NotFound} ELSE ids)

\* The string has the number of one of the places where it was put.
LEMMA IdIsFound ==
  ASSUME NEW s \in Seq(Strings), NEW h \in [Strings -> Nat], NEW n \in Nat, n = Len(s),
         NEW w, Holds(w, s, h, n), NEW c, Lays(c, w, s, n), NEW x \in Strings
  PROVE  Answers(c, x, h, Places(s, n, x))
  <1> DEFINE ids == Places(s, n, x)
             hv == h[x]
             t == hv % NumTables
             b == w.ht[t].bucket
             db == Reader(c)
             ht == db.ht[t]
             l == Slots(Len(b))
             start == Start(hv, l)
             ends == {d \in 0..(l - 1) :
                        \/ ht[Slot(start, d, l)].offset = 0
                        \/ Matches(db, ht[Slot(start, d, l)], x, hv)}
             e == Min(ends)
  <1>1. NumTables \in Nat \ {0} /\ hv \in Nat /\ t \in Tables
    <2>1. NumTables \in Nat \ {0} /\ hv \in Nat
      BY BoundAssumption DEF BoundAssumption
    <2> QED BY <2>1, Division DEF Tables
  <1>2. b \in Seq(Entries) /\ w \in Writers
    <2>1. w \in Writers
      BY DEF Holds
    <2> HIDE DEF t
    <2> QED BY <1>1, <2>1 DEF Writers
  <1>3. l \in Nat /\ Len(b) \in Nat /\ l = Len(b) * 2 /\ (b = << >> <=> l = 0)
    <2>1. PICK y \in Seq(Entries) : y = b
      BY <1>2
    <2>2. Len(y) \in Nat /\ (y = << >> <=> Len(y) = 0)
      BY <2>1
    <2> QED BY <2>1, <2>2 DEF Slots
  <1>4. /\ db.chunk = c
        /\ ht = [k \in 0..((IF c.header.ref[t].offset = 0 THEN 0 ELSE c.header.ref[t].num) - 1) |->
                   Cell(c, c.header.ref[t].offset + k)]
    <2> HIDE DEF t
    <2> QED BY <1>1 DEF Reader
  <1> HIDE DEF t, db
  <1>5. DOMAIN ht = 0..(l - 1) /\ \A k \in 0..(l - 1) : ht[k] = Placed(b)[k]
    <2>1. /\ c.header.ref[t].num = l
          /\ b = << >> <=> c.header.ref[t].offset = 0
          /\ b # << >> => \A k \in 0..(l - 1) : Cell(c, c.header.ref[t].offset + k) = Placed(b)[k]
      BY <1>1 DEF Lays
    <2> HIDE DEF l, b
    <2> QED BY <1>3, <1>4, <2>1
  <1>6. Filling(Placed(b), b, Len(b), l)
    BY <1>2, <1>3, PlacedIs
  <1>7. Cardinality(DOMAIN ht) = l
    <2>1. 0 \in Int /\ l - 1 \in Int
      BY <1>3
    <2>2. Cardinality(0..(l - 1)) = IF 0 > l - 1 THEN 0 ELSE (l - 1) - 0 + 1
      BY <2>1, FS_Interval
    <2> HIDE DEF l
    <2> QED BY <1>3, <1>5, <2>2
  <1>8. IdOf(db, x, hv) =
          CASE l = 0 -> NotFound
            [] l # 0 /\ ends = {} -> Beyond
            [] OTHER -> IF ht[Slot(start, e, l)].offset = 0 THEN NotFound
                        ELSE Cell(c, ht[Slot(start, e, l)].offset).id
    <2> HIDE DEF l
    <2> QED BY <1>4, <1>7 DEF IdOf, Slot, t
  <1>9. \A j \in 1..Len(b) : Points(b[j], t, s, h, n)
    BY <1>1 DEF Holds
  <1>10. \A i \in 1..n : s[i] = x => \E j \in 1..Len(b) : b[j].offset = i
    BY DEF Holds, t
  <1>11. \A i \in 1..n : Cell(c, i) = [id |-> i - 1, key |-> s[i]]
    BY DEF Lays
  <1> HIDE DEF b, ht, l, start, ends, hv
  <1>12. CASE l = 0
    <2>1. IdOf(db, x, hv) = NotFound
      BY <1>8, <1>12
    <2>2. ids = {}
      <3> SUFFICES ASSUME NEW i \in ids PROVE FALSE
        OBVIOUS
      <3>1. i + 1 \in 1..n /\ s[i + 1] = x
        BY DEF Places
      <3>2. Len(b) = 0
        BY <1>3, <1>12
      <3> QED BY <1>10, <3>1, <3>2
    <2> QED BY <2>1, <2>2 DEF db, hv, Answers
  <1>13. CASE l # 0
    <2>1. l \in Nat \ {0} /\ Len(b) < l
      BY <1>3, <1>13
    <2>2. start \in 0..(l - 1) /\ start \in Nat
      <3>1. hv \in Nat
        BY <1>1
      <3>2. Start(hv, l) \in 0..(l - 1)
        BY <2>1, <3>1, StartIn
      <3> QED BY <2>1, <3>2 DEF start
    <2>3. \A d \in 0..(l - 1) : Slot(start, d, l) \in 0..(l - 1)
      <3>1. ASSUME NEW d \in 0..(l - 1) PROVE Slot(start, d, l) \in 0..(l - 1)
        <4>1. d \in Nat
          BY <3>1
        <4> QED BY <2>1, <2>2, <4>1, SlotIn
      <3> QED BY <3>1
    <2>4. PICK f \in 0..(l - 1) : ht[Slot(start, f, l)].offset = 0
      <3>1. PICK k \in 0..(l - 1) : Placed(b)[k].offset = 0
        BY <1>3, <1>6, <2>1, OneIsFree
      <3>2. PICK d \in 0..(l - 1) : Slot(start, d, l) = k
        BY <2>1, <2>2, EverySlot
      <3> QED BY <1>5, <3>1, <3>2
    <2>5. f \in ends /\ ends \subseteq Nat
      BY <2>4 DEF ends
    <2>6. e \in ends /\ \A d \in ends : e <= d
      BY <2>5, MinIs
    <2> HIDE DEF e
    <2>7. PICK k \in 0..(l - 1) : k = Slot(start, e, l)
      BY <2>3, <2>6 DEF ends
    <2>8. IdOf(db, x, hv) = IF ht[k].offset = 0 THEN NotFound ELSE Cell(c, ht[k].offset).id
      BY <1>8, <1>13, <2>5, <2>7
    <2>9. CASE ht[k].offset # 0
      <3>1. Matches(db, ht[k], x, hv)
        BY <2>6, <2>7, <2>9 DEF ends
      <3>2. PICK j \in 1..Len(b) : ht[k] = b[j]
        BY <1>5, <1>6, <2>7, <2>9 DEF Filling
      <3>3. PICK i \in 1..n : i = ht[k].offset
        BY <1>9, <3>2 DEF Points
      <3>4. Cell(c, i) = [id |-> i - 1, key |-> s[i]]
        BY <1>11
      <3>5. s[i] = x
        <4>1. Cell(c, i).key = x
          BY <1>4, <3>1, <3>3 DEF Matches
        <4> QED BY <3>4, <4>1
      <3>6. i - 1 \in 0..(n - 1) /\ (i - 1) + 1 = i
        OBVIOUS
      <3>7. i - 1 \in ids
        BY <3>5, <3>6 DEF Places
      <3>8. IdOf(db, x, hv) = i - 1
        BY <2>8, <2>9, <3>3, <3>4
      <3> QED BY <3>7, <3>8 DEF db, hv, Answers
    <2>10. CASE ht[k].offset = 0
      <3>1. ids = {}
        <4> SUFFICES ASSUME NEW i \in ids PROVE FALSE
          OBVIOUS
        <4>1. i + 1 \in 1..n /\ s[i + 1] = x
          BY DEF Places
        <4>2. PICK j \in 1..Len(b) : b[j].offset = i + 1
          BY <1>10, <4>1
        <4>3. b[j].hash = hv
          BY <1>9, <4>1, <4>2 DEF Points, hv
        <4>4. PICK d \in 0..(l - 1) :
                /\ Placed(b)[Slot(start, d, l)] = b[j]
                /\ \A a \in 0..(d - 1) : Placed(b)[Slot(start, a, l)].offset # 0
          <5>1. Found(Placed(b), b[j], l)
            BY <1>6, <4>2 DEF Filling
          <5> QED BY <4>3, <5>1 DEF Found, start
        <4>5. ht[Slot(start, d, l)] = b[j]
          BY <1>5, <2>3, <4>4
        <4>6. d \in ends
          <5>1. Cell(c, i + 1).key = x
            BY <1>11, <4>1
          <5> QED BY <1>4, <4>2, <4>3, <4>5, <5>1 DEF Matches, ends
        <4>7. e <= d /\ e \in 0..(l - 1)
          BY <2>6, <4>6 DEF ends
        <4>8. CASE e = d
          BY <2>7, <2>10, <4>1, <4>2, <4>5, <4>8
        <4>9. CASE e # d
          <5>1. e \in 0..(d - 1)
            BY <4>7, <4>9
          <5>2. Placed(b)[k].offset # 0
            BY <2>7, <4>4, <5>1
          <5> QED BY <1>5, <2>10, <5>2
        <4> QED BY <4>8, <4>9
      <3> QED BY <2>8, <2>10, <3>1 DEF db, hv, Answers
    <2> QED BY <2>9, <2>10
  <1> QED BY <1>12, <1>13

\* The number has the string that was put with it.
LEMMA StringIsFound ==
  ASSUME NEW s \in Seq(Strings), NEW n \in Nat, n = Len(s),
         NEW w, NEW c, Lays(c, w, s, n), NEW i \in Nat
  PROVE  StringOf(Reader(c), i) = (IF i < n THEN s[i + 1] ELSE NoString)
  <1> DEFINE db == Reader(c)
             off == c.header.bwd_offset
  <1>1. NumRecords(c) = n /\ c.header.bwd_size = n
    BY DEF Lays
  <1>2. /\ db.chunk = c
        /\ db.bwd = [j \in 0..((IF off = 0 THEN 0 ELSE n) - 1) |-> Cell(c, off + j)]
    BY <1>1 DEF Reader
  <1> HIDE DEF db, off
  <1>3. CASE i >= n
    BY <1>1, <1>2, <1>3 DEF StringOf, db
  <1>4. CASE i < n
    <2>1. off # 0 /\ \A j \in 0..(n - 1) : Cell(c, off + j) = j + 1
      BY <1>4 DEF Lays, off
    <2>2. i \in 0..(n - 1) /\ DOMAIN db.bwd = 0..(n - 1)
      BY <1>2, <1>4, <2>1
    <2>3. db.bwd[i] = i + 1
      BY <1>2, <2>1, <2>2
    <2>4. Cell(c, i + 1) = [id |-> (i + 1) - 1, key |-> s[i + 1]]
      <3>1. i + 1 \in 1..n
        BY <1>4
      <3> QED BY <3>1 DEF Lays
    <2>5. StringOf(db, i) = Cell(db.chunk, db.bwd[i]).key
      <3>1. ~ (i >= db.chunk.header.bwd_size) /\ db.bwd[i] # 0 /\ DOMAIN db.bwd # {}
        <4>1. db.chunk.header.bwd_size = n
          BY <1>1, <1>2
        <4>2. db.bwd[i] # 0 /\ DOMAIN db.bwd # {}
          BY <2>2, <2>3
        <4> QED BY <1>4, <4>1, <4>2
      <3> QED BY <2>2, <3>1 DEF StringOf
    <2> QED BY <1>2, <1>4, <2>3, <2>4, <2>5 DEF db
  <1> QED BY <1>3, <1>4

-----------------------------------------------------------------------------
(* What is saved *)

\* The strings to be saved, in the order of their new numbers
ToSave == [i \in 1..Len(used) |-> Saved(i - 1)]

\* The numbers of the strings to be saved do not change any more, the writer
\* has some of them, and all of them when it is closed.
SaveInv ==
    /\ strs \in Seq(Strings)
    /\ pc # "saved" => chunk = Unreadable
    /\ pc \in {"saving", "saved"} =>
         /\ used \in Seq(0..(Len(strs) - 1)) /\ hash \in [Strings -> Nat]
         /\ ~writer.error => NumPut <= Len(used) /\ Holds(writer, ToSave, hash, NumPut)
    /\ pc = "saved" /\ chunk # Unreadable =>
         ~writer.error /\ NumPut = Len(used) /\ chunk = WriterClose(writer)

LEMMA ToSaveIs ==
  ASSUME strs \in Seq(Strings), used \in Seq(0..(Len(strs) - 1))
  PROVE  /\ ToSave \in Seq(Strings) /\ Len(ToSave) = Len(used)
         /\ \A n \in 0..(Len(used) - 1) : ToSave[n + 1] = Saved(n)
  <1>1. ASSUME NEW n \in 0..(Len(used) - 1) PROVE Saved(n) \in Strings
    <2>1. n + 1 \in 1..Len(used) /\ Len(strs) \in Nat
      OBVIOUS
    <2>2. PICK k \in 0..(Len(strs) - 1) : k = used[n + 1]
      BY <2>1
    <2>3. k < Len(strs) /\ k + 1 \in 1..Len(strs)
      BY <2>1, <2>2
    <2> QED BY <2>2, <2>3 DEF Saved, QuarkToString
  <1>2. PICK l \in Nat : l = Len(used)
    OBVIOUS
  <1>3. ToSave = [i \in 1..l |-> Saved(i - 1)]
    BY <1>2 DEF ToSave
  <1>4. \A i \in 1..l : Saved(i - 1) \in Strings
    <2>1. ASSUME NEW i \in 1..l PROVE Saved(i - 1) \in Strings
      <3>1. i - 1 \in 0..(l - 1)
        BY <1>2
      <3> QED BY <1>1, <1>2, <3>1
    <2> QED BY <2>1
  <1>5. ASSUME NEW n \in 0..(l - 1) PROVE ToSave[n + 1] = Saved(n)
    <2>1. n + 1 \in 1..l /\ (n + 1) - 1 = n
      BY <1>2
    <2> QED BY <1>3, <2>1
  <1> QED BY <1>2, <1>3, <1>4, <1>5

LEMMA InOrderIs ==
  ASSUME NEW n \in Nat, NEW ids \in SUBSET (0..(n - 1)), NEW q \in InOrder(ids)
  PROVE  q \in Seq(0..(n - 1))
  <1>1. IsFiniteSet(ids)
    <2>1. 0 \in Int /\ n - 1 \in Int
      OBVIOUS
    <2> QED BY <2>1, FS_Interval, FS_Subset
  <1>2. Cardinality(ids) \in Nat
    BY <1>1, FS_CardinalityType
  <1>3. PICK c \in Nat : q \in [1..c -> ids]
    BY <1>2 DEF InOrder
  <1>4. \A i \in 1..c : q[i] \in 0..(n - 1)
    BY <1>3
  <1>5. q = [i \in 1..c |-> q[i]]
    BY <1>3
  <1> QED BY <1>4, <1>5

LEMMA SaveInvInit == Init => SaveInv
  BY DEF Init, SaveInv

LEMMA SaveInvStep == SaveInv /\ [Next]_vars => SaveInv'
  <1> SUFFICES ASSUME SaveInv, [Next]_vars PROVE SaveInv'
    OBVIOUS
  <1>1. ASSUME pc = pc', UNCHANGED <<strs, dbVars>> PROVE SaveInv'
    <2>1. ToSave' = ToSave /\ NumPut' = NumPut
      BY <1>1 DEF dbVars, NumPut, ToSave, Saved, QuarkToString
    <2> QED BY <1>1, <2>1 DEF SaveInv, dbVars
  <1>2. ASSUME pc \notin {"saving", "saved"}, pc' \notin {"saving", "saved"},
               UNCHANGED chunk, strs' \in Seq(Strings)
        PROVE  SaveInv'
    BY <1>2 DEF SaveInv
  <1>3. strs \in Seq(Strings)
    BY DEF SaveInv
  <1>4. ASSUME NEW k \in Keys, Set(k) \/ Drop(k) PROVE SaveInv'
    BY <1>2, <1>3, <1>4 DEF Set, Drop, quarkVars, dbVars
  <1>5. ASSUME NEW s \in Strings, GetCrashes(s) PROVE SaveInv'
    BY <1>2, <1>3, <1>5 DEF GetCrashes, quarkVars, dbVars
  <1>6. ASSUME NEW s \in Strings, NEW inserted \in BOOLEAN, Get(s, inserted) PROVE SaveInv'
    <2>1. pc = "open" /\ pc' = pc /\ strs' = Append(strs, s) /\ UNCHANGED chunk
      BY <1>6 DEF Get, dbVars
    <2>2. strs' \in Seq(Strings)
      BY <1>3, <2>1
    <2> QED BY <1>2, <2>1, <2>2
  <1>7. ASSUME NEW ids \in SUBSET (0..(Len(strs) - 1)), OpenWriter(ids) PROVE SaveInv'
    <2>1. /\ pc' = "saving" /\ chunk' = Unreadable /\ strs' = strs
          /\ used' \in InOrder(ids) /\ hash' \in Hashes /\ writer' = NewWriter
      <3>1. chunk = Unreadable
        BY <1>7 DEF OpenWriter, SaveInv
      <3> QED BY <1>7, <3>1 DEF OpenWriter, quarkVars
    <2>2. used' \in Seq(0..(Len(strs) - 1))
      <3>1. Len(strs) \in Nat
        BY <1>3
      <3> QED BY <2>1, <3>1, InOrderIs
    <2>3. hash' \in [Strings -> Nat]
      BY <2>1, BoundAssumption DEF BoundAssumption
    <2>4. writer'.cells = << >> /\ Len(writer'.cells) = 0
      BY <2>1 DEF NewWriter
    <2>5. Holds(writer', ToSave', hash', 0)
      BY <2>1, HoldsNone
    <2>6. Len(used') >= 0
      BY <2>2
    <2> QED BY <1>3, <2>1, <2>2, <2>3, <2>4, <2>5, <2>6 DEF SaveInv, NumPut
  <1>8. ASSUME NEW fails \in BOOLEAN, PutNext(fails) PROVE SaveInv'
    <2>1. /\ pc = "saving" /\ pc' = pc /\ ~writer.error /\ NumPut < Len(used)
          /\ UNCHANGED <<strs, hash, used, chunk>>
      BY <1>8 DEF PutNext, quarkVars
    <2>2. /\ used \in Seq(0..(Len(strs) - 1)) /\ hash \in [Strings -> Nat]
          /\ Holds(writer, ToSave, hash, NumPut) /\ chunk = Unreadable
      BY <2>1 DEF SaveInv
    <2>3. ToSave' = ToSave
      BY <2>1 DEF ToSave, Saved, QuarkToString
    <2>4. CASE fails
      <3>1. writer' = WriterGivesUp(writer)
        BY <1>8, <2>4 DEF PutNext
      <3>2. writer \in Writers
        BY <2>2 DEF Holds
      <3>3. writer'.error
        BY <3>1, <3>2 DEF WriterGivesUp, Writers
      <3> QED BY <1>3, <2>1, <2>2, <3>3 DEF SaveInv
    <2>5. CASE ~fails
      <3>1. PICK m \in Nat : m = NumPut /\ m < Len(used)
        <4>1. NumPut \in Nat
          BY <2>2 DEF Holds, Writers, NumPut
        <4> QED BY <2>1, <4>1
      <3>2. /\ ToSave \in Seq(Strings) /\ Len(ToSave) = Len(used)
            /\ \A n \in 0..(Len(used) - 1) : ToSave[n + 1] = Saved(n)
        BY <1>3, <2>2, ToSaveIs
      <3>3. Saved(m) = ToSave[m + 1]
        <4>1. m \in 0..(Len(used) - 1)
          BY <2>2, <3>1
        <4> QED BY <3>2, <4>1
      <3>4. writer' = WriterPut(writer, ToSave[m + 1], hash[ToSave[m + 1]], m)
        BY <1>8, <2>5, <3>1, <3>3 DEF PutNext
      <3>5. Holds(writer', ToSave, hash, m + 1)
        <4>1. m < Len(ToSave) /\ Holds(writer, ToSave, hash, m)
          BY <2>2, <3>1, <3>2
        <4> QED BY <2>2, <3>2, <3>4, <4>1, HoldsMore
      <3>6. NumPut' = m + 1
        BY <3>5 DEF Holds, NumPut
      <3>7. m + 1 <= Len(used)
        BY <2>2, <3>1
      <3> QED BY <1>3, <2>1, <2>2, <2>3, <3>5, <3>6, <3>7 DEF SaveInv
    <2> QED BY <2>4, <2>5
  <1>9. ASSUME NEW fails \in BOOLEAN, CloseWriter(fails) PROVE SaveInv'
    <2>1. /\ pc = "saving" /\ pc' = "saved" /\ UNCHANGED <<strs, hash, used, writer>>
          /\ writer.error \/ NumPut = Len(used)
          /\ chunk' = IF writer.error \/ fails THEN Unreadable ELSE WriterClose(writer)
      BY <1>9 DEF CloseWriter, quarkVars
    <2>2. ToSave' = ToSave /\ NumPut' = NumPut
      BY <2>1 DEF ToSave, Saved, QuarkToString, NumPut
    <2>3. chunk' # Unreadable => ~writer.error /\ NumPut = Len(used) /\ chunk' = WriterClose(writer)
      BY <2>1
    <2> QED BY <1>3, <2>1, <2>2, <2>3 DEF SaveInv
  <1>10. CASE Destroy
    BY <1>2, <1>3, <1>10 DEF Destroy, quarkVars, dbVars
  <1>11. CASE DestroyNode
    BY <1>2, <1>3, <1>11 DEF DestroyNode, dbVars
  <1>12. CASE UNCHANGED vars
    BY <1>1, <1>12 DEF vars, quarkVars
  <1>13. ASSUME NEW fails \in BOOLEAN, PutNext(fails) \/ CloseWriter(fails) PROVE SaveInv'
    BY <1>8, <1>9, <1>13
  <1>14. ASSUME NEW s \in Strings, GetCrashes(s) \/ \E inserted \in BOOLEAN : Get(s, inserted)
         PROVE  SaveInv'
    BY <1>5, <1>6, <1>14
  <1> QED BY <1>4, <1>7, <1>10, <1>11, <1>12, <1>13, <1>14 DEF Next

LEMMA SaveInvLooksUp == SaveInv => LooksUp
  <1> SUFFICES ASSUME SaveInv, chunk # Unreadable PROVE LooksUp
    BY DEF LooksUp
  <1>1. /\ strs \in Seq(Strings) /\ used \in Seq(0..(Len(strs) - 1)) /\ hash \in [Strings -> Nat]
        /\ NumPut = Len(used) /\ chunk = WriterClose(writer)
        /\ Holds(writer, ToSave, hash, NumPut)
    BY DEF SaveInv
  <1>2. PICK n \in Nat : n = Len(used)
    BY <1>1
  <1>3. PICK s \in Seq(Strings) :
          s = ToSave /\ Len(s) = n /\ \A i \in 0..(n - 1) : s[i + 1] = Saved(i)
    BY <1>1, <1>2, ToSaveIs
  <1>4. Holds(writer, s, hash, n)
    BY <1>1, <1>2, <1>3
  <1>5. Lays(chunk, writer, s, n)
    BY <1>1, <1>4, ClosedLays
  <1>6. Reader(chunk).num = n
    BY <1>5 DEF Lays, Reader
  <1>7. ASSUME NEW x \in Strings
        PROVE  LET ids == {i \in 0..(n - 1) : Saved(i) = x}
               IN IdOf(Reader(chunk), x, hash[x]) \in (IF ids = {} THEN {NotFound} ELSE ids)
    <2>1. {i \in 0..(n - 1) : Saved(i) = x} = {i \in 0..(n - 1) : s[i + 1] = x}
      BY <1>3
    <2>2. Answers(chunk, x, hash, Places(s, n, x))
      BY <1>1, <1>3, <1>4, <1>5, IdIsFound
    <2> QED BY <2>1, <2>2 DEF Answers, Places
  <1>8. ASSUME NEW i \in 0..MaxIds
        PROVE  StringOf(Reader(chunk), i) = (IF i < n THEN Saved(i) ELSE NoString)
    <2>1. i \in Nat
      BY BoundAssumption DEF BoundAssumption
    <2>2. StringOf(Reader(chunk), i) = (IF i < n THEN s[i + 1] ELSE NoString)
      BY <1>3, <1>5, <2>1, StringIsFound
    <2>3. i < n => s[i + 1] = Saved(i)
      BY <1>3, <2>1
    <2> QED BY <2>2, <2>3
  <1> QED BY <1>2, <1>6, <1>7, <1>8 DEF LooksUp

\* The inductive invariant of saving (crf1de_save_model() with cqdb.c): each
\* table has an entry for every string that was put and for no other.
THEOREM SaveInvariant == Spec => []SaveInv
  <1> QED BY SaveInvInit, SaveInvStep, PTL DEF Spec

\* A database that was closed answers as the dictionary did, for any number of
\* tables and strings and any hash function (cqdb.c).
THEOREM LooksUpAlways == Spec => []LooksUp
  <1> QED BY SaveInvariant, SaveInvLooksUp, PTL

-----------------------------------------------------------------------------
(* What follows from the promises of a dictionary, whichever it is: names    *)
(* and numbers are those of any dictionary, not of the quark above.          *)

VARIABLES names, numbers

INSTANCE Dictionary

DictionaryInv == DictionaryTypeOK /\ Consistent

\* No number of a string that is known ever changes, nor the string of a
\* number, until the dictionary is released.
Remembers ==
    \/ /\ \A s \in DOMAIN numbers : s \in DOMAIN numbers' /\ numbers'[s] = numbers[s]
       /\ \A n \in 1..Num : n \in 1..Len(names') /\ names'[n] = names[n]
    \/ names' = << >>

\* Two strings that are known never share a number: dictionary_get() and
\* dictionary_to_id() tell all labels and all attributes apart.
Distinct ==
    \A s, r \in DOMAIN numbers : numbers[s] = numbers[r] => s = r

\* A new dictionary has no names.
LEMMA InitInv == DictionaryInit => DictionaryInv
BY DEF DictionaryInit, DictionaryInv, DictionaryTypeOK, Consistent, Num

\* A new string gets the number of its name, behind all others.
LEMMA IssueInv ==
    ASSUME DictionaryInv, NEW s \in Strings, Issue(s)
    PROVE  DictionaryInv'
<1>1. /\ names \in Seq(Strings) /\ Len(names) \in Nat
      /\ names' = Append(names, s)
    BY DEF DictionaryInv, DictionaryTypeOK, Issue
<1>2. /\ Len(names') = Len(names) + 1
      /\ \A n \in 1..Len(names) : names'[n] = names[n]
      /\ names'[Len(names) + 1] = s
      /\ names' \in Seq(Strings)
    BY <1>1
<1>3. /\ DOMAIN numbers' = DOMAIN numbers \cup {s}
      /\ numbers'[s] = Len(names)
      /\ \A r \in DOMAIN numbers : numbers'[r] = numbers[r]
      /\ numbers' \in [DOMAIN numbers' -> Nat]
    BY <1>1 DEF DictionaryInv, DictionaryTypeOK, Issue, Num
<1>4. DictionaryTypeOK'
    BY <1>2, <1>3 DEF DictionaryInv, DictionaryTypeOK
<1>5. ASSUME NEW r \in DOMAIN numbers'
      PROVE  numbers'[r] \in 0..(Len(names') - 1) /\ names'[numbers'[r] + 1] = r
    <2>1. CASE r = s
        BY <1>1, <1>2, <1>3, <2>1
    <2>2. CASE r \in DOMAIN numbers
        <3>1. numbers[r] \in 0..(Len(names) - 1) /\ names[numbers[r] + 1] = r
            BY <2>2 DEF DictionaryInv, Consistent, Num
        <3>2. numbers[r] + 1 \in 1..Len(names)
            BY <1>1, <3>1
        <3> QED BY <1>1, <1>2, <1>3, <2>2, <3>1, <3>2
    <2> QED BY <1>3, <2>1, <2>2
<1> QED BY <1>4, <1>5 DEF DictionaryInv, Consistent, Num

\* A name without a number takes none from another (quark_get() out of memory).
LEMMA ForgetInv ==
    ASSUME DictionaryInv, NEW s \in Strings, Forget(s)
    PROVE  DictionaryInv'
<1>1. /\ names \in Seq(Strings) /\ Len(names) \in Nat
      /\ names' = Append(names, s) /\ numbers' = numbers
    BY DEF DictionaryInv, DictionaryTypeOK, Forget
<1>2. /\ Len(names') = Len(names) + 1
      /\ \A n \in 1..Len(names) : names'[n] = names[n]
      /\ names' \in Seq(Strings)
    BY <1>1
<1>3. ASSUME NEW r \in DOMAIN numbers
      PROVE  numbers[r] \in 0..(Len(names') - 1) /\ names'[numbers[r] + 1] = r
    <2>1. numbers[r] \in 0..(Len(names) - 1) /\ names[numbers[r] + 1] = r
        BY DEF DictionaryInv, Consistent, Num
    <2>2. numbers[r] + 1 \in 1..Len(names)
        BY <1>1, <2>1
    <2> QED BY <1>1, <1>2, <2>1, <2>2
<1> QED BY <1>1, <1>2, <1>3 DEF DictionaryInv, DictionaryTypeOK, Consistent, Num

\* Every step of a dictionary keeps names and numbers inverse.
LEMMA NextInv == DictionaryInv /\ [DictionaryNext]_dictionaryVars => DictionaryInv'
<1> SUFFICES ASSUME DictionaryInv, [DictionaryNext]_dictionaryVars PROVE DictionaryInv'
    OBVIOUS
<1>1. CASE \E s \in Strings : Issue(s) \/ Forget(s)
    BY <1>1, IssueInv, ForgetInv
<1>2. CASE Release
    BY <1>2 DEF Release, DictionaryInv, DictionaryTypeOK, Consistent, Num
<1>3. CASE UNCHANGED dictionaryVars
    BY <1>3 DEF dictionaryVars, DictionaryInv, DictionaryTypeOK, Consistent, Num
<1> QED BY <1>1, <1>2, <1>3 DEF DictionaryNext

\* Strings that are the names of their numbers have different numbers.
LEMMA InvDistinct == DictionaryInv => Distinct
BY DEF DictionaryInv, Consistent, Distinct

\* A step adds to names and numbers, or releases the dictionary.
LEMMA StepRemembers == DictionaryInv /\ [DictionaryNext]_dictionaryVars => Remembers
<1> SUFFICES ASSUME DictionaryInv, [DictionaryNext]_dictionaryVars PROVE Remembers
    OBVIOUS
<1>1. names \in Seq(Strings) /\ Len(names) \in Nat /\ Num = Len(names)
    BY DEF DictionaryInv, DictionaryTypeOK, Num
<1>2. ASSUME NEW s \in Strings, Issue(s) \/ Forget(s) PROVE Remembers
    <2>1. /\ Len(names') = Len(names) + 1
          /\ \A n \in 1..Len(names) : names'[n] = names[n]
        BY <1>1, <1>2 DEF Issue, Forget
    <2>2. \A r \in DOMAIN numbers : r \in DOMAIN numbers' /\ numbers'[r] = numbers[r]
        BY <1>2 DEF Issue, Forget
    <2> QED BY <1>1, <2>1, <2>2 DEF Remembers
<1>3. CASE Release
    BY <1>3 DEF Release, Remembers
<1>4. CASE UNCHANGED dictionaryVars
    BY <1>1, <1>4 DEF dictionaryVars, Remembers
<1> QED BY <1>2, <1>3, <1>4 DEF DictionaryNext

\* In every reachable state names and numbers are inverse to each other on the
\* strings that are known, and these have different numbers (quark_get(),
\* quark_to_string()).
THEOREM NumbersAreNames == DictionarySpec => [](DictionaryInv /\ Distinct)
<1>1. DictionarySpec => []DictionaryInv
    BY InitInv, NextInv, PTL DEF DictionarySpec
<1> QED BY <1>1, InvDistinct, PTL

\* A number once given is the number of its string for as long as the
\* dictionary lives, also when it runs out of memory (quark_get()).
THEOREM NumbersStay == DictionarySpec => [][Remembers]_dictionaryVars
<1>1. DictionarySpec => []DictionaryInv
    BY InitInv, NextInv, PTL DEF DictionarySpec
<1> QED BY <1>1, StepRemembers, PTL DEF DictionarySpec
===============================================================================
