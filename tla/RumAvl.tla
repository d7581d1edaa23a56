-------------------------------- MODULE RumAvl --------------------------------
(***************************************************************************)
(* The threaded AVL tree of rumavl.c. A node is named by the key of its    *)
(* record. link[0] and link[1] lead to the children, or, where thread is   *)
(* not 0, to the neighbour in key order (1) or, at the two ends of the     *)
(* order, to the other end (2). balance is the height of the right subtree *)
(* less that of the left one.                                              *)
(*                                                                         *)
(* A RUMAVL_NODE ** is a place: << >> for the tree's root, <<n, ln>> for a *)
(* link of node n. The stack of a descent is a sequence of [place, dir],   *)
(* the last entry at the end.                                              *)
(***************************************************************************)
EXTENDS Integers, Sequences, FiniteSets, SequencesExt

CONSTANTS
    Keys,       \* what a record is found by, integers in the order of cmp()
    CharSigned, \* whether char is signed: it is on x86, not on ARM
    MaxRounds,  \* bound on the rounds of balancing one node
    Null

Empty == [root |-> Null, node |-> << >>, spins |-> FALSE]

-----------------------------------------------------------------------------
(* Links, directions and places *)

LinkNo(dir) == (dir + 1) \div 2
Other(ln) == 1 - ln
Nodes(t) == DOMAIN t.node

At(t, place) == IF place = << >> THEN t.root ELSE t.node[place[1]].link[place[2]]
Put(t, place, n) ==
    IF place = << >> THEN [t EXCEPT !.root = n]
    ELSE [t EXCEPT !.node[place[1]].link[place[2]] = n]

Link(t, n, ln, to, thread) ==
    [t EXCEPT !.node[n].link[ln] = to, !.node[n].thread[ln] = thread]

\* A thread to the other end of the order leads back as well.
LinkBack(t, n, ln) ==
    IF t.node[n].thread[ln] = 2
    THEN [t EXCEPT !.node[t.node[n].link[ln]].link[Other(ln)] = n] ELSE t

Without(t, n) == [t EXCEPT !.node = [k \in Nodes(t) \ {n} |-> t.node[k]]]

\* The node that is reached from n by links of side ln that are no threads.
Furthest(t, n, ln) ==
    LET walk[i \in 0..Cardinality(Nodes(t))] ==
            IF i = 0 THEN n
            ELSE LET m == walk[i - 1]
                 IN IF t.node[m].thread[ln] = 0 THEN t.node[m].link[ln] ELSE m
    IN walk[Cardinality(Nodes(t))]

\* Mutant of SeqNext: the child, not the neighbour.
SeqChild(t, n, ln) == IF t.node[n].thread[ln] = 2 THEN Null ELSE t.node[n].link[ln]

\* seq_next()
SeqNext(t, n, ln) ==
    CASE t.node[n].thread[ln] = 2 -> Null
      [] t.node[n].thread[ln] = 1 -> t.node[n].link[ln]
      [] OTHER -> Furthest(t, t.node[n].link[ln], Other(ln))

\* rec_cmp() of the key sought with a node's
Cmp(k, n) == IF k < n THEN -1 ELSE IF k > n THEN 1 ELSE 0

\* The places from the root to the key, or to the node it would hang on.
Descent(t, k) ==
    LET walk[i \in 0..Cardinality(Nodes(t))] ==
            IF i = 0 THEN << << >> >>
            ELSE LET places == walk[i - 1]
                     n == At(t, Last(places))
                     ln == LinkNo(Cmp(k, n))
                 IN IF n = k \/ t.node[n].thread[ln] > 0 THEN places
                    ELSE Append(places, <<n, ln>>)
    IN walk[Cardinality(Nodes(t))]

Stack(t, k, places) ==
    [i \in DOMAIN places |-> [place |-> places[i], dir |-> Cmp(k, At(t, places[i]))]]

-----------------------------------------------------------------------------
(* Rotation. Results are [tree, diff]: the tree and the change in height.  *)

\* rotate() makes the child on the other side of dir the root at a place. How
\* heavy the old root is there, and how heavy the new one, changes the height.
RotateDiff(a, b, dir) ==
    LET heavy == -dir * a
    IN IF heavy > 1 /\ dir * b < 0 THEN -1
       ELSE IF heavy > 0 THEN 0 ELSE 1

\* The balance factors after the rotation, of the old and the new root
RotatedBalances(a, b, dir) ==
    LET heavy == -dir * a > 0
        old == IF -dir * b > 0 THEN a - b + dir ELSE a + dir
    IN [old |-> old,
        new |-> IF heavy /\ ~ (-dir * b > 0 /\ old * dir > 0) THEN b + dir
                ELSE b + dir + old]

Rotate(t, place, dir) ==
    LET n == At(t, place)
        ln == Other(LinkNo(dir))
        m == t.node[n].link[ln]
        inner == t.node[m].link[Other(ln)]
        new == RotatedBalances(t.node[n].balance, t.node[m].balance, dir)
        t1 == Put(t, place, m)
        t2 == IF t.node[m].thread[Other(ln)] > 0 THEN Link(t1, n, ln, m, 1)
                                                 ELSE Link(t1, n, ln, inner, 0)
        t3 == Link(t2, m, Other(ln), n, 0)
    IN IF t.node[n].thread[ln] > 0 THEN [tree |-> t, diff |-> 0]
       ELSE [tree |-> [t3 EXCEPT !.node[n].balance = new.old, !.node[m].balance = new.new],
             diff |-> RotateDiff(t.node[n].balance, t.node[m].balance, dir)]

\* Mutant of InnerHeavy: a single rotation always.
NeverInner(balance, dir) == FALSE

\* "balance == (char) dir": where char is unsigned, (char) -1 is 255.
InnerHeavy(balance, dir) == balance = dir /\ (CharSigned \/ dir = 1)

\* balance(): rotate, or rotate twice if the inner grandchild is the heavier
Balance(t, place, dir) ==
    LET n == At(t, place)
        ln == Other(LinkNo(dir))
        c == t.node[n].link[ln]
        first == IF InnerHeavy(t.node[c].balance, dir) /\ t.node[c].thread[Other(ln)] = 0
                 THEN Rotate(t, <<n, ln>>, -dir) ELSE [tree |-> t, diff |-> 0]
        second == Rotate(first.tree, place, dir)
    IN IF t.node[n].thread[ln] > 0 THEN [tree |-> t, diff |-> 0]
       ELSE [tree |-> second.tree, diff |-> first.diff + second.diff]

\* The loop that balances a place until its factor is at most one; the tree
\* spins if it is not after MaxRounds.
BalanceOut(t, diff, place) ==
    LET factor(tree) == tree.node[At(tree, place)].balance
        rounds[i \in 0..MaxRounds] ==
            IF i = 0 THEN [tree |-> t, diff |-> diff]
            ELSE LET r == rounds[i - 1]
                     b == Balance(r.tree, place, IF factor(r.tree) > 1 THEN -1 ELSE 1)
                 IN IF factor(r.tree) \in -1..1 THEN r
                    ELSE [tree |-> b.tree, diff |-> r.diff + b.diff]
        last == rounds[MaxRounds]
    IN IF factor(last.tree) \in -1..1 THEN last
       ELSE [last EXCEPT !.tree.spins = TRUE, !.diff = 0]

\* What a change of the height below, on side dir, does to the height here;
\* ob and nb are the balance factors before and after.
HeightDiff(diff, dir, ob, nb) ==
    LET old == dir * ob     \* counted from the changed side
        new == dir * nb
    IN IF diff < 0 THEN IF old > 0 THEN (IF new < 0 THEN 0 ELSE new) - old ELSE 0
       ELSE IF new > 0 THEN new - (IF old < 0 THEN 0 ELSE old) ELSE 0

\* stack_update(): from the place that changed up, until the height stays
StackUpdate(t, stack, by) ==
    FoldRight(LAMBDA e, r :
        IF r.diff = 0 THEN r
        ELSE LET n == At(r.tree, e.place)
                 ob == r.tree.node[n].balance
                 nb == ob + r.diff * e.dir
             IN BalanceOut([r.tree EXCEPT !.node[n].balance = nb],
                           HeightDiff(r.diff, e.dir, ob, nb), e.place),
        stack, [tree |-> t, diff |-> by]).tree

-----------------------------------------------------------------------------
(* The operations on a tree *)

NewNode(left, right, thread) ==
    [link |-> [ln \in 0..1 |-> IF ln = 0 THEN left ELSE right],
     thread |-> [ln \in 0..1 |-> thread], balance |-> 0]

\* rumavl_set() of a key that is not there
Insert(t, k) ==
    LET places == Descent(t, k)
        stack == Stack(t, k, places)
        n == At(t, Last(places))
        ln == LinkNo(Last(stack).dir)
        t1 == [t EXCEPT !.node = [j \in Nodes(t) \cup {k} |->
                  IF j = k THEN NewNode(n, n, 1) ELSE t.node[j]]]
        t2 == LinkBack(Link(t1, k, ln, t.node[n].link[ln], t.node[n].thread[ln]), k, ln)
    IN IF t.root = Null
       THEN [t EXCEPT !.root = k, !.node = [j \in {k} |-> NewNode(k, k, 2)]]
       ELSE StackUpdate(Link(t2, n, ln, k, 0), stack, 1)

\* rumavl_find()
Find(t, k) ==
    IF t.root = Null THEN Null
    ELSE LET n == At(t, Last(Descent(t, k))) IN IF n = k THEN n ELSE Null

\* A leaf goes: its parent, if any, takes over the thread.
PruneLeaf(t, n, above) ==
    LET q == At(t, Last(above).place)
        ln == LinkNo(Last(above).dir)
    IN IF above = << >> THEN [t EXCEPT !.root = Null]
       ELSE LinkBack(Link(t, q, ln, t.node[n].link[ln], t.node[n].thread[ln]), q, ln)

\* The only child, on the other side of ln, takes the place; the end of its
\* side ln takes over the thread.
PruneSemiLeaf(t, n, place, ln) ==
    LET c == t.node[n].link[Other(ln)]
        m == Furthest(t, c, ln)
    IN LinkBack(Link(Put(t, place, c), m, ln, t.node[n].link[ln], t.node[n].thread[ln]), m, ln)

\* The places from the heavier child of n, on side out, to the innermost node below it
InnerPlaces(t, n, out) ==
    LET ln == Other(out)
        walk[i \in 0..Cardinality(Nodes(t))] ==
            IF i = 0 THEN << <<n, out>> >>
            ELSE LET m == At(t, Last(walk[i - 1]))
                 IN IF t.node[m].thread[ln] = 0 THEN Append(walk[i - 1], <<m, ln>>)
                    ELSE walk[i - 1]
    IN walk[Cardinality(Nodes(t))]

\* Mutant of Detached: the parent keeps a link to the node that moved up.
StillLinked(t, parent, rep, ln) == t

\* The innermost node leaves its parent: its only child, or a thread, stays.
Detached(t, parent, rep, ln) ==
    IF t.node[rep].thread[Other(ln)] = 0
    THEN [t EXCEPT !.node[parent].link[ln] = t.node[rep].link[Other(ln)]]
    ELSE [t EXCEPT !.node[parent].thread[ln] = 1]

\* A node with two children is replaced by the innermost node of its heavier side.
Replace(t, n, place, above) ==
    LET outdir == IF t.node[n].balance > 0 THEN 1 ELSE -1
        out == LinkNo(outdir)
        ln == Other(out)
        inner == InnerPlaces(t, n, out)
        rep == At(t, Last(inner))
        near == Len(inner) = 1
        t1 == IF near THEN Link(t, rep, ln, t.node[n].link[ln], t.node[n].thread[ln])
              ELSE LET d == Detached(t, Last(inner)[1], rep, ln)
                   IN [d EXCEPT !.node[rep].link = d.node[n].link, !.node[rep].thread = d.node[n].thread]
        t2 == Put([t1 EXCEPT !.node[rep].balance = t.node[n].balance], place, rep)
        stack == Append(above, [place |-> place, dir |-> outdir])
                 \o (IF near THEN << >>
                     ELSE [i \in 1..(Len(inner) - 1) |->
                              [place |-> IF i = 1 THEN <<rep, out>> ELSE inner[i],
                               dir |-> -outdir]])
        \* the thread of the neighbour on the lighter side led to n
        end == SeqNext(t2, rep, ln)
    IN StackUpdate([t2 EXCEPT !.node[end].link[out] = rep], stack, -1)

\* rumavl_delete() of a key that is there
Delete(t, k) ==
    LET places == Descent(t, k)
        place == Last(places)
        above == Front(Stack(t, k, places))
        thread == t.node[k].thread
    IN Without(
        CASE thread[0] > 0 /\ thread[1] > 0 -> StackUpdate(PruneLeaf(t, k, above), above, -1)
          [] thread[0] > 0 /\ thread[1] = 0 -> StackUpdate(PruneSemiLeaf(t, k, place, 0), above, -1)
          [] thread[0] = 0 /\ thread[1] > 0 -> StackUpdate(PruneSemiLeaf(t, k, place, 1), above, -1)
          [] OTHER -> Replace(t, k, place, above), k)

\* rumavl_node_next() from no node and then from each: the keys in order
Sequence(t, ln) ==
    LET walk[i \in 0..Cardinality(Nodes(t))] ==
            IF i = 0 THEN << >>
            ELSE LET s == walk[i - 1]
                     n == IF s = << >> THEN Furthest(t, t.root, Other(ln))
                                       ELSE SeqNext(t, Last(s), ln)
                 IN IF Len(s) < i - 1 \/ n = Null THEN s ELSE Append(s, n)
    IN IF t.root = Null THEN << >> ELSE walk[Cardinality(Nodes(t))]
=============================================================================
