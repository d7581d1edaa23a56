--------------------------- MODULE NameParserProofs ---------------------------
(***************************************************************************)
(* NameParser, for every alphabet, corpus, set of names and number of      *)
(* failures: what a failed call of a backend leaves behind; that a token   *)
(* is a token again; that the columns have every token of the name; that   *)
(* an item has the features that training would give its token.            *)
(***************************************************************************)
EXTENDS NameParser, Foundations

\* What a call may hold outside of its memory depends on how far it is: one
\* feature set between create_feature_set() and free_feature_set(), the
\* instance from the first item to the result, a tagger during prediction.
MayHold ==
    /\ pc \in {"training", "idle", "item", "features", "predict", "tagging", "result", "columns"}
    /\ pc \in {"training", "idle", "columns"} => held = {}
    /\ pc \in {"item", "predict", "result"} => held \subseteq {"instance"}
    /\ pc = "features" => held \subseteq {"features", "instance"}
    /\ pc = "tagging" => held \subseteq {"instance", "tagger"}

\* Failed calls are counted one by one, and so is what each of them leaves.
Counted ==
    /\ errors \in Nat
    /\ DOMAIN kept = Objects
    /\ \A o \in Objects : kept[o] \in Nat /\ kept[o] <= errors

LeakInv == MayHold /\ Counted

LEMMA LeakInvInit == Init => LeakInv
  <1> SUFFICES ASSUME Init PROVE LeakInv
    OBVIOUS
  <1>1. MayHold
    BY DEF Init, MayHold
  <1>2. Counted
    BY DEF Init, Counted, NothingKept
  <1> QED BY <1>1, <1>2 DEF LeakInv

\* A failure adds at most one object of each kind, and one to the failures.
LEMMA FailureKeepsCount == Counted /\ OutOfMemory => Counted'
  <1> SUFFICES ASSUME Counted, OutOfMemory PROVE Counted'
    OBVIOUS
  <1>1. errors \in Nat /\ errors' = errors + 1
    BY DEF Counted, OutOfMemory
  <1>2. kept' = [o \in Objects |-> kept[o] + (IF o \in held THEN 1 ELSE 0)]
    BY DEF OutOfMemory
  <1>3. ASSUME NEW o \in Objects PROVE kept'[o] \in Nat /\ kept'[o] <= errors'
    <2>1. kept'[o] = kept[o] + (IF o \in held THEN 1 ELSE 0)
      BY <1>2
    <2>2. kept[o] \in Nat /\ kept[o] <= errors
      BY DEF Counted
    <2> QED BY <2>1, <2>2, <1>1
  <1>4. DOMAIN kept' = Objects
    BY <1>2
  <1> QED BY <1>1, <1>3, <1>4 DEF Counted

\* Every step of a call hands over or frees what it holds.
LEMMA StepKeepsMayHold == MayHold /\ Next => MayHold'
  <1> SUFFICES ASSUME MayHold, Next PROVE MayHold'
    OBVIOUS
  <1>1. CASE Convert
    BY <1>1 DEF MayHold, Convert
  <1>2. CASE Train
    BY <1>2 DEF MayHold, Train
  <1>3. ASSUME NEW words \in Names, Call(words) PROVE MayHold'
    BY <1>3 DEF MayHold, Call
  <1>4. CASE CreateFeatureSet
    BY <1>4 DEF MayHold, CreateFeatureSet
  <1>5. CASE ExtractFeatures
    <2>1. pc' \in {"predict", "item"}
      BY <1>5 DEF ExtractFeatures
    <2>2. held' = (held \ {"features"}) \cup {"instance"}
      BY <1>5 DEF ExtractFeatures, SetFreed
    <2>3. held \subseteq {"features", "instance"}
      BY <1>5 DEF ExtractFeatures, MayHold
    <2> QED BY <2>1, <2>2, <2>3 DEF MayHold
  <1>6. CASE GetTagger
    BY <1>6 DEF MayHold, GetTagger
  <1>7. CASE Predict
    BY <1>7 DEF MayHold, Predict
  <1>8. CASE MakeResult
    BY <1>8 DEF MayHold, MakeResult
  <1>9. CASE ToColumns
    BY <1>9 DEF MayHold, ToColumns
  <1>10. CASE OutOfMemory
    BY <1>10 DEF MayHold, OutOfMemory
  <1> QED BY <1>1, <1>2, <1>3, <1>4, <1>5, <1>6, <1>7, <1>8, <1>9, <1>10 DEF Next

LEMMA StepKeepsCounted == Counted /\ Next => Counted'
  <1> SUFFICES ASSUME Counted, Next, ~OutOfMemory PROVE Counted'
    BY FailureKeepsCount
  <1>1. UNCHANGED <<kept, errors>>
    <2>1. CASE Convert
      BY <2>1 DEF Convert
    <2>2. CASE Train
      BY <2>2 DEF Train
    <2>3. ASSUME NEW words \in Names, Call(words) PROVE UNCHANGED <<kept, errors>>
      BY <2>3 DEF Call
    <2>4. CASE CreateFeatureSet \/ ExtractFeatures \/ GetTagger
      BY <2>4 DEF CreateFeatureSet, ExtractFeatures, GetTagger
    <2>5. CASE Predict \/ MakeResult \/ ToColumns
      BY <2>5 DEF Predict, MakeResult, ToColumns
    <2> QED BY <2>1, <2>2, <2>3, <2>4, <2>5 DEF Next
  <1> QED BY <1>1 DEF Counted

LEMMA StepKeepsLeakInv == LeakInv /\ [Next]_vars => LeakInv'
  <1> SUFFICES ASSUME LeakInv, [Next]_vars PROVE LeakInv'
    OBVIOUS
  <1>1. CASE Next
    BY <1>1, StepKeepsMayHold, StepKeepsCounted DEF LeakInv
  <1>2. CASE UNCHANGED vars
    BY <1>2 DEF LeakInv, MayHold, Counted, vars
  <1> QED BY <1>1, <1>2

\* What is held depends on the place in the call alone, and what was left
\* behind is bounded by the calls that failed (parse_name_string(),
\* predict_sequence()).
THEOREM LeakInvariant == Spec => []LeakInv
  <1> QED BY LeakInvInit, StepKeepsLeakInv, PTL DEF Spec

\* Calls that return leave nothing outside of their memory; one that fails
\* leaves at most one feature set, one instance and one tagger, for every
\* corpus, every name and without a bound on the failures.
THEOREM OneOfEachPerErrorAlways == Spec => []OneOfEachPerError
  <1>1. LeakInv => OneOfEachPerError
    BY DEF LeakInv, MayHold, Counted, OneOfEachPerError
  <1> QED BY <1>1, LeakInvariant, PTL

-----------------------------------------------------------------------------
(* What the loop of Among keeps *)

\* g[k] is what is kept of the first k.
Keeps(g, s, S, U) ==
    /\ g \in [0..Len(s) -> Seq(U)]
    /\ g[0] = << >>
    /\ \A k \in 1..Len(s) : g[k] = IF s[k] \in S THEN Append(g[k - 1], s[k]) ELSE g[k - 1]

LEMMA AmongFollows ==
  ASSUME NEW U, NEW s \in Seq(U), NEW S
  PROVE  \E g : Keeps(g, s, S, U) /\ Among(s, S) = g[Len(s)]
  <1> DEFINE n == Len(s)
             R == Seq(U)
             Op(got, x) == IF x \in S THEN Append(got, x) ELSE got
             step == [p \in (1..n) \X R |-> Op(p[2], s[p[1]])]
             Body(iter) == [t \in SUBSET DOMAIN s |->
                              IF t = {} THEN << >> ELSE Op(iter[t \ {Max(t)}], s[Max(t)])]
             it == CHOOSE iter : iter = Body(iter)
  <1>1. n \in Nat /\ DOMAIN s = 1..n /\ << >> \in R
    OBVIOUS
  <1>2. step \in Steps(n, R) /\ \A k \in 1..n, r \in R : step[<<k, r>>] = Op(r, s[k])
    BY DEF Steps
  <1>3. Among(s, S) = it[DOMAIN s]
    BY DEF Among, FoldLeft, MapThenFoldSet
  <1> HIDE DEF n, R, step, Op
  <1>4. PICK F : LeftFolds(F, n, R, << >>, step)
    BY <1>1, <1>2, LeftFoldsExist
  <1>5. F = Body(F)
    <2>1. /\ F = [t \in SUBSET (1..n) |-> F[t]] /\ F[{}] = << >>
          /\ \A t \in SUBSET (1..n) : F[t] \in R
      BY <1>4 DEF LeftFolds
    <2>2. \A t \in SUBSET (1..n) : t # {} => F[t] = Op(F[t \ {Max(t)}], s[Max(t)])
      BY <1>2, <1>4, <2>1 DEF LeftFolds
    <2> QED BY <1>1, <2>1, <2>2
  <1>6. it = Body(it)
    <2> HIDE DEF Body
    <2> QED BY <1>5
  <1> HIDE DEF it
  <1>7. /\ it[{}] = << >>
        /\ \A t \in SUBSET (1..n) : t # {} => it[t] = Op(it[t \ {Max(t)}], s[Max(t)])
    BY <1>1, <1>6
  <1>8. \A t \in SUBSET (1..n) : t # {} /\ it[t \ {Max(t)}] \in R =>
            it[t] = step[<<Max(t), it[t \ {Max(t)}]>>]
    BY <1>2, <1>4, <1>7 DEF LeftFolds
  <1> DEFINE g == [k \in 0..n |-> it[1..k]]
  <1>9. Follows(g, n, R, << >>, step)
    BY <1>1, <1>2, <1>7, <1>8, LeftFoldIs
  <1>10. g[n] = it[1..n]
    BY <1>1
  <1> HIDE DEF g
  <1>11. \A k \in 1..n : g[k] = Op(g[k - 1], s[k])
    <2>1. \A k \in 1..n : k - 1 \in 0..n /\ g[k - 1] \in R /\ g[k] = step[<<k, g[k - 1]>>]
      BY <1>1, <1>9 DEF Follows
    <2> QED BY <1>2, <2>1
  <1>12. Keeps(g, s, S, U)
    <2>1. g \in [0..n -> R] /\ g[0] = << >>
      BY <1>9 DEF Follows
    <2>2. \A k \in 1..n : g[k] = IF s[k] \in S THEN Append(g[k - 1], s[k]) ELSE g[k - 1]
      BY <1>11 DEF Op
    <2>3. g \in [0..Len(s) -> Seq(U)]
      BY <2>1 DEF n, R
    <2>4. \A k \in 1..Len(s) :
            g[k] = IF s[k] \in S THEN Append(g[k - 1], s[k]) ELSE g[k - 1]
      BY <2>2 DEF n
    <2> QED BY <2>1, <2>3, <2>4 DEF Keeps
  <1> QED BY <1>1, <1>3, <1>10, <1>12 DEF n

\* What is kept is in order: place i of it is place f[i] of s.
Selects(r, f, s, S, m) ==
    /\ f \in [1..Len(r) -> 1..m]
    /\ \A i, j \in 1..Len(r) : i < j => f[i] < f[j]
    /\ \A i \in 1..Len(r) : r[i] = s[f[i]] /\ r[i] \in S
    /\ \A k \in 1..m : s[k] \in S => \E i \in 1..Len(r) : f[i] = k

LEMMA SelectsMore ==
  ASSUME NEW U, NEW s, NEW S, NEW k \in Nat, NEW r \in Seq(U), NEW f,
         Selects(r, f, s, S, k), s[k + 1] \in S, s[k + 1] \in U
  PROVE  \E e : Selects(Append(r, s[k + 1]), e, s, S, k + 1)
  <1>1. PICK l \in Nat : l = Len(r)
    OBVIOUS
  <1>2. PICK q : q = Append(r, s[k + 1])
    OBVIOUS
  <1>3. Len(q) = l + 1 /\ q[l + 1] = s[k + 1] /\ \A i \in 1..l : q[i] = r[i]
    BY <1>1, <1>2
  <1>4. /\ f \in [1..l -> 1..k]
        /\ \A i, j \in 1..l : i < j => f[i] < f[j]
        /\ \A i \in 1..l : r[i] = s[f[i]] /\ r[i] \in S
        /\ \A c \in 1..k : s[c] \in S => \E i \in 1..l : f[i] = c
    BY <1>1 DEF Selects
  <1>5. PICK e : e = [i \in 1..(l + 1) |-> IF i <= l THEN f[i] ELSE k + 1]
    OBVIOUS
  <1>6. /\ \A i \in 1..l : e[i] = f[i] /\ e[i] \in 1..k
        /\ e[l + 1] = k + 1
    BY <1>1, <1>4, <1>5
  <1>7. /\ e \in [1..(l + 1) -> 1..(k + 1)]
        /\ \A i \in 1..(l + 1) : i \in 1..l \/ i = l + 1
    BY <1>4, <1>5
  <1>8. ASSUME NEW i \in 1..(l + 1), NEW j \in 1..(l + 1), i < j PROVE e[i] < e[j]
    <2>1. i \in 1..l
      BY <1>8
    <2>2. CASE j \in 1..l
      BY <1>4, <1>6, <1>8, <2>1, <2>2
    <2>3. CASE j = l + 1
      BY <1>6, <2>1, <2>3
    <2> QED BY <1>7, <2>2, <2>3
  <1>9. ASSUME NEW i \in 1..(l + 1) PROVE q[i] = s[e[i]] /\ q[i] \in S
    <2>1. CASE i \in 1..l
      BY <1>3, <1>4, <1>6, <2>1
    <2>2. CASE i = l + 1
      BY <1>3, <1>6, <2>2
    <2> QED BY <1>7, <2>1, <2>2
  <1>10. ASSUME NEW c \in 1..(k + 1), s[c] \in S PROVE \E i \in 1..(l + 1) : e[i] = c
    <2>1. CASE c \in 1..k
      <3>1. PICK i \in 1..l : f[i] = c
        BY <1>4, <1>10, <2>1
      <3> QED BY <1>6, <3>1
    <2>2. CASE c = k + 1
      <3>1. l + 1 \in 1..(l + 1)
        OBVIOUS
      <3> QED BY <1>6, <2>2, <3>1
    <2> QED BY <2>1, <2>2
  <1>11. Selects(q, e, s, S, k + 1)
    BY <1>3, <1>7, <1>8, <1>9, <1>10 DEF Selects
  <1> QED BY <1>2, <1>11

LEMMA AmongSelects ==
  ASSUME NEW U, NEW s \in Seq(U), NEW S
  PROVE  /\ Among(s, S) \in Seq(U)
         /\ \E f : Selects(Among(s, S), f, s, S, Len(s))
  <1>1. PICK g : Keeps(g, s, S, U) /\ Among(s, S) = g[Len(s)]
    BY AmongFollows
  <1>2. PICK n \in Nat : n = Len(s)
    OBVIOUS
  <1> DEFINE P == {k \in Nat : k <= n => \E f : Selects(g[k], f, s, S, k)}
  <1>3. 0 \in P
    <2>1. Len(g[0]) = 0
      BY <1>1 DEF Keeps
    <2>2. Selects(g[0], [i \in 1..0 |-> 0], s, S, 0)
      BY <2>1 DEF Selects
    <2> QED BY <2>2
  <1>4. ASSUME NEW k \in Nat, k \in P PROVE k + 1 \in P
    <2> SUFFICES ASSUME k + 1 <= n PROVE \E f : Selects(g[k + 1], f, s, S, k + 1)
      OBVIOUS
    <2>1. PICK f : Selects(g[k], f, s, S, k)
      BY <1>4
    <2>2. /\ k + 1 \in 1..n /\ k \in 0..n /\ (k + 1) - 1 = k
          /\ g[k] \in Seq(U) /\ s[k + 1] \in U
      BY <1>1, <1>2 DEF Keeps
    <2>3. g[k + 1] = IF s[k + 1] \in S THEN Append(g[k], s[k + 1]) ELSE g[k]
      BY <1>1, <1>2, <2>2 DEF Keeps
    <2>4. CASE s[k + 1] \notin S
      <3>1. g[k + 1] = g[k]
        BY <2>3, <2>4
      <3>2. Selects(g[k], f, s, S, k + 1)
        BY <2>1, <2>4 DEF Selects
      <3> QED BY <3>1, <3>2
    <2>5. CASE s[k + 1] \in S
      <3>1. PICK r : r = g[k] /\ r \in Seq(U) /\ Selects(r, f, s, S, k)
        BY <2>1, <2>2
      <3>2. PICK e : Selects(Append(r, s[k + 1]), e, s, S, k + 1)
        BY <1>2, <2>2, <2>5, <3>1, SelectsMore
      <3> QED BY <2>3, <2>5, <3>1, <3>2
    <2> QED BY <2>4, <2>5
  <1>5. Nat \subseteq P
    <2> HIDE DEF P
    <2> QED BY <1>3, <1>4, Induction
  <1>6. \E f : Selects(g[n], f, s, S, n)
    BY <1>2, <1>5
  <1> QED BY <1>1, <1>2, <1>6 DEF Keeps

\* Nothing is skipped where everything is in S.
LEMMA AmongAll ==
  ASSUME NEW U, NEW s \in Seq(U), NEW S, \A k \in 1..Len(s) : s[k] \in S
  PROVE  Among(s, S) = s
  <1>1. PICK g : Keeps(g, s, S, U) /\ Among(s, S) = g[Len(s)]
    BY AmongFollows
  <1>2. PICK n \in Nat : n = Len(s)
    OBVIOUS
  <1> DEFINE P == {k \in Nat : k <= n => /\ Len(g[k]) = k
                                         /\ \A i \in 1..k : g[k][i] = s[i]}
  <1>3. 0 \in P
    BY <1>1 DEF Keeps
  <1>4. ASSUME NEW k \in Nat, k \in P PROVE k + 1 \in P
    <2> SUFFICES ASSUME k + 1 <= n
                 PROVE  Len(g[k + 1]) = k + 1 /\ \A i \in 1..(k + 1) : g[k + 1][i] = s[i]
      OBVIOUS
    <2>1. /\ k + 1 \in 1..n /\ k \in 0..n /\ (k + 1) - 1 = k
          /\ g[k] \in Seq(U) /\ s[k + 1] \in U
      BY <1>1, <1>2 DEF Keeps
    <2>2. g[k + 1] = Append(g[k], s[k + 1])
      BY <1>1, <1>2, <2>1 DEF Keeps
    <2>3. Len(g[k]) = k /\ \A i \in 1..k : g[k][i] = s[i]
      BY <1>4, <2>1
    <2> QED BY <2>1, <2>2, <2>3
  <1>5. Nat \subseteq P
    <2> HIDE DEF P
    <2> QED BY <1>3, <1>4, Induction
  <1>6. /\ g[n] \in Seq(U) /\ Len(g[n]) = n
        /\ \A i \in 1..n : g[n][i] = s[i]
    BY <1>1, <1>2, <1>5 DEF Keeps
  <1> QED BY <1>1, <1>2, <1>6

-----------------------------------------------------------------------------
(* The tokenizer *)

CleanedTo(w, n) ==
    /\ n \in 0..Len(w)
    /\ Clean(w) = SubSeq(w, 1, n)
    /\ StopsAt(w, n)
    /\ \A m \in (n + 1)..Len(w) : ~StopsAt(w, m)

\* A word is cut at the last place where the loop stops.
LEMMA CleanIs ==
  ASSUME NEW U, NEW w \in Seq(U)
  PROVE  \E n : CleanedTo(w, n)
  <1> DEFINE R == Seq(U)
             step == [p \in (1..Len(w)) \X R |->
                        IF StopsAt(w, p[1]) THEN SubSeq(w, 1, p[1]) ELSE p[2]]
             Body(r) == [n \in 0..Len(w) |->
                           IF StopsAt(w, n) THEN SubSeq(w, 1, n) ELSE r[n - 1]]
             rest == CHOOSE r : r = Body(r)
  <1>1. PICK l \in Nat : l = Len(w)
    OBVIOUS
  <1>2. /\ \A n \in 0..l : SubSeq(w, 1, n) \in R
        /\ << >> \in R /\ SubSeq(w, 1, 0) = << >>
    BY <1>1
  <1>3. /\ step \in Steps(l, R)
        /\ \A n \in 1..l, r \in R : step[<<n, r>>] = IF StopsAt(w, n) THEN SubSeq(w, 1, n) ELSE r
    <2>1. ASSUME NEW p \in (1..l) \X R
          PROVE  (IF StopsAt(w, p[1]) THEN SubSeq(w, 1, p[1]) ELSE p[2]) \in R
      BY <1>2
    <2> QED BY <1>1, <2>1 DEF Steps
  <1> HIDE DEF step, R
  <1>4. PICK f : Follows(f, l, R, << >>, step)
    BY <1>2, <1>3, Recursion
  <1>5. ASSUME NEW n \in 1..l
        PROVE  /\ n - 1 \in 0..l /\ f[n - 1] \in R
               /\ f[n] = IF StopsAt(w, n) THEN SubSeq(w, 1, n) ELSE f[n - 1]
    <2>1. n - 1 \in 0..l /\ f[n - 1] \in R
      BY <1>1, <1>4 DEF Follows
    <2>2. f[n] = step[<<n, f[n - 1]>>]
      BY <1>4 DEF Follows
    <2> QED BY <1>3, <2>1, <2>2
  <1>6. f = Body(f)
    <2>1. f = [n \in 0..l |-> f[n]] /\ f[0] = << >>
      BY <1>4 DEF Follows
    <2>2. \A n \in 0..l : f[n] = IF StopsAt(w, n) THEN SubSeq(w, 1, n) ELSE f[n - 1]
      <3>1. \A n \in 0..l : n = 0 \/ n \in 1..l
        BY <1>1
      <3> QED BY <1>2, <1>5, <2>1, <3>1 DEF StopsAt
    <2> QED BY <1>1, <2>1, <2>2 DEF StopsAt
  <1>7. rest = Body(rest) /\ Clean(w) = rest[l]
    <2>1. Clean(w) = rest[Len(w)]
      BY DEF Clean
    <2>2. Clean(w) = rest[l]
      BY <1>1, <2>1
    <2> HIDE DEF Body
    <2> QED BY <1>6, <2>2
  <1> HIDE DEF rest
  <1>8. \A n \in 0..l : rest[n] = IF StopsAt(w, n) THEN SubSeq(w, 1, n) ELSE rest[n - 1]
    BY <1>1, <1>7 DEF StopsAt
  <1> HIDE DEF Body
  <1> DEFINE P == {k \in Nat : k <= l => \E n \in 0..k : /\ rest[k] = SubSeq(w, 1, n)
                                                        /\ StopsAt(w, n)
                                                        /\ \A m \in (n + 1)..k : ~StopsAt(w, m)}
  <1>9. 0 \in P
    <2>1. StopsAt(w, 0) /\ 0 \in 0..l /\ 0 \in 0..0 /\ (0 + 1)..0 = {}
      BY <1>1 DEF StopsAt
    <2>2. rest[0] = SubSeq(w, 1, 0)
      BY <1>8, <2>1
    <2> QED BY <2>1, <2>2
  <1>10. ASSUME NEW k \in Nat, k \in P PROVE k + 1 \in P
    <2> SUFFICES ASSUME k + 1 <= l
                 PROVE  \E n \in 0..(k + 1) : /\ rest[k + 1] = SubSeq(w, 1, n)
                                              /\ StopsAt(w, n)
                                              /\ \A m \in (n + 1)..(k + 1) : ~StopsAt(w, m)
      OBVIOUS
    <2>1. k + 1 \in 0..l /\ (k + 1) - 1 = k /\ k <= l
      BY <1>1
    <2>2. rest[k + 1] = IF StopsAt(w, k + 1) THEN SubSeq(w, 1, k + 1) ELSE rest[k]
      BY <1>8, <2>1
    <2>3. CASE StopsAt(w, k + 1)
      <3>1. k + 1 \in 0..(k + 1) /\ ((k + 1) + 1)..(k + 1) = {}
        OBVIOUS
      <3> QED BY <2>2, <2>3, <3>1
    <2>4. CASE ~StopsAt(w, k + 1)
      <3>1. PICK n \in 0..k : /\ rest[k] = SubSeq(w, 1, n)
                              /\ StopsAt(w, n)
                              /\ \A m \in (n + 1)..k : ~StopsAt(w, m)
        BY <1>10, <2>1
      <3>2. n \in 0..(k + 1) /\ \A m \in (n + 1)..(k + 1) : m \in (n + 1)..k \/ m = k + 1
        OBVIOUS
      <3> QED BY <2>2, <2>4, <3>1, <3>2
    <2> QED BY <2>3, <2>4
  <1>11. Nat \subseteq P
    <2> HIDE DEF P
    <2> QED BY <1>9, <1>10, Induction
  <1>12. PICK n \in 0..l : /\ rest[l] = SubSeq(w, 1, n)
                           /\ StopsAt(w, n)
                           /\ \A m \in (n + 1)..l : ~StopsAt(w, m)
    BY <1>1, <1>11
  <1> QED BY <1>1, <1>7, <1>12 DEF CleanedTo

\* What is left of a word stays what it is.
LEMMA CleanAgain ==
  ASSUME NEW U, NEW w \in Seq(U)
  PROVE  Clean(w) \in Seq(U) /\ Clean(Clean(w)) = Clean(w)
  <1>1. PICK n : CleanedTo(w, n)
    BY CleanIs
  <1>2. PICK l \in Nat : l = Len(w)
    OBVIOUS
  <1>3. PICK v : v = SubSeq(w, 1, n)
    OBVIOUS
  <1>4. /\ n \in 0..l /\ v \in Seq(U) /\ Len(v) = n /\ Clean(w) = v
        /\ \A i \in 1..n : v[i] = w[i]
    BY <1>1, <1>2, <1>3 DEF CleanedTo
  <1>5. PICK m : CleanedTo(v, m)
    BY <1>4, CleanIs
  <1>6. SubSeq(v, 1, n) = v
    BY <1>4
  <1>7. StopsAt(v, n)
    <2>1. StopsAt(w, n)
      BY <1>1 DEF CleanedTo
    <2>2. n = 0 \/ v[n] = w[n]
      BY <1>2, <1>4
    <2> QED BY <1>3, <1>6, <2>1, <2>2 DEF StopsAt
  <1>8. m = n
    <2>1. m \in 0..n /\ \A k \in (m + 1)..n : ~StopsAt(v, k)
      BY <1>4, <1>5 DEF CleanedTo
    <2>2. m # n => n \in (m + 1)..n
      BY <1>2, <1>4, <2>1
    <2> QED BY <1>7, <2>1, <2>2
  <1> QED BY <1>4, <1>5, <1>6, <1>8 DEF CleanedTo

LEMMA TokenizeAgain ==
  ASSUME NEW U, NEW words \in Seq(Seq(U))
  PROVE  /\ Tokenize(words) \in Seq(Seq(U))
         /\ Tokenize(Tokenize(words)) = Tokenize(words)
         /\ \E f : /\ f \in [DOMAIN Tokenize(words) -> DOMAIN words]
                   /\ \A i, j \in DOMAIN Tokenize(words) : i < j => f[i] < f[j]
                   /\ \A i \in DOMAIN Tokenize(words) : Tokenize(words)[i] = Clean(words[f[i]])
                   /\ \A k \in DOMAIN words :
                        Clean(words[k]) = << >> \/ \E i \in DOMAIN Tokenize(words) : f[i] = k
  <1>1. PICK c : c = [i \in DOMAIN words |-> Clean(words[i])]
    OBVIOUS
  <1>2. PICK S : S = ToSet(c) \ {<< >>}
    OBVIOUS
  <1>3. PICK ts : ts = Among(c, S)
    OBVIOUS
  <1>4. Tokenize(words) = ts
    BY <1>1, <1>2, <1>3 DEF Tokenize
  <1>5. /\ c \in Seq(Seq(U)) /\ Len(c) = Len(words) /\ DOMAIN words = 1..Len(words)
        /\ \A i \in 1..Len(words) : words[i] \in Seq(U)
    <2>1. \A i \in DOMAIN words : words[i] \in Seq(U)
      OBVIOUS
    <2>2. \A i \in DOMAIN words : Clean(words[i]) \in Seq(U)
      BY <2>1, CleanAgain
    <2>3. DOMAIN words = 1..Len(words) /\ Len(words) \in Nat
      OBVIOUS
    <2>4. c \in [1..Len(words) -> Seq(U)]
      BY <1>1, <2>2, <2>3
    <2>5. PICK S1 : S1 = Seq(U)
      OBVIOUS
    <2>6. c \in Seq(S1) /\ Len(c) = Len(words)
      BY <2>3, <2>4, <2>5
    <2> QED BY <2>1, <2>3, <2>5, <2>6
  <1>6. ts \in Seq(Seq(U))
    BY <1>3, <1>5, AmongSelects
  <1>7. PICK f : Selects(ts, f, c, S, Len(c))
    BY <1>3, <1>5, AmongSelects
  <1>8. DOMAIN ts = 1..Len(ts)
    BY <1>6
  <1>9. /\ f \in [DOMAIN ts -> DOMAIN words]
        /\ \A i, j \in DOMAIN ts : i < j => f[i] < f[j]
        /\ \A i \in DOMAIN ts : ts[i] = c[f[i]] /\ ts[i] \in S
    BY <1>5, <1>7, <1>8 DEF Selects
  <1>10. \A i \in DOMAIN ts : /\ ts[i] = Clean(words[f[i]]) /\ ts[i] # << >>
                              /\ words[f[i]] \in Seq(U)
    BY <1>1, <1>2, <1>5, <1>9
  <1>11. \A i \in DOMAIN ts : Clean(ts[i]) = ts[i]
    BY <1>10, CleanAgain
  <1>12. Tokenize(ts) = ts
    <2>1. [i \in DOMAIN ts |-> Clean(ts[i])] = ts
      BY <1>6, <1>11
    <2>2. Tokenize(ts) = Among(ts, ToSet(ts) \ {<< >>})
      BY <2>1 DEF Tokenize
    <2>3. \A k \in 1..Len(ts) : ts[k] \in ToSet(ts) \ {<< >>}
      BY <1>8, <1>10 DEF ToSet
    <2>4. PICK T : T = ToSet(ts) \ {<< >>}
      OBVIOUS
    <2> QED BY <1>6, <2>2, <2>3, <2>4, AmongAll
  <1>13. ASSUME NEW k \in DOMAIN words, Clean(words[k]) # << >>
         PROVE  \E i \in DOMAIN ts : f[i] = k
    <2>1. k \in 1..Len(c) /\ c[k] \in S
      BY <1>1, <1>2, <1>5, <1>13 DEF ToSet
    <2> QED BY <1>7, <1>8, <2>1 DEF Selects
  <1> QED BY <1>4, <1>6, <1>9, <1>10, <1>12, <1>13

\* The tokens of a name are its words in order, each cut at the dots and commas
\* at its end as far as an abbreviation, and are their own tokens, for all words
\* over any alphabet and any set of abbreviations (tokenize_name_string()); a word that gives none is
\* nothing but dots and commas.
THEOREM TokensSettleAlways == Spec => []TokensSettle
  <1>1. ASSUME NEW w \in Seq(Chars)
        PROVE  IsPrefix(Clean(w), w) /\ MayCut(w, Len(Clean(w)))
    <2>1. PICK n : CleanedTo(w, n)
      BY CleanIs
    <2>2. PICK l \in Nat : l = Len(w)
      OBVIOUS
    <2>3. PICK v : v = SubSeq(w, 1, n)
      OBVIOUS
    <2>4. /\ n \in 0..l /\ Clean(w) = v /\ Len(v) = n /\ SubSeq(v, 1, n) = v
          /\ \A m \in (n + 1)..l : ~StopsAt(w, m)
      BY <2>1, <2>2, <2>3 DEF CleanedTo
    <2>5. IsPrefix(v, w)
      BY <2>2, <2>3, <2>4 DEF IsPrefix
    <2> QED BY <2>2, <2>4, <2>5 DEF StopsAt, MayCut
  <1>2. ASSUME NEW words \in Names
        PROVE  LET ts == Tokenize(words)
               IN /\ Tokenize(ts) = ts
                  /\ \E f \in [DOMAIN ts -> DOMAIN words] :
                       /\ \A i, j \in DOMAIN ts : i < j => f[i] < f[j]
                       /\ \A i \in DOMAIN ts : /\ IsPrefix(ts[i], words[f[i]])
                                               /\ MayCut(words[f[i]], Len(ts[i]))
                       /\ \A k \in DOMAIN words :
                            MayCut(words[k], 0) \/ \E i \in DOMAIN ts : f[i] = k
    <2>1. words \in Seq(Seq(Chars))
      BY NamesAssumption DEF NamesAssumption
    <2>2. PICK ts : ts = Tokenize(words)
      OBVIOUS
    <2>3. PICK f \in [DOMAIN ts -> DOMAIN words] :
            /\ \A i, j \in DOMAIN ts : i < j => f[i] < f[j]
            /\ \A i \in DOMAIN ts : ts[i] = Clean(words[f[i]])
            /\ \A k \in DOMAIN words : Clean(words[k]) = << >> \/ \E i \in DOMAIN ts : f[i] = k
      BY <2>1, <2>2, TokenizeAgain
    <2>4. Tokenize(ts) = ts
      BY <2>1, <2>2, TokenizeAgain
    <2>5. \A k \in DOMAIN words : words[k] \in Seq(Chars)
      BY <2>1
    <2>6. \A i \in DOMAIN ts : /\ IsPrefix(ts[i], words[f[i]])
                               /\ MayCut(words[f[i]], Len(ts[i]))
      BY <1>1, <2>3, <2>5
    <2>7. \A k \in DOMAIN words : MayCut(words[k], 0) \/ \E i \in DOMAIN ts : f[i] = k
      <3>1. Len(<< >>) = 0
        OBVIOUS
      <3> QED BY <1>1, <2>3, <2>5, <3>1
    <2> QED BY <2>2, <2>3, <2>4, <2>6, <2>7
  <1>3. TokensSettle
    BY <1>2 DEF TokensSettle
  <1> QED BY <1>3, PTL

-----------------------------------------------------------------------------
(* The columns *)

\* The tokens of r that belong in column c
InColumn(r, c) == {t \in ToSet(r) : ColumnOf(t.label) = c}

LEMMA FiveFinite ==
  ASSUME NEW a, NEW b, NEW c, NEW d, NEW e
  PROVE  IsFiniteSet({a, b, c, d, e})
  <1>1. IsFiniteSet({a} \cup {b})
    BY FS_Singleton, FS_AddElement
  <1>2. IsFiniteSet(({a} \cup {b}) \cup {c})
    BY <1>1, FS_AddElement
  <1>3. IsFiniteSet((({a} \cup {b}) \cup {c}) \cup {d})
    BY <1>2, FS_AddElement
  <1>4. IsFiniteSet(((({a} \cup {b}) \cup {c}) \cup {d}) \cup {e})
    BY <1>3, FS_AddElement
  <1>5. {a, b, c, d, e} = ((({a} \cup {b}) \cup {c}) \cup {d}) \cup {e}
    OBVIOUS
  <1> QED BY <1>4, <1>5

LEMMA ColumnsFinite == IsFiniteSet(Columns)
  <1>1. PICK S, T :
          /\ S = {"prefix", "given_name", "middle_name", "surname", "suffix"}
          /\ T = {"nickname", "corporation_name", "corporation_type", "organization", "other"}
    OBVIOUS
  <1>2. IsFiniteSet(S) /\ IsFiniteSet(T) /\ Columns = S \cup T
    BY <1>1, FiveFinite DEF Columns
  <1> QED BY <1>2, FS_Union

LEMMA ColumnOfIs == ASSUME NEW l PROVE ColumnOf(l) \in Columns
  BY DEF ColumnOf, Columns

\* What parse_name_to_cols() makes of the first k tokens
Fills(g, r, n, U) ==
    /\ g \in [0..n -> [Columns -> Seq(U)]]
    /\ \A c \in Columns : g[0][c] = << >>
    /\ \A k \in 1..n : \A c \in Columns :
         g[k][c] = IF c = ColumnOf(r[k].label) THEN Append(g[k - 1][c], r[k].text)
                   ELSE g[k - 1][c]

Filled(r) ==
    FoldLeft(LAMBDA c, t : [c EXCEPT ![ColumnOf(t.label)] = AppendComponent(@, t.text)],
             [c \in Columns |-> << >>], r)

LEMMA ColumnsFollow ==
  ASSUME NEW U, NEW n \in Nat, NEW r, DOMAIN r = 1..n, \A i \in 1..n : r[i].text \in U
  PROVE  \E g : Fills(g, r, n, U) /\ Filled(r) = g[n]
  <1> DEFINE R == [Columns -> Seq(U)]
             none == [c \in Columns |-> << >>]
             Op(c, t) == [c EXCEPT ![ColumnOf(t.label)] = AppendComponent(@, t.text)]
             step == [p \in (1..n) \X R |-> Op(p[2], r[p[1]])]
             Body(iter) == [t \in SUBSET DOMAIN r |->
                              IF t = {} THEN none ELSE Op(iter[t \ {Max(t)}], r[Max(t)])]
             it == CHOOSE iter : iter = Body(iter)
  <1>1. ASSUME NEW k \in 1..n, NEW a \in R
        PROVE  /\ Op(a, r[k]) \in R
               /\ \A c \in Columns :
                    Op(a, r[k])[c] = IF c = ColumnOf(r[k].label) THEN Append(a[c], r[k].text)
                                     ELSE a[c]
    BY ColumnOfIs DEF AppendComponent
  <1>2. step \in Steps(n, R) /\ \A k \in 1..n, a \in R : step[<<k, a>>] = Op(a, r[k])
    <2> HIDE DEF Op, R
    <2> QED BY <1>1 DEF Steps
  <1>3. Filled(r) = it[DOMAIN r]
    BY DEF Filled, FoldLeft, MapThenFoldSet
  <1>4. none \in R /\ \A c \in Columns : none[c] = << >>
    OBVIOUS
  <1> HIDE DEF step, R, none
  <1>5. PICK F : LeftFolds(F, n, R, none, step)
    BY <1>2, <1>4, LeftFoldsExist
  <1> HIDE DEF Op
  <1>6. F = Body(F)
    <2>1. /\ F = [t \in SUBSET (1..n) |-> F[t]] /\ F[{}] = none
          /\ \A t \in SUBSET (1..n) : F[t] \in R
      BY <1>5 DEF LeftFolds
    <2>2. \A t \in SUBSET (1..n) : t # {} => F[t] = Op(F[t \ {Max(t)}], r[Max(t)])
      BY <1>2, <1>5, <2>1 DEF LeftFolds
    <2> QED BY <2>1, <2>2
  <1>7. it = Body(it)
    <2> HIDE DEF Body
    <2> QED BY <1>6
  <1> HIDE DEF it
  <1>8. /\ it[{}] = none
        /\ \A t \in SUBSET (1..n) : t # {} => it[t] = Op(it[t \ {Max(t)}], r[Max(t)])
    BY <1>7
  <1>9. \A t \in SUBSET (1..n) : t # {} /\ it[t \ {Max(t)}] \in R =>
            it[t] = step[<<Max(t), it[t \ {Max(t)}]>>]
    BY <1>2, <1>5, <1>8 DEF LeftFolds
  <1> DEFINE g == [k \in 0..n |-> it[1..k]]
  <1>10. Follows(g, n, R, none, step)
    BY <1>2, <1>4, <1>8, <1>9, LeftFoldIs
  <1>11. g[n] = it[1..n]
    OBVIOUS
  <1> HIDE DEF g
  <1>12. g \in [0..n -> R] /\ g[0] = none
    BY <1>10 DEF Follows
  <1>13. ASSUME NEW k \in 1..n
         PROVE  \A c \in Columns :
                  g[k][c] = IF c = ColumnOf(r[k].label) THEN Append(g[k - 1][c], r[k].text)
                            ELSE g[k - 1][c]
    <2>1. g[k - 1] \in R /\ g[k] = step[<<k, g[k - 1]>>]
      BY <1>10, <1>12 DEF Follows
    <2>2. g[k] = Op(g[k - 1], r[k])
      BY <1>2, <2>1
    <2> QED BY <1>1, <2>1, <2>2
  <1>14. Fills(g, r, n, U)
    <2>1. g \in [0..n -> [Columns -> Seq(U)]]
      BY <1>12 DEF R
    <2>2. \A c \in Columns : g[0][c] = << >>
      BY <1>4, <1>12
    <2> QED BY <1>13, <2>1, <2>2 DEF Fills
  <1> QED BY <1>3, <1>11, <1>14

Texted(r, n, U) == \A i \in 1..n : r[i].text \in U

Sorted(cs, r) == \A c \in Columns : cs[c] = Texts(Among(r, InColumn(r, c)))

\* A column has the texts of the tokens that belong in it.
LEMMA ColumnsSelect ==
  ASSUME NEW U, NEW n \in Nat, NEW T, NEW r \in Seq(T), Len(r) = n,
         Texted(r, n, U),
         NEW g, Fills(g, r, n, U)
  PROVE  Sorted(g[n], r)
  <1> SUFFICES ASSUME NEW c \in Columns PROVE g[n][c] = Texts(Among(r, InColumn(r, c)))
    BY DEF Sorted
  <1>1. PICK S : S = InColumn(r, c)
    OBVIOUS
  <1>2. PICK h : Keeps(h, r, S, T) /\ Among(r, S) = h[n]
    BY AmongFollows
  <1>3. \A i \in 1..n : r[i] \in S <=> ColumnOf(r[i].label) = c
    BY <1>1 DEF InColumn, ToSet
  <1> DEFINE P == {k \in Nat : k <= n => /\ Len(h[k]) = Len(g[k][c])
                                         /\ \A i \in 1..Len(h[k]) : g[k][c][i] = h[k][i].text}
  <1>4. 0 \in P
    <2>1. h[0] = << >> /\ g[0][c] = << >>
      BY <1>2 DEF Keeps, Fills
    <2> QED BY <2>1
  <1>5. ASSUME NEW k \in Nat, k \in P PROVE k + 1 \in P
    <2> SUFFICES ASSUME k + 1 <= n
                 PROVE  /\ Len(h[k + 1]) = Len(g[k + 1][c])
                        /\ \A i \in 1..Len(h[k + 1]) : g[k + 1][c][i] = h[k + 1][i].text
      OBVIOUS
    <2>1. k + 1 \in 1..n /\ k \in 0..n /\ (k + 1) - 1 = k
      OBVIOUS
    <2>2. h[k] \in Seq(T) /\ g[k][c] \in Seq(U) /\ r[k + 1] \in T /\ r[k + 1].text \in U
      <3>1. h[k] \in Seq(T)
        BY <1>2, <2>1 DEF Keeps
      <3>2. g[k][c] \in Seq(U)
        BY <2>1 DEF Fills
      <3>3. r[k + 1] \in T
        BY <2>1
      <3> QED BY <2>1, <3>1, <3>2, <3>3 DEF Texted
    <2>3. h[k + 1] = IF r[k + 1] \in S THEN Append(h[k], r[k + 1]) ELSE h[k]
      BY <1>2, <2>1 DEF Keeps
    <2>4. g[k + 1][c] = IF c = ColumnOf(r[k + 1].label) THEN Append(g[k][c], r[k + 1].text)
                        ELSE g[k][c]
      BY <2>1 DEF Fills
    <2>5. /\ Len(h[k]) = Len(g[k][c])
          /\ \A i \in 1..Len(h[k]) : g[k][c][i] = h[k][i].text
      BY <1>5, <2>1
    <2>6. CASE r[k + 1] \in S
      <3>1. PICK a \in Seq(T), b \in Seq(U) : a = h[k] /\ b = g[k][c]
        BY <2>2
      <3>2. h[k + 1] = Append(a, r[k + 1]) /\ g[k + 1][c] = Append(b, r[k + 1].text)
        BY <1>3, <2>1, <2>3, <2>4, <2>6, <3>1
      <3>3. Len(a) = Len(b) /\ \A i \in 1..Len(a) : b[i] = a[i].text
        BY <2>5, <3>1
      <3>4. PICK l \in Nat : l = Len(a)
        OBVIOUS
      <3>5. PICK x \in T : x = r[k + 1] /\ x.text \in U
        BY <2>2
      <3>6. PICK a1, b1 : a1 = Append(a, x) /\ b1 = Append(b, x.text)
        OBVIOUS
      <3>7. /\ Len(a1) = l + 1 /\ Len(b1) = l + 1 /\ a1[l + 1] = x /\ b1[l + 1] = x.text
            /\ \A i \in 1..l : a1[i] = a[i] /\ b1[i] = b[i]
        BY <3>3, <3>4, <3>5, <3>6
      <3>8. \A i \in 1..(l + 1) : b1[i] = a1[i].text
        BY <3>3, <3>4, <3>7
      <3>9. h[k + 1] = a1 /\ g[k + 1][c] = b1
        BY <3>2, <3>5, <3>6
      <3> QED BY <3>7, <3>8, <3>9
    <2>7. CASE r[k + 1] \notin S
      BY <1>3, <2>1, <2>3, <2>4, <2>5, <2>7
    <2> QED BY <2>6, <2>7
  <1>6. Nat \subseteq P
    <2> HIDE DEF P
    <2> QED BY <1>4, <1>5, Induction
  <1>7. PICK a \in Seq(T), b \in Seq(U) : a = h[n] /\ b = g[n][c]
    BY <1>2 DEF Keeps, Fills
  <1>8. Len(a) = Len(b) /\ \A i \in 1..Len(a) : b[i] = a[i].text
    BY <1>6, <1>7
  <1>9. b = [i \in DOMAIN a |-> a[i].text]
    BY <1>8
  <1> QED BY <1>1, <1>2, <1>7, <1>9 DEF Texts

\* How many tokens the columns have
Total(cs) == MapThenSumSet(LAMBDA c : Len(cs[c]), Columns)

LEMMA ColumnsSum ==
  ASSUME NEW cs
  PROVE  Total(cs) = SumOver([c \in Columns |-> Len(cs[c])], Columns)
  <1> DEFINE S == Columns
             h == [c \in Columns |-> Len(cs[c])]
             Direct(iter) == [s \in SUBSET S |-> IF s = {} THEN 0
                                 ELSE Len(cs[Some(s)]) + iter[s \ {Some(s)}]]
             Body(iter) == [s \in SUBSET S |-> IF s = {} THEN 0
                               ELSE h[Some(s)] + iter[s \ {Some(s)}]]
  <1>1. /\ Total(cs) = (CHOOSE iter : iter = Direct(iter))[S]
        /\ SumOver(h, S) = (CHOOSE iter : iter = Body(iter))[S]
    BY DEF Total, SumOver, MapThenSumSet, MapThenFoldSet, Some
  <1>2. ASSUME NEW iter PROVE Direct(iter) = Body(iter)
    <2>1. \A s \in SUBSET S : s # {} => h[Some(s)] = Len(cs[Some(s)])
      BY SomeIs
    <2> HIDE DEF h
    <2> QED BY <2>1
  <1> HIDE DEF Direct, Body
  <1> QED BY <1>1, <1>2

\* No token is lost and none is in two columns.
LEMMA ColumnsCount ==
  ASSUME NEW U, NEW n \in Nat, NEW r, Texted(r, n, U),
         NEW g, Fills(g, r, n, U)
  PROVE  Total(g[n]) = n
  <1> DEFINE size(k) == [c \in Columns |-> Len(g[k][c])]
             P == {k \in Nat : k <= n => SumOver(size(k), Columns) = k}
  <1>1. IsFiniteSet(Columns)
    BY ColumnsFinite
  <1>2. ASSUME NEW k \in 0..n
        PROVE  /\ \A c \in Columns : size(k)[c] \in Int
               /\ \A c \in Columns : size(k)[c] = Len(g[k][c]) /\ g[k][c] \in Seq(U)
    BY <1>2 DEF Fills
  <1>3. 0 \in P
    <2>1. \A c \in Columns : size(0)[c] = 0
      BY DEF Fills
    <2> HIDE DEF size
    <2>2. SumOver(size(0), Columns) = 0
      BY <1>1, <2>1, SumOfZeros
    <2> QED BY <2>2
  <1>4. ASSUME NEW k \in Nat, k \in P PROVE k + 1 \in P
    <2> SUFFICES ASSUME k + 1 <= n PROVE SumOver(size(k + 1), Columns) = k + 1
      OBVIOUS
    <2>1. k + 1 \in 1..n /\ k + 1 \in 0..n /\ k \in 0..n /\ (k + 1) - 1 = k
      OBVIOUS
    <2>2. PICK d \in Columns : d = ColumnOf(r[k + 1].label)
      BY ColumnOfIs
    <2>3. PICK a, b : a = size(k) /\ b = size(k + 1)
      OBVIOUS
    <2>4. /\ \A c \in Columns : a[c] \in Int /\ b[c] \in Int
          /\ \A c \in Columns : a[c] = Len(g[k][c]) /\ g[k][c] \in Seq(U)
          /\ \A c \in Columns : b[c] = Len(g[k + 1][c])
      BY <1>2, <2>1, <2>3
    <2>5. \A c \in Columns : g[k + 1][c] = IF c = d THEN Append(g[k][c], r[k + 1].text)
                                           ELSE g[k][c]
      BY <2>1, <2>2 DEF Fills
    <2>6. b[d] = a[d] + 1 /\ \A c \in Columns \ {d} : b[c] = a[c]
      <3>1. PICK q \in Seq(U) : q = g[k][d]
        BY <2>4
      <3>2. g[k + 1][d] = Append(q, r[k + 1].text) /\ r[k + 1].text \in U
        BY <2>1, <2>5, <3>1 DEF Texted
      <3>3. Len(g[k + 1][d]) = Len(q) + 1
        BY <3>2
      <3>4. \A c \in Columns \ {d} : g[k + 1][c] = g[k][c]
        BY <2>5
      <3> QED BY <2>4, <3>1, <3>3, <3>4
    <2>7. /\ SumOver(a, Columns) = SumOver(a, Columns \ {d}) + a[d]
          /\ SumOver(b, Columns) = SumOver(b, Columns \ {d}) + b[d]
      BY <1>1, <2>4, SumRemove
    <2>8. SumOver(b, Columns \ {d}) = SumOver(a, Columns \ {d})
      BY <2>6, SumSame
    <2>9. SumOver(a, Columns \ {d}) \in Int
      <3>1. PICK S : S = Columns \ {d}
        OBVIOUS
      <3>2. IsFiniteSet(S) /\ \A c \in S : a[c] \in Int
        BY <1>1, <2>4, <3>1, FS_Subset
      <3> QED BY <3>1, <3>2, SumRemove
    <2>10. SumOver(a, Columns) = k
      BY <1>4, <2>1, <2>3
    <2>11. a[d] \in Int
      BY <2>2, <2>4
    <2>12. SumOver(b, Columns) = k + 1
      BY <2>6, <2>7, <2>8, <2>9, <2>10, <2>11
    <2> QED BY <2>3, <2>12
  <1>5. Nat \subseteq P
    <2> HIDE DEF P
    <2> QED BY <1>3, <1>4, Induction
  <1>6. SumOver(size(n), Columns) = n
    BY <1>5
  <1> HIDE DEF P
  <1>7. Total(g[n]) = SumOver(size(n), Columns)
    BY ColumnsSum
  <1> QED BY <1>6, <1>7

\* The columns cs have the n tokens of r, each in one.
InColumns(cs, r, n) ==
    /\ Sorted(cs, r)
    /\ Total(cs) = n

LEMMA ColumnsAre ==
  ASSUME NEW U, NEW n \in Nat, NEW T, NEW r \in Seq(T), Len(r) = n, Texted(r, n, U)
  PROVE  InColumns(Filled(r), r, n)
  <1>1. DOMAIN r = 1..n
    OBVIOUS
  <1>2. PICK g : Fills(g, r, n, U) /\ Filled(r) = g[n]
    BY <1>1, ColumnsFollow DEF Texted
  <1>3. Sorted(g[n], r)
    BY <1>2, ColumnsSelect
  <1>4. Total(g[n]) = n
    BY <1>2, ColumnsCount
  <1>5. InColumns(g[n], r, n)
    BY <1>3, <1>4 DEF InColumns
  <1> QED BY <1>2, <1>5

-----------------------------------------------------------------------------

\* What the columns are made of, until they are forgotten with the next name
ColumnsInv ==
    /\ tokens \in Seq(Seq(Chars))
    /\ pc = "columns" =>
         result = [i \in DOMAIN tokens |-> [text |-> tokens[i], label |-> result[i].label]]
    /\ cols # << >> => pc = "idle" /\ InColumns(cols, result, Len(tokens))

LEMMA ColumnsInvStep ==
  ASSUME NamesAssumption, ColumnsInv, [Next]_vars
  PROVE  ColumnsInv'
  <1>1. ASSUME UNCHANGED <<tokens, cols, pc, result>> PROVE ColumnsInv'
    BY <1>1 DEF ColumnsInv
  <1>2. ASSUME UNCHANGED <<tokens, result>>, cols' = << >>, pc' # "columns" PROVE ColumnsInv'
    BY <1>2 DEF ColumnsInv
  <1>3. pc # "idle" => cols = << >>
    BY DEF ColumnsInv
  <1>4. CASE UNCHANGED vars
    BY <1>1, <1>4 DEF vars
  <1>5. CASE Convert
    BY <1>1, <1>5 DEF Convert
  <1>6. CASE Train
    BY <1>2, <1>3, <1>6 DEF Train
  <1>7. ASSUME NEW words \in Names, Call(words) PROVE ColumnsInv'
    <2>1. words \in Seq(Seq(Chars))
      BY DEF NamesAssumption
    <2>2. Tokenize(words) \in Seq(Seq(Chars))
      BY <2>1, TokenizeAgain
    <2>3. tokens' \in Seq(Seq(Chars)) /\ pc' # "columns" /\ cols' = << >>
      BY <1>7, <2>2 DEF Call
    <2> QED BY <2>3 DEF ColumnsInv
  <1>8. CASE CreateFeatureSet
    BY <1>2, <1>3, <1>8 DEF CreateFeatureSet
  <1>9. CASE ExtractFeatures
    <2>1. UNCHANGED <<tokens, result, cols>> /\ pc = "features" /\ pc' # "columns"
      BY <1>9 DEF ExtractFeatures
    <2> QED BY <1>2, <1>3, <2>1
  <1>10. CASE GetTagger
    BY <1>2, <1>3, <1>10 DEF GetTagger
  <1>11. CASE Predict
    BY <1>2, <1>3, <1>11 DEF Predict
  <1>12. CASE MakeResult
    <2>1. /\ pc = "result" /\ tokens' = tokens /\ cols' = << >>
          /\ result' = [i \in DOMAIN tokens |->
                         [text |-> tokens[i], label |-> Component(LabelName(decoded[i - 1]))]]
      BY <1>3, <1>12 DEF MakeResult
    <2>2. tokens \in Seq(Seq(Chars)) /\ DOMAIN tokens = 1..Len(tokens) /\ Len(tokens) \in Nat
      BY DEF ColumnsInv
    <2>3. result' = [i \in DOMAIN tokens' |-> [text |-> tokens'[i], label |-> result'[i].label]]
      BY <2>1
    <2> QED BY <2>1, <2>2, <2>3 DEF ColumnsInv
  <1>13. CASE ToColumns
    <2>1. /\ UNCHANGED <<tokens, result>> /\ pc = "columns" /\ pc' = "idle"
          /\ cols' = Filled(result)
      BY <1>13 DEF ToColumns, Filled
    <2>2. PICK n \in Nat : n = Len(tokens) /\ DOMAIN tokens = 1..n
      BY DEF ColumnsInv
    <2>3. PICK T, r : T = {result[i] : i \in DOMAIN tokens} /\ r = result
      OBVIOUS
    <2>4. /\ r \in [1..n -> T]
          /\ Texted(r, n, Seq(Chars))
      BY <2>1, <2>2, <2>3 DEF ColumnsInv, Texted
    <2>5. r \in Seq(T) /\ Len(r) = n /\ DOMAIN r = 1..n
      BY <2>4
    <2>6. PICK U : U = Seq(Chars)
      OBVIOUS
    <2>7. InColumns(Filled(r), r, n)
      BY <2>4, <2>5, <2>6, ColumnsAre
    <2> QED BY <2>1, <2>2, <2>3, <2>7 DEF ColumnsInv
  <1>14. CASE OutOfMemory
    BY <1>14 DEF OutOfMemory, ColumnsInv
  <1> QED BY <1>4, <1>5, <1>6, <1>7, <1>8, <1>9, <1>10, <1>11, <1>12, <1>13, <1>14 DEF Next

\* Until the next name is asked for, the columns are made of the result.
THEOREM ColumnsInvariant == Spec => []ColumnsInv
  <1>1. Init => ColumnsInv
    BY DEF Init, ColumnsInv
  <1> QED BY <1>1, ColumnsInvStep, NamesAssumption, PTL DEF Spec

\* Every token of every name is in one column, whatever the labels are called
\* (parse_name_to_cols()).
THEOREM ColumnsHoldTheNameAlways == Spec => []ColumnsHoldTheName
  <1>1. ColumnsInv => ColumnsHoldTheName
    BY DEF ColumnsInv, ColumnsHoldTheName, InColumns, Sorted, InColumn, Total
  <1> QED BY <1>1, ColumnsInvariant, PTL

-----------------------------------------------------------------------------
(* Lists of features as sets: where a feature is listed does not matter,   *)
(* what it is called does.                                                 *)

\* s is a sequence of just the members of S.
Lists(s, S) == s \in Seq(S) /\ ToSet(s) = S

LEMMA JoinLists ==
  ASSUME NEW s, NEW S, Lists(s, S), NEW t, NEW T, Lists(t, T)
  PROVE  Lists(s \o t, S \cup T)
  <1>1. PICK a \in Seq(S \cup T), b \in Seq(S \cup T) : a = s /\ b = t
    BY DEF Lists
  <1>2. PICK m \in Nat, n \in Nat : m = Len(a) /\ n = Len(b)
    OBVIOUS
  <1>3. PICK c : c = a \o b
    OBVIOUS
  <1>4. /\ c \in Seq(S \cup T) /\ Len(c) = m + n
        /\ \A i \in 1..m : c[i] = a[i]
        /\ \A i \in 1..n : c[m + i] = b[i]
    BY <1>2, <1>3
  <1>5. /\ S = {a[i] : i \in 1..m} /\ T = {b[i] : i \in 1..n}
        /\ ToSet(c) = {c[i] : i \in 1..(m + n)}
    <2>1. DOMAIN a = 1..m /\ DOMAIN b = 1..n /\ DOMAIN c = 1..(m + n)
      BY <1>2, <1>4
    <2>2. S = ToSet(a) /\ T = ToSet(b)
      BY <1>1 DEF Lists
    <2> QED BY <2>1, <2>2 DEF ToSet
  <1>6. ASSUME NEW i \in 1..(m + n) PROVE c[i] \in S \cup T
    BY <1>4
  <1>7. ASSUME NEW x \in S PROVE x \in ToSet(c)
    <2>1. PICK i \in 1..m : x = a[i]
      BY <1>5, <1>7
    <2>2. i \in 1..(m + n) /\ x = c[i]
      BY <1>4, <2>1
    <2> QED BY <1>5, <2>2
  <1>8. ASSUME NEW x \in T PROVE x \in ToSet(c)
    <2>1. PICK i \in 1..n : x = b[i]
      BY <1>5, <1>8
    <2>2. m + i \in 1..(m + n) /\ x = c[m + i]
      BY <1>4, <2>1
    <2> QED BY <1>5, <2>2
  <1>9. ToSet(c) = S \cup T
    BY <1>5, <1>6, <1>7, <1>8
  <1> QED BY <1>1, <1>3, <1>4, <1>9 DEF Lists

LEMMA ListsNone == Lists(<< >>, {})
  <1>1. << >> \in Seq({}) /\ DOMAIN << >> = {}
    OBVIOUS
  <1>2. ToSet(<< >>) = {}
    BY <1>1 DEF ToSet
  <1> QED BY <1>1, <1>2 DEF Lists

LEMMA ListsOne == ASSUME NEW x PROVE Lists(<<x>>, {x})
  <1>1. PICK s : s = <<x>>
    OBVIOUS
  <1>2. s \in Seq({x}) /\ DOMAIN s = {1} /\ s[1] = x
    <2>1. /\ Len(s) = 1 /\ s[1] = x
          /\ s \in Seq({x})
      BY <1>1
    <2>2. DOMAIN s = 1..1
      BY <2>1
    <2> QED BY <2>1, <2>2
  <1>3. ToSet(s) = {x}
    BY <1>2 DEF ToSet
  <1> QED BY <1>1, <1>3 DEF Lists

\* What When() lists
Flag(cond, name) == IF cond THEN {Feature(name, 10)} ELSE {}

LEMMA ListsFlag ==
  ASSUME NEW cond, NEW name
  PROVE  /\ Lists(One(name), {Feature(name, 10)})
         /\ Lists(When(cond, name), Flag(cond, name))
  <1>1. Lists(One(name), {Feature(name, 10)})
    BY ListsOne DEF One
  <1>2. CASE cond
    BY <1>1, <1>2 DEF When, Flag
  <1>3. CASE ~cond
    BY <1>1, <1>3, ListsNone DEF When, Flag
  <1> QED BY <1>1, <1>2, <1>3

\* Each list of Features as the set of what it lists
TokenSet(w) ==
    {Feature(<<"token", w>>, 10)}
    \cup {Feature(<<"token_lower", LowerCase(w)>>, 10)}
    \cup Flag(NoPunct(w) # << >>, <<"nopunc", NoPunct(w)>>)

LEMMA TokenFeaturesLists == ASSUME NEW w PROVE Lists(TokenFeatures(w), TokenSet(w))
  <1>1. PICK s1, S1 : /\ s1 = One(<<"token", w>>)
                      /\ S1 = {Feature(<<"token", w>>, 10)}
                      /\ Lists(s1, S1)
    BY ListsOne, ListsFlag
  <1>2. PICK s2, S2 : /\ s2 = One(<<"token_lower", LowerCase(w)>>)
                      /\ S2 = {Feature(<<"token_lower", LowerCase(w)>>, 10)}
                      /\ Lists(s2, S2)
    BY ListsOne, ListsFlag
  <1>3. PICK s3, S3 : /\ s3 = When(NoPunct(w) # << >>, <<"nopunc", NoPunct(w)>>)
                      /\ S3 = Flag(NoPunct(w) # << >>, <<"nopunc", NoPunct(w)>>)
                      /\ Lists(s3, S3)
    BY ListsOne, ListsFlag
  <1>4. Lists(s1 \o s2, S1 \cup S2)
    BY <1>1, <1>2, JoinLists
  <1>5. Lists((s1 \o s2) \o s3, (S1 \cup S2) \cup S3)
    BY <1>4, <1>3, JoinLists
  <1> QED BY <1>1, <1>2, <1>3, <1>4, <1>5 DEF TokenFeatures, TokenSet

BackendCaseSet(w) ==
    Flag(w[1] \in Upper, <<"is_capitalized">>)
    \cup Flag(~ Has(w, Lower), <<"is_all_caps">>)
    \cup Flag(w[Len(w)] = ".", <<"abbrev">>)
    \cup Flag(w[Len(w)] = "." /\ Len(w) <= 2, <<"initial">>)
    \cup Flag(Has(w, {","}), <<"comma">>)
    \cup Flag(Has(w, {"-"}), <<"hyphenated">>)
    \cup Flag(Has(w, {"(", ")"}), <<"bracketed">>)
    \cup Flag(~ Has(w, Upper), <<"is_all_lower">>)

LEMMA BackendCaseLists == ASSUME NEW w PROVE Lists(BackendCase(w), BackendCaseSet(w))
  <1>1. PICK s1, S1 : /\ s1 = When(w[1] \in Upper, <<"is_capitalized">>)
                      /\ S1 = Flag(w[1] \in Upper, <<"is_capitalized">>)
                      /\ Lists(s1, S1)
    BY ListsOne, ListsFlag
  <1>2. PICK s2, S2 : /\ s2 = When(~ Has(w, Lower), <<"is_all_caps">>)
                      /\ S2 = Flag(~ Has(w, Lower), <<"is_all_caps">>)
                      /\ Lists(s2, S2)
    BY ListsOne, ListsFlag
  <1>3. PICK s3, S3 : /\ s3 = When(w[Len(w)] = ".", <<"abbrev">>)
                      /\ S3 = Flag(w[Len(w)] = ".", <<"abbrev">>)
                      /\ Lists(s3, S3)
    BY ListsOne, ListsFlag
  <1>4. PICK s4, S4 : /\ s4 = When(w[Len(w)] = "." /\ Len(w) <= 2, <<"initial">>)
                      /\ S4 = Flag(w[Len(w)] = "." /\ Len(w) <= 2, <<"initial">>)
                      /\ Lists(s4, S4)
    BY ListsOne, ListsFlag
  <1>5. PICK s5, S5 : /\ s5 = When(Has(w, {","}), <<"comma">>)
                      /\ S5 = Flag(Has(w, {","}), <<"comma">>)
                      /\ Lists(s5, S5)
    BY ListsOne, ListsFlag
  <1>6. PICK s6, S6 : /\ s6 = When(Has(w, {"-"}), <<"hyphenated">>)
                      /\ S6 = Flag(Has(w, {"-"}), <<"hyphenated">>)
                      /\ Lists(s6, S6)
    BY ListsOne, ListsFlag
  <1>7. PICK s7, S7 : /\ s7 = When(Has(w, {"(", ")"}), <<"bracketed">>)
                      /\ S7 = Flag(Has(w, {"(", ")"}), <<"bracketed">>)
                      /\ Lists(s7, S7)
    BY ListsOne, ListsFlag
  <1>8. PICK s8, S8 : /\ s8 = When(~ Has(w, Upper), <<"is_all_lower">>)
                      /\ S8 = Flag(~ Has(w, Upper), <<"is_all_lower">>)
                      /\ Lists(s8, S8)
    BY ListsOne, ListsFlag
  <1>9. Lists(s1 \o s2, S1 \cup S2)
    BY <1>1, <1>2, JoinLists
  <1>10. Lists((s1 \o s2) \o s3, (S1 \cup S2) \cup S3)
    BY <1>9, <1>3, JoinLists
  <1>11. Lists(((s1 \o s2) \o s3) \o s4, ((S1 \cup S2) \cup S3) \cup S4)
    BY <1>10, <1>4, JoinLists
  <1>12. Lists((((s1 \o s2) \o s3) \o s4) \o s5, (((S1 \cup S2) \cup S3) \cup S4) \cup S5)
    BY <1>11, <1>5, JoinLists
  <1>13. Lists(((((s1 \o s2) \o s3) \o s4) \o s5) \o s6,
               ((((S1 \cup S2) \cup S3) \cup S4) \cup S5) \cup S6)
    BY <1>12, <1>6, JoinLists
  <1>14. Lists((((((s1 \o s2) \o s3) \o s4) \o s5) \o s6) \o s7,
               (((((S1 \cup S2) \cup S3) \cup S4) \cup S5) \cup S6) \cup S7)
    BY <1>13, <1>7, JoinLists
  <1>15. Lists(((((((s1 \o s2) \o s3) \o s4) \o s5) \o s6) \o s7) \o s8,
               ((((((S1 \cup S2) \cup S3) \cup S4) \cup S5) \cup S6) \cup S7) \cup S8)
    BY <1>14, <1>8, JoinLists
  <1> QED BY <1>1, <1>2, <1>3, <1>4, <1>5, <1>6, <1>7, <1>8, <1>9, <1>10, <1>11,
          <1>12, <1>13, <1>14, <1>15 DEF BackendCase, BackendCaseSet

BackendLengthSet(w) ==
    {Feature(<<"length">>, 10 * Len(w))}
    \cup {Feature(IF Len(w) <= 4 THEN <<"length:", Len(w)>> ELSE <<"length:>4">>, 10)}

LEMMA BackendLengthLists == ASSUME NEW w PROVE Lists(BackendLength(w), BackendLengthSet(w))
  <1>1. PICK s1, S1 : /\ s1 = <<Feature(<<"length">>, 10 * Len(w))>>
                      /\ S1 = {Feature(<<"length">>, 10 * Len(w))}
                      /\ Lists(s1, S1)
    BY ListsOne, ListsFlag
  <1>2. PICK s2, S2 : /\ s2 = One(IF Len(w) <= 4 THEN <<"length:", Len(w)>> ELSE <<"length:>4">>)
                      /\ S2 = {Feature(IF Len(w) <= 4 THEN <<"length:", Len(w)>>
                                       ELSE <<"length:>4">>, 10)}
                      /\ Lists(s2, S2)
    BY ListsOne, ListsFlag
  <1>3. Lists(s1 \o s2, S1 \cup S2)
    BY <1>1, <1>2, JoinLists
  <1> QED BY <1>1, <1>2, <1>3 DEF BackendLength, BackendLengthSet

BackendCharactersSet(w) ==
    Flag(Has(w, Digits), <<"has_digit">>)
    \cup Flag(Has(w, Punct), <<"has_punctuation">>)
    \cup Flag(AllIn(w, Digits \cup {".", ","}), <<"is_numeric">>)
    \cup Flag(AllIn(w, Roman), <<"roman">>)

LEMMA BackendCharactersLists ==
  ASSUME NEW w
  PROVE  Lists(BackendCharacters(w), BackendCharactersSet(w))
  <1>1. PICK s1, S1 : /\ s1 = When(Has(w, Digits), <<"has_digit">>)
                      /\ S1 = Flag(Has(w, Digits), <<"has_digit">>)
                      /\ Lists(s1, S1)
    BY ListsOne, ListsFlag
  <1>2. PICK s2, S2 : /\ s2 = When(Has(w, Punct), <<"has_punctuation">>)
                      /\ S2 = Flag(Has(w, Punct), <<"has_punctuation">>)
                      /\ Lists(s2, S2)
    BY ListsOne, ListsFlag
  <1>3. PICK s3, S3 : /\ s3 = When(AllIn(w, Digits \cup {".", ","}), <<"is_numeric">>)
                      /\ S3 = Flag(AllIn(w, Digits \cup {".", ","}), <<"is_numeric">>)
                      /\ Lists(s3, S3)
    BY ListsOne, ListsFlag
  <1>4. PICK s4, S4 : /\ s4 = When(AllIn(w, Roman), <<"roman">>)
                      /\ S4 = Flag(AllIn(w, Roman), <<"roman">>)
                      /\ Lists(s4, S4)
    BY ListsOne, ListsFlag
  <1>5. Lists(s1 \o s2, S1 \cup S2)
    BY <1>1, <1>2, JoinLists
  <1>6. Lists((s1 \o s2) \o s3, (S1 \cup S2) \cup S3)
    BY <1>5, <1>3, JoinLists
  <1>7. Lists(((s1 \o s2) \o s3) \o s4, ((S1 \cup S2) \cup S3) \cup S4)
    BY <1>6, <1>4, JoinLists
  <1> QED BY <1>1, <1>2, <1>3, <1>4, <1>5, <1>6, <1>7
          DEF BackendCharacters, BackendCharactersSet

\* The third of the name that the token is in
Third(words, i) ==
    IF 100 * (i - 1) < 33 * (Len(words) - 1) THEN <<"pos_early">>
    ELSE IF 100 * (i - 1) < 67 * (Len(words) - 1) THEN <<"pos_middle">>
    ELSE <<"pos_late">>

BackendPositionSet(words, i) ==
    Flag(i = 1, <<"rawstring.start">>)
    \cup Flag(i = Len(words), <<"rawstring.end">>)
    \cup Flag(Len(words) = 1, <<"singleton">>)
    \cup Flag(Len(words) > 1, Third(words, i))
    \cup {Feature(<<"position", i - 1>>, 5)}

LEMMA BackendPositionLists ==
  ASSUME NEW words, NEW i
  PROVE  Lists(BackendPosition(words, i), BackendPositionSet(words, i))
  <1>1. PICK s1, S1 : /\ s1 = When(i = 1, <<"rawstring.start">>)
                      /\ S1 = Flag(i = 1, <<"rawstring.start">>)
                      /\ Lists(s1, S1)
    BY ListsOne, ListsFlag
  <1>2. PICK s2, S2 : /\ s2 = When(i = Len(words), <<"rawstring.end">>)
                      /\ S2 = Flag(i = Len(words), <<"rawstring.end">>)
                      /\ Lists(s2, S2)
    BY ListsOne, ListsFlag
  <1>3. PICK s3, S3 : /\ s3 = When(Len(words) = 1, <<"singleton">>)
                      /\ S3 = Flag(Len(words) = 1, <<"singleton">>)
                      /\ Lists(s3, S3)
    BY ListsOne, ListsFlag
  <1>4. PICK s4, S4 : /\ s4 = When(Len(words) > 1, Third(words, i))
                      /\ S4 = Flag(Len(words) > 1, Third(words, i))
                      /\ Lists(s4, S4)
    BY ListsOne, ListsFlag
  <1>5. PICK s5, S5 : /\ s5 = <<Feature(<<"position", i - 1>>, 5)>>
                      /\ S5 = {Feature(<<"position", i - 1>>, 5)}
                      /\ Lists(s5, S5)
    BY ListsOne, ListsFlag
  <1>6. Lists(s1 \o s2, S1 \cup S2)
    BY <1>1, <1>2, JoinLists
  <1>7. Lists((s1 \o s2) \o s3, (S1 \cup S2) \cup S3)
    BY <1>6, <1>3, JoinLists
  <1>8. Lists(((s1 \o s2) \o s3) \o s4, ((S1 \cup S2) \cup S3) \cup S4)
    BY <1>7, <1>4, JoinLists
  <1>9. Lists((((s1 \o s2) \o s3) \o s4) \o s5, (((S1 \cup S2) \cup S3) \cup S4) \cup S5)
    BY <1>8, <1>5, JoinLists
  <1> QED BY <1>1, <1>2, <1>3, <1>4, <1>5, <1>6, <1>7, <1>8, <1>9
          DEF BackendPosition, BackendPositionSet, Third

TrainerCaseSet(w) ==
    Flag(w[1] \in Upper, <<"is_capitalized">>)
    \cup Flag(AllIn(w, Upper), <<"is_all_caps">>)
    \cup Flag(AllIn(w, Lower), <<"is_all_lower">>)

LEMMA TrainerCaseLists == ASSUME NEW w PROVE Lists(TrainerCase(w), TrainerCaseSet(w))
  <1>1. PICK s1, S1 : /\ s1 = When(w[1] \in Upper, <<"is_capitalized">>)
                      /\ S1 = Flag(w[1] \in Upper, <<"is_capitalized">>)
                      /\ Lists(s1, S1)
    BY ListsOne, ListsFlag
  <1>2. PICK s2, S2 : /\ s2 = When(AllIn(w, Upper), <<"is_all_caps">>)
                      /\ S2 = Flag(AllIn(w, Upper), <<"is_all_caps">>)
                      /\ Lists(s2, S2)
    BY ListsOne, ListsFlag
  <1>3. PICK s3, S3 : /\ s3 = When(AllIn(w, Lower), <<"is_all_lower">>)
                      /\ S3 = Flag(AllIn(w, Lower), <<"is_all_lower">>)
                      /\ Lists(s3, S3)
    BY ListsOne, ListsFlag
  <1>4. Lists(s1 \o s2, S1 \cup S2)
    BY <1>1, <1>2, JoinLists
  <1>5. Lists((s1 \o s2) \o s3, (S1 \cup S2) \cup S3)
    BY <1>4, <1>3, JoinLists
  <1> QED BY <1>1, <1>2, <1>3, <1>4, <1>5 DEF TrainerCase, TrainerCaseSet

TrainerLengthSet(w) ==
    {Feature(<<"length:", Len(w)>>, 10)}
    \cup Flag(Len(w) = 1, <<"is_single_char">>)
    \cup Flag(Len(w) = 2, <<"is_two_char">>)
    \cup Flag(Len(w) \in 3..4, <<"is_short">>)
    \cup Flag(Len(w) >= 10, <<"is_long">>)

LEMMA TrainerLengthLists == ASSUME NEW w PROVE Lists(TrainerLength(w), TrainerLengthSet(w))
  <1>1. PICK s1, S1 : /\ s1 = One(<<"length:", Len(w)>>)
                      /\ S1 = {Feature(<<"length:", Len(w)>>, 10)}
                      /\ Lists(s1, S1)
    BY ListsOne, ListsFlag
  <1>2. PICK s2, S2 : /\ s2 = When(Len(w) = 1, <<"is_single_char">>)
                      /\ S2 = Flag(Len(w) = 1, <<"is_single_char">>)
                      /\ Lists(s2, S2)
    BY ListsOne, ListsFlag
  <1>3. PICK s3, S3 : /\ s3 = When(Len(w) = 2, <<"is_two_char">>)
                      /\ S3 = Flag(Len(w) = 2, <<"is_two_char">>)
                      /\ Lists(s3, S3)
    BY ListsOne, ListsFlag
  <1>4. PICK s4, S4 : /\ s4 = When(Len(w) \in 3..4, <<"is_short">>)
                      /\ S4 = Flag(Len(w) \in 3..4, <<"is_short">>)
                      /\ Lists(s4, S4)
    BY ListsOne, ListsFlag
  <1>5. PICK s5, S5 : /\ s5 = When(Len(w) >= 10, <<"is_long">>)
                      /\ S5 = Flag(Len(w) >= 10, <<"is_long">>)
                      /\ Lists(s5, S5)
    BY ListsOne, ListsFlag
  <1>6. Lists(s1 \o s2, S1 \cup S2)
    BY <1>1, <1>2, JoinLists
  <1>7. Lists((s1 \o s2) \o s3, (S1 \cup S2) \cup S3)
    BY <1>6, <1>3, JoinLists
  <1>8. Lists(((s1 \o s2) \o s3) \o s4, ((S1 \cup S2) \cup S3) \cup S4)
    BY <1>7, <1>4, JoinLists
  <1>9. Lists((((s1 \o s2) \o s3) \o s4) \o s5, (((S1 \cup S2) \cup S3) \cup S4) \cup S5)
    BY <1>8, <1>5, JoinLists
  <1> QED BY <1>1, <1>2, <1>3, <1>4, <1>5, <1>6, <1>7, <1>8, <1>9
          DEF TrainerLength, TrainerLengthSet

TrainerCharactersSet(w) ==
    Flag(Has(w, Digits), <<"has_digit">>)
    \cup Flag(Has(w, Punct), <<"has_punct">>)
    \cup Flag(Has(w, {"-"}), <<"has_hyphen">>)
    \cup Flag(Has(w, {"."}), <<"has_dot">>)
    \cup Flag(Len(w) > 1 /\ w[Len(w)] = ".", <<"ends_with_dot">>)

LEMMA TrainerCharactersLists ==
  ASSUME NEW w
  PROVE  Lists(TrainerCharacters(w), TrainerCharactersSet(w))
  <1>1. PICK s1, S1 : /\ s1 = When(Has(w, Digits), <<"has_digit">>)
                      /\ S1 = Flag(Has(w, Digits), <<"has_digit">>)
                      /\ Lists(s1, S1)
    BY ListsOne, ListsFlag
  <1>2. PICK s2, S2 : /\ s2 = When(Has(w, Punct), <<"has_punct">>)
                      /\ S2 = Flag(Has(w, Punct), <<"has_punct">>)
                      /\ Lists(s2, S2)
    BY ListsOne, ListsFlag
  <1>3. PICK s3, S3 : /\ s3 = When(Has(w, {"-"}), <<"has_hyphen">>)
                      /\ S3 = Flag(Has(w, {"-"}), <<"has_hyphen">>)
                      /\ Lists(s3, S3)
    BY ListsOne, ListsFlag
  <1>4. PICK s4, S4 : /\ s4 = When(Has(w, {"."}), <<"has_dot">>)
                      /\ S4 = Flag(Has(w, {"."}), <<"has_dot">>)
                      /\ Lists(s4, S4)
    BY ListsOne, ListsFlag
  <1>5. PICK s5, S5 : /\ s5 = When(Len(w) > 1 /\ w[Len(w)] = ".", <<"ends_with_dot">>)
                      /\ S5 = Flag(Len(w) > 1 /\ w[Len(w)] = ".", <<"ends_with_dot">>)
                      /\ Lists(s5, S5)
    BY ListsOne, ListsFlag
  <1>6. Lists(s1 \o s2, S1 \cup S2)
    BY <1>1, <1>2, JoinLists
  <1>7. Lists((s1 \o s2) \o s3, (S1 \cup S2) \cup S3)
    BY <1>6, <1>3, JoinLists
  <1>8. Lists(((s1 \o s2) \o s3) \o s4, ((S1 \cup S2) \cup S3) \cup S4)
    BY <1>7, <1>4, JoinLists
  <1>9. Lists((((s1 \o s2) \o s3) \o s4) \o s5, (((S1 \cup S2) \cup S3) \cup S4) \cup S5)
    BY <1>8, <1>5, JoinLists
  <1> QED BY <1>1, <1>2, <1>3, <1>4, <1>5, <1>6, <1>7, <1>8, <1>9
          DEF TrainerCharacters, TrainerCharactersSet

TrainerPositionSet(words, i) ==
    Flag(i = 1, <<"is_first">>)
    \cup Flag(i = Len(words), <<"is_last">>)

LEMMA TrainerPositionLists ==
  ASSUME NEW words, NEW i
  PROVE  Lists(TrainerPosition(words, i), TrainerPositionSet(words, i))
  <1>1. PICK s1, S1 : /\ s1 = When(i = 1, <<"is_first">>)
                      /\ S1 = Flag(i = 1, <<"is_first">>)
                      /\ Lists(s1, S1)
    BY ListsOne, ListsFlag
  <1>2. PICK s2, S2 : /\ s2 = When(i = Len(words), <<"is_last">>)
                      /\ S2 = Flag(i = Len(words), <<"is_last">>)
                      /\ Lists(s2, S2)
    BY ListsOne, ListsFlag
  <1>3. Lists(s1 \o s2, S1 \cup S2)
    BY <1>1, <1>2, JoinLists
  <1> QED BY <1>1, <1>2, <1>3 DEF TrainerPosition, TrainerPositionSet

\* The affixes of length n, and up to a length
AffixPair(c, n) ==
    {Feature(<<"prefix", n, Prefix(c, n)>>, 10)} \cup {Feature(<<"suffix", n, Suffix(c, n)>>, 10)}
AffixSet(c, m) == UNION {AffixPair(c, n) : n \in 1..m}

\* One list behind another
Then(s, t) == s \o t

\* The loop that joins a[1], b[1], a[2], b[2] and so on
AllOf(E, m) == UNION {E[n] : n \in 1..m}
Paired(u, a, b) == [n \in 0..4 |-> IF n = 0 THEN << >> ELSE Then(Then(u[n - 1], a[n]), b[n])]

LEMMA ThenLists ==
  ASSUME NEW s, NEW S, Lists(s, S), NEW t, NEW T, Lists(t, T)
  PROVE  Lists(Then(s, t), S \cup T)
  BY JoinLists DEF Then

LEMMA PairedLists ==
  ASSUME NEW a, NEW b, NEW E,
         \A n \in 1..4 : \A s, T : Lists(s, T) => Lists(Then(Then(s, a[n]), b[n]), T \cup E[n]),
         NEW it, it = CHOOSE u : u = Paired(u, a, b)
  PROVE  Lists(it[4], AllOf(E, 4))
  <1>1. it = Paired(it, a, b)
    <2>1. PICK f1 : f1 = Then(Then(<< >>, a[1]), b[1])
      OBVIOUS
    <2>2. PICK f2 : f2 = Then(Then(f1, a[2]), b[2])
      OBVIOUS
    <2>3. PICK f3 : f3 = Then(Then(f2, a[3]), b[3])
      OBVIOUS
    <2>4. PICK f4 : f4 = Then(Then(f3, a[4]), b[4])
      OBVIOUS
    <2>5. PICK f : f = [n \in 0..4 |-> IF n = 0 THEN << >> ELSE IF n = 1 THEN f1
                                         ELSE IF n = 2 THEN f2 ELSE IF n = 3 THEN f3 ELSE f4]
      OBVIOUS
    <2>6. ASSUME NEW n \in 0..4
          PROVE  f[n] = IF n = 0 THEN << >> ELSE Then(Then(f[n - 1], a[n]), b[n])
      <3>1. f[0] = << >> /\ f[1] = f1 /\ f[2] = f2 /\ f[3] = f3 /\ f[4] = f4
        BY <2>5
      <3>2. CASE n = 0
        BY <3>1, <3>2
      <3>3. CASE n = 1
        BY <2>1, <3>1, <3>3
      <3>4. CASE n = 2
        BY <2>2, <3>1, <3>4
      <3>5. CASE n = 3
        BY <2>3, <3>1, <3>5
      <3>6. CASE n = 4
        BY <2>4, <3>1, <3>6
      <3> QED BY <3>2, <3>3, <3>4, <3>5, <3>6
    <2>7. f = Paired(f, a, b)
      BY <2>5, <2>6 DEF Paired
    <2> QED BY <2>7
  <1>2. it[0] = << >> /\ \A n \in 1..4 : it[n] = Then(Then(it[n - 1], a[n]), b[n])
    BY <1>1 DEF Paired
  <1>3. /\ it[1] = Then(Then(it[0], a[1]), b[1]) /\ it[2] = Then(Then(it[1], a[2]), b[2])
        /\ it[3] = Then(Then(it[2], a[3]), b[3]) /\ it[4] = Then(Then(it[3], a[4]), b[4])
    BY <1>2
  <1>4. Lists(it[0], {})
    BY <1>2, ListsNone
  <1>5. Lists(it[1], {} \cup E[1])
    BY <1>3, <1>4
  <1>6. Lists(it[2], ({} \cup E[1]) \cup E[2])
    BY <1>3, <1>5
  <1>7. Lists(it[3], (({} \cup E[1]) \cup E[2]) \cup E[3])
    BY <1>3, <1>6
  <1>8. Lists(it[4], ((({} \cup E[1]) \cup E[2]) \cup E[3]) \cup E[4])
    BY <1>3, <1>7
  <1>9. AllOf(E, 4) = ((({} \cup E[1]) \cup E[2]) \cup E[3]) \cup E[4]
    <2>1. 1..4 = {1, 2, 3, 4}
      OBVIOUS
    <2> QED BY <2>1 DEF AllOf
  <1> QED BY <1>8, <1>9

LEMMA BackendAffixesLists ==
  ASSUME NEW w
  PROVE  Lists(BackendAffixes(w), AffixSet(NoPunct(w), 4))
  <1>1. PICK c : c = NoPunct(w)
    OBVIOUS
  <1>2. PICK a, b, E : /\ a = [n \in 1..4 |-> One(<<"prefix", n, Prefix(c, n)>>)]
                       /\ b = [n \in 1..4 |-> One(<<"suffix", n, Suffix(c, n)>>)]
                       /\ E = [n \in 1..4 |-> AffixPair(c, n)]
    OBVIOUS
  <1>3. PICK it : it = CHOOSE u : u = Paired(u, a, b)
    OBVIOUS
  <1>4. BackendAffixes(w) = it[4]
    <2>1. \A u : Paired(u, a, b) =
                   [n \in 0..4 |-> IF n = 0 THEN << >>
                       ELSE Then(Then(u[n - 1], One(<<"prefix", n, Prefix(c, n)>>)),
                                 One(<<"suffix", n, Suffix(c, n)>>))]
      <3>1. \A n \in 0..4 : n # 0 => /\ a[n] = One(<<"prefix", n, Prefix(c, n)>>)
                                     /\ b[n] = One(<<"suffix", n, Suffix(c, n)>>)
        BY <1>2
      <3> QED BY <3>1 DEF Paired
    <2>2. it = CHOOSE u : u =
                   [n \in 0..4 |-> IF n = 0 THEN << >>
                       ELSE Then(Then(u[n - 1], One(<<"prefix", n, Prefix(c, n)>>)),
                                 One(<<"suffix", n, Suffix(c, n)>>))]
      BY <1>3, <2>1
    <2> QED BY <1>1, <2>2 DEF BackendAffixes, Then
  <1>5. ASSUME NEW n \in 1..4, NEW s, NEW T, Lists(s, T)
        PROVE  Lists(Then(Then(s, a[n]), b[n]), T \cup E[n])
    <2>1. PICK P, S : /\ P = {Feature(<<"prefix", n, Prefix(c, n)>>, 10)}
                      /\ S = {Feature(<<"suffix", n, Suffix(c, n)>>, 10)}
      OBVIOUS
    <2>2. Lists(a[n], P) /\ Lists(b[n], S)
      BY <1>2, <2>1, ListsFlag
    <2>3. Lists(Then(s, a[n]), T \cup P)
      BY <1>5, <2>2, ThenLists
    <2>4. Lists(Then(Then(s, a[n]), b[n]), (T \cup P) \cup S)
      BY <2>2, <2>3, ThenLists
    <2>5. (T \cup P) \cup S = T \cup E[n]
      BY <1>2, <2>1 DEF AffixPair
    <2> QED BY <2>4, <2>5
  <1>6. Lists(it[4], AllOf(E, 4))
    BY <1>3, <1>5, PairedLists
  <1>7. AffixSet(c, 4) = AllOf(E, 4)
    BY <1>2 DEF AffixSet, AllOf
  <1> QED BY <1>1, <1>4, <1>6, <1>7

\* One neighbour's feature
\* The feature of Neighbour(), and the neighbours up to a distance
Beside(kind, n, words, p, beyond) ==
    IF p \in DOMAIN words THEN Feature(<<kind, n, words[p]>>, 8)
                          ELSE Feature(<<kind, n, beyond>>, 5)

PrevSet(words, i, m) == {Beside("prev", n, words, i - n, <<"B", "O", "S">>) : n \in 1..m}
NextSet(words, i, m) == {Beside("next", n, words, i + n, <<"E", "O", "S">>) : n \in 1..m}

\* The loop that joins a[1], a[2] and so on
\* The loop that joins a[1], a[2] and so on
Members(x, m) == {x[n] : n \in 1..m}
Single(u, a, m) == [n \in 0..m |-> IF n = 0 THEN << >> ELSE Then(u[n - 1], a[n])]

LEMMA SingleLists ==
  ASSUME NEW m \in 2..3, NEW a, NEW x, \A n \in 1..m : Lists(a[n], {x[n]}),
         NEW it, it = CHOOSE u : u = Single(u, a, m)
  PROVE  Lists(it[m], Members(x, m))
  <1>1. m = 2 \/ m = 3
    OBVIOUS
  <1>2. it = Single(it, a, m)
    <2>1. PICK f1 : f1 = Then(<< >>, a[1])
      OBVIOUS
    <2>2. PICK f2 : f2 = Then(f1, a[2])
      OBVIOUS
    <2>3. PICK f3 : f3 = Then(f2, a[3])
      OBVIOUS
    <2>4. PICK f : f = [n \in 0..m |-> IF n = 0 THEN << >> ELSE IF n = 1 THEN f1
                                         ELSE IF n = 2 THEN f2 ELSE f3]
      OBVIOUS
    <2>5. ASSUME NEW n \in 0..m
          PROVE  f[n] = IF n = 0 THEN << >> ELSE Then(f[n - 1], a[n])
      <3>1. f[0] = << >> /\ f[1] = f1 /\ f[2] = f2 /\ (m = 3 => f[3] = f3)
        BY <1>1, <2>4
      <3>2. CASE n = 0
        BY <3>1, <3>2
      <3>3. CASE n = 1
        BY <2>1, <3>1, <3>3
      <3>4. CASE n = 2
        BY <2>2, <3>1, <3>4
      <3>5. CASE n = 3
        BY <1>1, <2>3, <3>1, <3>5
      <3> QED BY <1>1, <3>2, <3>3, <3>4, <3>5
    <2>6. f = [n \in 0..m |-> f[n]]
      BY <2>4
    <2>7. PICK g : g = [n \in 0..m |-> IF n = 0 THEN << >> ELSE Then(f[n - 1], a[n])]
      OBVIOUS
    <2>8. \A n \in 0..m : f[n] = g[n]
      BY <2>5, <2>7
    <2>9. f = g
      BY <2>6, <2>7, <2>8
    <2>10. f = Single(f, a, m)
      BY <2>7, <2>9 DEF Single
    <2> QED BY <2>10, Zenon
  <1>3. it[0] = << >> /\ \A n \in 1..m : it[n] = Then(it[n - 1], a[n])
    <2>1. PICK f : f = Single(it, a, m)
      OBVIOUS
    <2>2. f[0] = << >> /\ \A n \in 1..m : f[n] = Then(it[n - 1], a[n])
      BY <2>1 DEF Single
    <2> QED BY <1>2, <2>1, <2>2
  <1>4. /\ it[1] = Then(it[0], a[1]) /\ it[2] = Then(it[1], a[2])
        /\ m = 3 => it[3] = Then(it[2], a[3])
    BY <1>1, <1>3
  <1>5. Lists(a[1], {x[1]}) /\ Lists(a[2], {x[2]}) /\ (m = 3 => Lists(a[3], {x[3]}))
    BY <1>1
  <1>6. Lists(it[0], {})
    BY <1>3, ListsNone
  <1>7. Lists(it[1], {} \cup {x[1]})
    BY <1>4, <1>5, <1>6, ThenLists
  <1>8. Lists(it[2], ({} \cup {x[1]}) \cup {x[2]})
    BY <1>4, <1>5, <1>7, ThenLists
  <1>9. CASE m = 2
    <2>1. 1..m = {1, 2}
      BY <1>9
    <2>2. Members(x, m) = ({} \cup {x[1]}) \cup {x[2]}
      BY <2>1 DEF Members
    <2> QED BY <1>8, <1>9, <2>2
  <1>10. CASE m = 3
    <2>1. Lists(it[3], (({} \cup {x[1]}) \cup {x[2]}) \cup {x[3]})
      BY <1>4, <1>5, <1>8, <1>10, ThenLists
    <2>2. 1..m = {1, 2, 3}
      BY <1>10
    <2>3. Members(x, m) = (({} \cup {x[1]}) \cup {x[2]}) \cup {x[3]}
      BY <2>2 DEF Members
    <2> QED BY <1>10, <2>1, <2>3
  <1> QED BY <1>1, <1>9, <1>10

LEMMA ContextLists ==
  ASSUME NEW words, NEW i, NEW m \in 2..3
  PROVE  Lists(ContextFeatures(words, i, m), PrevSet(words, i, m) \cup NextSet(words, i, m))
  <1>1. PICK a, b : /\ a = [n \in 1..m |-> Neighbour("prev", n, words, i - n, <<"B", "O", "S">>)]
                    /\ b = [n \in 1..m |-> Neighbour("next", n, words, i + n, <<"E", "O", "S">>)]
    OBVIOUS
  <1>2. PICK x, y : /\ x = [n \in 1..m |-> Beside("prev", n, words, i - n, <<"B", "O", "S">>)]
                    /\ y = [n \in 1..m |-> Beside("next", n, words, i + n, <<"E", "O", "S">>)]
    OBVIOUS
  <1>3. PICK s, t : /\ s = CHOOSE u : u = Single(u, a, m)
                    /\ t = CHOOSE u : u = Single(u, b, m)
    OBVIOUS
  <1>4. ContextFeatures(words, i, m) = s[m] \o t[m]
    <2>1. \A n \in 0..m : n # 0 => n \in 1..m
      OBVIOUS
    <2>2. \A u : Single(u, a, m) = [n \in 0..m |-> IF n = 0 THEN << >>
              ELSE u[n - 1] \o Neighbour("prev", n, words, i - n, <<"B", "O", "S">>)]
      <3>1. \A n \in 0..m : n # 0 => a[n] = Neighbour("prev", n, words, i - n, <<"B", "O", "S">>)
        BY <1>1, <2>1
      <3> QED BY <3>1 DEF Single, Then
    <2>3. \A u : Single(u, b, m) = [n \in 0..m |-> IF n = 0 THEN << >>
              ELSE u[n - 1] \o Neighbour("next", n, words, i + n, <<"E", "O", "S">>)]
      <3>1. \A n \in 0..m : n # 0 => b[n] = Neighbour("next", n, words, i + n, <<"E", "O", "S">>)
        BY <1>1, <2>1
      <3> QED BY <3>1 DEF Single, Then
    <2>4. s = CHOOSE u : u = [n \in 0..m |-> IF n = 0 THEN << >>
              ELSE u[n - 1] \o Neighbour("prev", n, words, i - n, <<"B", "O", "S">>)]
      BY <1>3, <2>2
    <2>5. t = CHOOSE u : u = [n \in 0..m |-> IF n = 0 THEN << >>
              ELSE u[n - 1] \o Neighbour("next", n, words, i + n, <<"E", "O", "S">>)]
      BY <1>3, <2>3
    <2> QED BY <2>4, <2>5 DEF ContextFeatures
  <1>5. \A n \in 1..m : Lists(a[n], {x[n]}) /\ Lists(b[n], {y[n]})
    BY <1>1, <1>2, ListsOne DEF Neighbour, Beside
  <1>6. Lists(s[m], Members(x, m))
    BY <1>3, <1>5, SingleLists
  <1>7. Lists(t[m], Members(y, m))
    BY <1>3, <1>5, SingleLists
  <1>8. PrevSet(words, i, m) = Members(x, m) /\ NextSet(words, i, m) = Members(y, m)
    BY <1>2 DEF PrevSet, NextSet, Members
  <1> QED BY <1>4, <1>6, <1>7, <1>8, JoinLists

LEMMA TrainerAffixesLists ==
  ASSUME NEW w, NEW m \in Nat, m = Atmost(4, NoPunct(w))
  PROVE  Lists(TrainerAffixes(w), AffixSet(NoPunct(w), m))
  <1>1. PICK c : c = NoPunct(w)
    OBVIOUS
  <1>2. PICK s, t : /\ s = [n \in 1..m |-> Feature(<<"prefix", n, Prefix(c, n)>>, 10)]
                    /\ t = [n \in 1..m |-> Feature(<<"suffix", n, Suffix(c, n)>>, 10)]
    OBVIOUS
  <1>3. TrainerAffixes(w) = s \o t
    BY <1>1, <1>2 DEF TrainerAffixes
  <1>4. PICK S, T : /\ S = {Feature(<<"prefix", n, Prefix(c, n)>>, 10) : n \in 1..m}
                    /\ T = {Feature(<<"suffix", n, Suffix(c, n)>>, 10) : n \in 1..m}
    OBVIOUS
  <1>5. \A n \in 1..m : s[n] \in S /\ t[n] \in T
    BY <1>2, <1>4
  <1>6. s \in [1..m -> S] /\ t \in [1..m -> T]
    BY <1>2, <1>5
  <1>7. s \in Seq(S) /\ t \in Seq(T) /\ DOMAIN s = 1..m /\ DOMAIN t = 1..m
    BY <1>6
  <1>8. Lists(s, S) /\ Lists(t, T)
    <2>1. ToSet(s) = S /\ ToSet(t) = T
      BY <1>2, <1>4, <1>7 DEF ToSet
    <2> QED BY <1>7, <2>1 DEF Lists
  <1>9. Lists(s \o t, S \cup T)
    BY <1>8, JoinLists
  <1>10. S \cup T = AffixSet(c, m)
    <2>1. ASSUME NEW n \in 1..m
          PROVE  AffixPair(c, n) \subseteq S \cup T
      BY <1>4 DEF AffixPair
    <2>2. ASSUME NEW f \in S PROVE f \in AffixSet(c, m)
      <3>1. PICK n \in 1..m : f = Feature(<<"prefix", n, Prefix(c, n)>>, 10)
        BY <1>4, <2>2
      <3>2. f \in AffixPair(c, n)
        BY <3>1 DEF AffixPair
      <3> QED BY <3>2 DEF AffixSet
    <2>3. ASSUME NEW f \in T PROVE f \in AffixSet(c, m)
      <3>1. PICK n \in 1..m : f = Feature(<<"suffix", n, Suffix(c, n)>>, 10)
        BY <1>4, <2>3
      <3>2. f \in AffixPair(c, n)
        BY <3>1 DEF AffixPair
      <3> QED BY <3>2 DEF AffixSet
    <2> QED BY <2>1, <2>2, <2>3 DEF AffixSet
  <1> QED BY <1>1, <1>3, <1>9, <1>10

\* All features of a token, for a backend and for the training tool
BackendSet(words, i) ==
    LET w == words[i]
    IN TokenSet(w) \cup {Feature(<<"shape", Shape(w)>>, 10)} \cup AffixSet(NoPunct(w), 4)
       \cup BackendCaseSet(w) \cup BackendLengthSet(w) \cup BackendCharactersSet(w)
       \cup PrevSet(words, i, 3) \cup NextSet(words, i, 3) \cup BackendPositionSet(words, i)

TrainerSet(words, i) ==
    LET w == words[i]
    IN TokenSet(w) \cup AffixSet(NoPunct(w), Atmost(4, NoPunct(w))) \cup TrainerCaseSet(w)
       \cup TrainerLengthSet(w) \cup TrainerCharactersSet(w)
       \cup PrevSet(words, i, 2) \cup NextSet(words, i, 2) \cup TrainerPositionSet(words, i)
       \cup {Feature(<<"bias">>, 10)}

LEMMA BackendLists ==
  ASSUME NEW words, NEW i
  PROVE  Lists(BackendFeatures(words, i), BackendSet(words, i))
  <1>1. PICK w : w = words[i]
    OBVIOUS
  <1>2. PICK s1, S1 : s1 = TokenFeatures(w) /\ S1 = TokenSet(w) /\ Lists(s1, S1)
    BY TokenFeaturesLists
  <1>3. PICK s2, S2 : /\ s2 = One(<<"shape", Shape(w)>>)
                      /\ S2 = {Feature(<<"shape", Shape(w)>>, 10)} /\ Lists(s2, S2)
    BY ListsFlag
  <1>4. PICK s3, S3 : s3 = BackendAffixes(w) /\ S3 = AffixSet(NoPunct(w), 4) /\ Lists(s3, S3)
    BY BackendAffixesLists
  <1>5. PICK s4, S4 : s4 = BackendCase(w) /\ S4 = BackendCaseSet(w) /\ Lists(s4, S4)
    BY BackendCaseLists
  <1>6. PICK s5, S5 : s5 = BackendLength(w) /\ S5 = BackendLengthSet(w) /\ Lists(s5, S5)
    BY BackendLengthLists
  <1>7. PICK s6, S6 : s6 = BackendCharacters(w) /\ S6 = BackendCharactersSet(w) /\ Lists(s6, S6)
    BY BackendCharactersLists
  <1>8. PICK s7, S7 : /\ s7 = ContextFeatures(words, i, 3)
                      /\ S7 = PrevSet(words, i, 3) \cup NextSet(words, i, 3) /\ Lists(s7, S7)
    <2>1. 3 \in 2..3
      OBVIOUS
    <2>2. Lists(ContextFeatures(words, i, 3), PrevSet(words, i, 3) \cup NextSet(words, i, 3))
      BY <2>1, ContextLists
    <2> QED BY <2>2
  <1>9. PICK s8, S8 : /\ s8 = BackendPosition(words, i)
                      /\ S8 = BackendPositionSet(words, i) /\ Lists(s8, S8)
    BY BackendPositionLists
  <1>10. Lists(s1 \o s2, S1 \cup S2)
    BY <1>2, <1>3, JoinLists
  <1>11. Lists((s1 \o s2) \o s3, (S1 \cup S2) \cup S3)
    BY <1>4, <1>10, JoinLists
  <1>12. Lists(((s1 \o s2) \o s3) \o s4, ((S1 \cup S2) \cup S3) \cup S4)
    BY <1>5, <1>11, JoinLists
  <1>13. Lists((((s1 \o s2) \o s3) \o s4) \o s5, (((S1 \cup S2) \cup S3) \cup S4) \cup S5)
    BY <1>6, <1>12, JoinLists
  <1>14. Lists(((((s1 \o s2) \o s3) \o s4) \o s5) \o s6,
               ((((S1 \cup S2) \cup S3) \cup S4) \cup S5) \cup S6)
    BY <1>7, <1>13, JoinLists
  <1>15. Lists((((((s1 \o s2) \o s3) \o s4) \o s5) \o s6) \o s7,
               (((((S1 \cup S2) \cup S3) \cup S4) \cup S5) \cup S6) \cup S7)
    BY <1>8, <1>14, JoinLists
  <1>16. Lists(((((((s1 \o s2) \o s3) \o s4) \o s5) \o s6) \o s7) \o s8,
               ((((((S1 \cup S2) \cup S3) \cup S4) \cup S5) \cup S6) \cup S7) \cup S8)
    BY <1>9, <1>15, JoinLists
  <1>17. BackendFeatures(words, i) = ((((((s1 \o s2) \o s3) \o s4) \o s5) \o s6) \o s7) \o s8
    BY <1>1, <1>2, <1>3, <1>4, <1>5, <1>6, <1>7, <1>8, <1>9 DEF BackendFeatures
  <1>18. BackendSet(words, i)
        = ((((((S1 \cup S2) \cup S3) \cup S4) \cup S5) \cup S6) \cup S7) \cup S8
    BY <1>1, <1>2, <1>3, <1>4, <1>5, <1>6, <1>7, <1>8, <1>9 DEF BackendSet
  <1> QED BY <1>16, <1>17, <1>18

LEMMA TrainerLists ==
  ASSUME NEW words, NEW i, Atmost(4, NoPunct(words[i])) \in Nat
  PROVE  Lists(TrainerFeatures(words, i), TrainerSet(words, i))
  <1>1. PICK w : w = words[i]
    OBVIOUS
  <1>2. PICK s1, S1 : s1 = TokenFeatures(w) /\ S1 = TokenSet(w) /\ Lists(s1, S1)
    BY TokenFeaturesLists
  <1>3. PICK s2, S2 : /\ s2 = TrainerAffixes(w)
                      /\ S2 = AffixSet(NoPunct(w), Atmost(4, NoPunct(w))) /\ Lists(s2, S2)
    BY <1>1, TrainerAffixesLists
  <1>4. PICK s3, S3 : s3 = TrainerCase(w) /\ S3 = TrainerCaseSet(w) /\ Lists(s3, S3)
    BY TrainerCaseLists
  <1>5. PICK s4, S4 : s4 = TrainerLength(w) /\ S4 = TrainerLengthSet(w) /\ Lists(s4, S4)
    BY TrainerLengthLists
  <1>6. PICK s5, S5 : s5 = TrainerCharacters(w) /\ S5 = TrainerCharactersSet(w) /\ Lists(s5, S5)
    BY TrainerCharactersLists
  <1>7. PICK s6, S6 : /\ s6 = ContextFeatures(words, i, 2)
                      /\ S6 = PrevSet(words, i, 2) \cup NextSet(words, i, 2) /\ Lists(s6, S6)
    <2>1. 2 \in 2..3
      OBVIOUS
    <2>2. Lists(ContextFeatures(words, i, 2), PrevSet(words, i, 2) \cup NextSet(words, i, 2))
      BY <2>1, ContextLists
    <2> QED BY <2>2
  <1>8. PICK s7, S7 : /\ s7 = TrainerPosition(words, i)
                      /\ S7 = TrainerPositionSet(words, i) /\ Lists(s7, S7)
    BY TrainerPositionLists
  <1>9. PICK s8, S8 : /\ s8 = One(<<"bias">>)
                      /\ S8 = {Feature(<<"bias">>, 10)} /\ Lists(s8, S8)
    BY ListsFlag
  <1>10. Lists(s1 \o s2, S1 \cup S2)
    BY <1>2, <1>3, JoinLists
  <1>11. Lists((s1 \o s2) \o s3, (S1 \cup S2) \cup S3)
    BY <1>4, <1>10, JoinLists
  <1>12. Lists(((s1 \o s2) \o s3) \o s4, ((S1 \cup S2) \cup S3) \cup S4)
    BY <1>5, <1>11, JoinLists
  <1>13. Lists((((s1 \o s2) \o s3) \o s4) \o s5, (((S1 \cup S2) \cup S3) \cup S4) \cup S5)
    BY <1>6, <1>12, JoinLists
  <1>14. Lists(((((s1 \o s2) \o s3) \o s4) \o s5) \o s6,
               ((((S1 \cup S2) \cup S3) \cup S4) \cup S5) \cup S6)
    BY <1>7, <1>13, JoinLists
  <1>15. Lists((((((s1 \o s2) \o s3) \o s4) \o s5) \o s6) \o s7,
               (((((S1 \cup S2) \cup S3) \cup S4) \cup S5) \cup S6) \cup S7)
    BY <1>8, <1>14, JoinLists
  <1>16. Lists(((((((s1 \o s2) \o s3) \o s4) \o s5) \o s6) \o s7) \o s8,
               ((((((S1 \cup S2) \cup S3) \cup S4) \cup S5) \cup S6) \cup S7) \cup S8)
    BY <1>9, <1>15, JoinLists
  <1>17. TrainerFeatures(words, i) = ((((((s1 \o s2) \o s3) \o s4) \o s5) \o s6) \o s7) \o s8
    BY <1>1, <1>2, <1>3, <1>4, <1>5, <1>6, <1>7, <1>8, <1>9 DEF TrainerFeatures
  <1>18. TrainerSet(words, i)
        = ((((((S1 \cup S2) \cup S3) \cup S4) \cup S5) \cup S6) \cup S7) \cup S8
    BY <1>1, <1>2, <1>3, <1>4, <1>5, <1>6, <1>7, <1>8, <1>9 DEF TrainerSet
  <1> QED BY <1>16, <1>17, <1>18

-----------------------------------------------------------------------------
(* What both extract means the same. *)

\* What the training tool may call a feature: by the lengths of affixes and
\* the distances of neighbours a backend's names are told from those.
TrainedName(q) ==
    /\ \/ q[1] \in {"token", "token_lower", "nopunc", "prefix", "suffix", "is_capitalized",
                    "is_all_caps", "is_all_lower", "length:", "has_digit", "prev", "next"}
       \/ q \in TrainerOnly
    /\ q[1] \in {"prefix", "suffix"} => q[2] = Len(q[3])
    /\ q[1] \in {"prev", "next"} => q[2] \in 1..2

LEMMA NoPunctIs ==
  ASSUME CharsAssumption, NEW w \in Seq(Chars)
  PROVE  NoPunct(w) \in Seq(Chars) /\ Len(NoPunct(w)) \in Nat
  <1>1. PICK l : l = LowerCase(w)
    OBVIOUS
  <1>2. \A i \in DOMAIN w : l[i] \in Chars
    <2>1. \A i \in DOMAIN w : w[i] \in Chars
      OBVIOUS
    <2> QED BY <1>1, <2>1 DEF LowerCase, CharsAssumption, Chars
  <1>3. l \in [1..Len(w) -> Chars]
    BY <1>1, <1>2 DEF LowerCase
  <1>4. l \in Seq(Chars)
    BY <1>3
  <1>5. NoPunct(w) \in Seq(Chars)
    BY <1>1, <1>4, AmongSelects DEF NoPunct
  <1> QED BY <1>5

LEMMA AtmostIs ==
  ASSUME NEW c \in Seq(Chars), NEW n \in Nat
  PROVE  /\ Atmost(n, c) \in Nat /\ Atmost(n, c) <= n /\ Atmost(n, c) <= Len(c)
         /\ n <= Len(c) => Atmost(n, c) = n
         /\ Len(Prefix(c, n)) = Atmost(n, c)
         /\ Len(Suffix(c, n)) = Atmost(n, c)
  <1>1. PICK l, m : l \in Nat /\ l = Len(c) /\ m = Atmost(n, c)
    OBVIOUS
  <1>2. m \in Nat /\ m <= n /\ m <= l /\ (n <= l => m = n)
    BY <1>1 DEF Atmost
  <1>3. Len(SubSeq(c, 1, m)) = m
    BY <1>1, <1>2
  <1>4. Len(SubSeq(c, l - m + 1, l)) = m
    BY <1>1, <1>2
  <1> QED BY <1>1, <1>2, <1>3, <1>4 DEF Prefix, Suffix

LEMMA AffixesOf ==
  ASSUME CharsAssumption, NEW w \in Seq(Chars)
  PROVE  \E c \in Seq(Chars), m \in Nat :
            c = NoPunct(w) /\ m = Atmost(4, c) /\ m <= Len(c) /\ m <= 4
  <1>1. PICK c \in Seq(Chars) : c = NoPunct(w)
    BY NoPunctIs
  <1>2. 4 \in Nat
    OBVIOUS
  <1>3. Atmost(4, c) \in Nat /\ Atmost(4, c) <= Len(c) /\ Atmost(4, c) <= 4
    BY <1>2, AtmostIs
  <1> QED BY <1>1, <1>3

\* Every feature of a set has a name of the training tool's.
AllTrained(S) == \A f \in S : TrainedName(f.name)

LEMMA TrainerNames ==
  ASSUME CharsAssumption, NEW words, NEW i, words[i] \in Seq(Chars)
  PROVE  AllTrained(TrainerSet(words, i))
  <1>1. PICK w : w = words[i] /\ w \in Seq(Chars)
    OBVIOUS
  <1>2. PICK c \in Seq(Chars), m \in Nat : c = NoPunct(w) /\ m = Atmost(4, c) /\ m <= Len(c)
    BY <1>1, AffixesOf
  <1>3. AllTrained(TokenSet(w))
    BY DEF AllTrained, TokenSet, Flag, Feature, TrainedName
  <1>4. AllTrained(AffixSet(c, m))
    <2>1. ASSUME NEW n \in 1..m
          PROVE  AllTrained(AffixPair(c, n))
      <3>1. n \in Nat /\ n <= Len(c)
        BY <1>2
      <3>2. Len(Prefix(c, n)) = n /\ Len(Suffix(c, n)) = n
        BY <3>1, AtmostIs
      <3>3. ASSUME NEW x, Len(x) = n
            PROVE  TrainedName(<<"prefix", n, x>>) /\ TrainedName(<<"suffix", n, x>>)
        BY <3>3 DEF TrainedName
      <3>4. /\ TrainedName(Feature(<<"prefix", n, Prefix(c, n)>>, 10).name)
            /\ TrainedName(Feature(<<"suffix", n, Suffix(c, n)>>, 10).name)
        BY <3>2, <3>3 DEF Feature
      <3> QED BY <3>4 DEF AllTrained, AffixPair
    <2> QED BY <2>1 DEF AllTrained, AffixSet
  <1>5. AllTrained(TrainerCaseSet(w))
    BY DEF AllTrained, TrainerCaseSet, Flag, Feature, TrainedName
  <1>6. AllTrained(TrainerLengthSet(w))
    BY DEF AllTrained, TrainerLengthSet, Flag, Feature, TrainedName, TrainerOnly
  <1>7. AllTrained(TrainerCharactersSet(w))
    BY DEF AllTrained, TrainerCharactersSet, Flag, Feature, TrainedName, TrainerOnly
  <1>8. AllTrained(PrevSet(words, i, 2)) /\ AllTrained(NextSet(words, i, 2))
    <2>1. ASSUME NEW n \in 1..2, NEW x
          PROVE  TrainedName(<<"prev", n, x>>) /\ TrainedName(<<"next", n, x>>)
      BY DEF TrainedName
    <2>2. ASSUME NEW n \in 1..2, NEW p, NEW x
          PROVE  /\ TrainedName(Beside("prev", n, words, p, x).name)
                 /\ TrainedName(Beside("next", n, words, p, x).name)
      BY <2>1 DEF Beside, Feature
    <2>3. ASSUME NEW f \in PrevSet(words, i, 2) PROVE TrainedName(f.name)
      BY <2>2 DEF PrevSet
    <2>4. ASSUME NEW f \in NextSet(words, i, 2) PROVE TrainedName(f.name)
      BY <2>2 DEF NextSet
    <2> QED BY <2>3, <2>4 DEF AllTrained
  <1>9. AllTrained(TrainerPositionSet(words, i))
    BY DEF AllTrained, TrainerPositionSet, Flag, Feature, TrainedName, TrainerOnly
  <1>10. AllTrained({Feature(<<"bias">>, 10)})
    BY DEF AllTrained, Feature, TrainedName, TrainerOnly
  <1> QED BY <1>1, <1>2, <1>3, <1>4, <1>5, <1>6, <1>7, <1>8, <1>9, <1>10
          DEF AllTrained, TrainerSet

\* What a backend may have besides
CaseOf(f, w) ==
    f.name \in {<<"is_all_caps">>, <<"is_all_lower">>} /\ Has(w, Digits \cup Punct)

\* Every feature of S whose name is one of the training tool's is in T.
SameAs(S, T, w) == \A f \in S : TrainedName(f.name) => f \in T \/ CaseOf(f, w)

LEMMA ServedNames ==
  ASSUME CharsAssumption, NEW words, NEW i, words[i] \in Seq(Chars)
  PROVE  SameAs(BackendSet(words, i), TrainerSet(words, i), words[i])
  <1>1. PICK w : w = words[i] /\ w \in Seq(Chars)
    OBVIOUS
  <1>2. PICK c \in Seq(Chars), m \in Nat : c = NoPunct(w) /\ m = Atmost(4, c) /\ m <= Len(c)
    BY <1>1, AffixesOf
  <1>3. PICK T : T = TrainerSet(words, i)
    OBVIOUS
  <1>4. /\ TokenSet(w) \subseteq T /\ AffixSet(c, m) \subseteq T /\ TrainerCaseSet(w) \subseteq T
        /\ TrainerLengthSet(w) \subseteq T /\ TrainerCharactersSet(w) \subseteq T
        /\ PrevSet(words, i, 2) \subseteq T /\ NextSet(words, i, 2) \subseteq T
    BY <1>1, <1>2, <1>3 DEF TrainerSet
  <1>5. SameAs(TokenSet(w), T, w)
    BY <1>4 DEF SameAs
  <1>6. SameAs({Feature(<<"shape", Shape(w)>>, 10)}, T, w)
    BY DEF SameAs, Feature, TrainedName, TrainerOnly
  <1>7. SameAs(AffixSet(c, 4), T, w)
    <2>1. ASSUME NEW n \in 1..4, NEW f \in AffixPair(c, n), TrainedName(f.name)
          PROVE  f \in AffixSet(c, m)
      <3>1. Len(Prefix(c, n)) = Atmost(n, c) /\ Len(Suffix(c, n)) = Atmost(n, c)
        BY AtmostIs
      <3>2. Atmost(n, c) \in Nat /\ Atmost(n, c) <= Len(c)
        BY AtmostIs
      <3>3. n = Atmost(n, c)
        BY <2>1, <3>1 DEF AffixPair, Feature, TrainedName
      <3>4. n \in 1..m
        BY <1>2, <3>2, <3>3 DEF Atmost
      <3> QED BY <2>1, <3>4 DEF AffixSet
    <2> QED BY <1>4, <2>1 DEF SameAs, AffixSet
  <1>8. SameAs(BackendCaseSet(w), T, w)
    <2>1. Has(w, Upper) \/ Has(w, Lower) \/ Has(w, Digits \cup Punct) \/ w = << >>
      BY <1>1 DEF Has, Chars
    <2>2. ASSUME ~Has(w, Lower), ~AllIn(w, Upper) PROVE Has(w, Digits \cup Punct)
      BY <1>1, <2>2 DEF Has, AllIn, Chars
    <2>3. ASSUME ~Has(w, Upper), ~AllIn(w, Lower) PROVE Has(w, Digits \cup Punct)
      BY <1>1, <2>3 DEF Has, AllIn, Chars
    <2>4. SameAs(Flag(w[1] \in Upper, <<"is_capitalized">>), T, w)
      BY <1>4 DEF SameAs, TrainerCaseSet
    <2>5. SameAs(Flag(~ Has(w, Lower), <<"is_all_caps">>), T, w)
      BY <1>4, <2>2 DEF SameAs, TrainerCaseSet, Flag, CaseOf, Feature
    <2>6. SameAs(Flag(~ Has(w, Upper), <<"is_all_lower">>), T, w)
      BY <1>4, <2>3 DEF SameAs, TrainerCaseSet, Flag, CaseOf, Feature
    <2>7. ASSUME NEW cond, NEW q, q \in {"abbrev", "initial", "comma", "hyphenated", "bracketed"}
          PROVE  SameAs(Flag(cond, <<q>>), T, w)
      BY <2>7 DEF SameAs, Flag, Feature, TrainedName, TrainerOnly
    <2>8. /\ SameAs(Flag(w[Len(w)] = ".", <<"abbrev">>), T, w)
          /\ SameAs(Flag(w[Len(w)] = "." /\ Len(w) <= 2, <<"initial">>), T, w)
          /\ SameAs(Flag(Has(w, {","}), <<"comma">>), T, w)
          /\ SameAs(Flag(Has(w, {"-"}), <<"hyphenated">>), T, w)
          /\ SameAs(Flag(Has(w, {"(", ")"}), <<"bracketed">>), T, w)
      BY <2>7
    <2> QED BY <2>4, <2>5, <2>6, <2>8 DEF BackendCaseSet, SameAs
  <1>9. SameAs(BackendLengthSet(w), T, w)
    <2>1. SameAs({Feature(<<"length">>, 10 * Len(w))}, T, w)
      BY DEF SameAs, Feature, TrainedName, TrainerOnly
    <2>2. Feature(<<"length:", Len(w)>>, 10) \in T
      BY <1>4 DEF TrainerLengthSet
    <2>3. SameAs({Feature(<<"length:>4">>, 10)}, T, w)
      BY DEF SameAs, Feature, TrainedName, TrainerOnly
    <2> QED BY <2>1, <2>2, <2>3 DEF BackendLengthSet, SameAs
  <1>10. SameAs(BackendCharactersSet(w), T, w)
    <2>1. SameAs(Flag(Has(w, Digits), <<"has_digit">>), T, w)
      BY <1>4 DEF SameAs, TrainerCharactersSet
    <2>2. ASSUME NEW cond, NEW q, q \in {"has_punctuation", "is_numeric", "roman"}
          PROVE  SameAs(Flag(cond, <<q>>), T, w)
      BY <2>2 DEF SameAs, Flag, Feature, TrainedName, TrainerOnly
    <2> QED BY <2>1, <2>2 DEF BackendCharactersSet, SameAs
  <1>11. SameAs(PrevSet(words, i, 3), T, w)
    <2>1. ASSUME NEW n \in 1..3, NEW p, NEW x, TrainedName(Beside("prev", n, words, p, x).name)
          PROVE  n \in 1..2
      BY <2>1 DEF Beside, Feature, TrainedName
    <2> QED BY <1>4, <2>1 DEF PrevSet, SameAs
  <1>12. SameAs(NextSet(words, i, 3), T, w)
    <2>1. ASSUME NEW n \in 1..3, NEW p, NEW x, TrainedName(Beside("next", n, words, p, x).name)
          PROVE  n \in 1..2
      BY <2>1 DEF Beside, Feature, TrainedName
    <2> QED BY <1>4, <2>1 DEF NextSet, SameAs
  <1>13. SameAs(BackendPositionSet(words, i), T, w)
    <2>1. ASSUME NEW cond, NEW q, q \in {"rawstring.start", "rawstring.end", "singleton",
                                         "pos_early", "pos_middle", "pos_late"}
          PROVE  SameAs(Flag(cond, <<q>>), T, w)
      BY <2>1 DEF SameAs, Flag, Feature, TrainedName, TrainerOnly
    <2>2. SameAs({Feature(<<"position", i - 1>>, 5)}, T, w)
      BY DEF SameAs, Feature, TrainedName, TrainerOnly
    <2>3. ASSUME NEW cond PROVE SameAs(Flag(cond, Third(words, i)), T, w)
      BY <2>1 DEF Third
    <2> QED BY <2>1, <2>2, <2>3 DEF BackendPositionSet, SameAs
  <1> QED BY <1>1, <1>2, <1>3, <1>5, <1>6, <1>7, <1>8, <1>9, <1>10, <1>11, <1>12, <1>13
          DEF BackendSet, SameAs

\* Names that a backend need not give
NotServed(q) == q \in TrainerOnly \/ (q[1] = "length:" /\ q[2] > 4)

\* S is in T but for those.
Within(S, T) == \A f \in S : f \in T \/ NotServed(f.name)

LEMMA TrainedServed ==
  ASSUME CharsAssumption, NEW words, NEW i, words[i] \in Seq(Chars)
  PROVE  Within(TrainerSet(words, i), BackendSet(words, i))
  <1>1. PICK w : w = words[i] /\ w \in Seq(Chars)
    OBVIOUS
  <1>2. PICK c \in Seq(Chars), m \in Nat : c = NoPunct(w) /\ m = Atmost(4, c) /\ m <= 4
    BY <1>1, AffixesOf
  <1>3. PICK T : T = BackendSet(words, i)
    OBVIOUS
  <1>4. /\ TokenSet(w) \subseteq T /\ AffixSet(c, 4) \subseteq T /\ BackendCaseSet(w) \subseteq T
        /\ BackendLengthSet(w) \subseteq T /\ BackendCharactersSet(w) \subseteq T
        /\ PrevSet(words, i, 3) \subseteq T /\ NextSet(words, i, 3) \subseteq T
    BY <1>1, <1>2, <1>3 DEF BackendSet
  <1>5. ASSUME NEW cond, NEW q, <<q>> \in TrainerOnly PROVE Within(Flag(cond, <<q>>), T)
    BY <1>5 DEF Within, NotServed, Flag, Feature
  <1>6. Within(AffixSet(c, m), T)
    <2>1. \A n \in 1..m : n \in 1..4
      BY <1>2
    <2> QED BY <1>4, <2>1 DEF Within, AffixSet
  <1>7. Within(TrainerCaseSet(w), T)
    <2>1. AllIn(w, Upper) => ~Has(w, Lower)
      BY DEF AllIn, Has, CharsAssumption
    <2>2. AllIn(w, Lower) => ~Has(w, Upper)
      BY DEF AllIn, Has, CharsAssumption
    <2>3. Within(Flag(w[1] \in Upper, <<"is_capitalized">>), T)
      BY <1>4 DEF Within, BackendCaseSet
    <2>4. Within(Flag(AllIn(w, Upper), <<"is_all_caps">>), T)
      BY <1>4, <2>1 DEF Within, BackendCaseSet, Flag
    <2>5. Within(Flag(AllIn(w, Lower), <<"is_all_lower">>), T)
      BY <1>4, <2>2 DEF Within, BackendCaseSet, Flag
    <2> QED BY <2>3, <2>4, <2>5 DEF Within, TrainerCaseSet
  <1>8. Within(TrainerLengthSet(w), T)
    <2>1. PICK l \in Nat : l = Len(w)
      BY <1>1
    <2>2. Within({Feature(<<"length:", l>>, 10)}, T)
      <3>1. CASE l <= 4
        BY <1>4, <2>1, <3>1 DEF Within, BackendLengthSet
      <3>2. CASE l > 4
        BY <3>2 DEF Within, NotServed, Feature
      <3> QED BY <2>1, <3>1, <3>2
    <2>3. /\ <<"is_single_char">> \in TrainerOnly /\ <<"is_two_char">> \in TrainerOnly
          /\ <<"is_short">> \in TrainerOnly /\ <<"is_long">> \in TrainerOnly
      BY DEF TrainerOnly
    <2> QED BY <1>5, <2>1, <2>2, <2>3 DEF Within, TrainerLengthSet
  <1>9. Within(TrainerCharactersSet(w), T)
    <2>1. Within(Flag(Has(w, Digits), <<"has_digit">>), T)
      BY <1>4 DEF Within, BackendCharactersSet
    <2>2. /\ <<"has_punct">> \in TrainerOnly /\ <<"has_hyphen">> \in TrainerOnly
          /\ <<"has_dot">> \in TrainerOnly /\ <<"ends_with_dot">> \in TrainerOnly
      BY DEF TrainerOnly
    <2> QED BY <1>5, <2>1, <2>2 DEF Within, TrainerCharactersSet
  <1>10. Within(PrevSet(words, i, 2), T) /\ Within(NextSet(words, i, 2), T)
    <2>1. \A n \in 1..2 : n \in 1..3
      OBVIOUS
    <2> QED BY <1>4, <2>1 DEF Within, PrevSet, NextSet
  <1>11. Within(TrainerPositionSet(words, i), T)
    <2>1. <<"is_first">> \in TrainerOnly /\ <<"is_last">> \in TrainerOnly
      BY DEF TrainerOnly
    <2> QED BY <1>5, <2>1 DEF Within, TrainerPositionSet
  <1>12. Within({Feature(<<"bias">>, 10)}, T)
    BY DEF Within, NotServed, Feature, TrainerOnly
  <1> QED BY <1>1, <1>2, <1>3, <1>4, <1>6, <1>7, <1>8, <1>9, <1>10, <1>11, <1>12
          DEF TrainerSet, Within

-----------------------------------------------------------------------------
(* Items, in the numbers of the dictionaries *)

\* S has features only.
AllFeatures(S) == \A f \in S : f = Feature(f.name, f.weight)

LEMMA BackendFeaturesAre ==
  ASSUME NEW words, NEW i
  PROVE  AllFeatures(BackendSet(words, i))
  <1>1. PICK w, c : w = words[i] /\ c = NoPunct(w)
    OBVIOUS
  <1>2. ASSUME NEW q, NEW v PROVE Feature(q, v) = Feature(Feature(q, v).name, Feature(q, v).weight)
    BY DEF Feature
  <1>3. ASSUME NEW q, NEW cond PROVE AllFeatures(Flag(cond, q))
    BY <1>2 DEF AllFeatures, Flag
  <1>4. ASSUME NEW q, NEW v PROVE AllFeatures({Feature(q, v)})
    BY <1>2 DEF AllFeatures
  <1>5. ASSUME NEW A, NEW B, AllFeatures(A), AllFeatures(B) PROVE AllFeatures(A \cup B)
    BY <1>5 DEF AllFeatures
  <1>6. AllFeatures(TokenSet(w))
    BY <1>3, <1>4, <1>5 DEF TokenSet
  <1>7. AllFeatures(AffixSet(c, 4))
    <2>1. \A n : AllFeatures(AffixPair(c, n))
      BY <1>4, <1>5 DEF AffixPair
    <2> QED BY <2>1 DEF AffixSet, AllFeatures
  <1>8. AllFeatures(BackendCaseSet(w))
    BY <1>3, <1>5 DEF BackendCaseSet
  <1>9. AllFeatures(BackendLengthSet(w))
    BY <1>4, <1>5 DEF BackendLengthSet
  <1>10. AllFeatures(BackendCharactersSet(w))
    BY <1>3, <1>5 DEF BackendCharactersSet
  <1>11. AllFeatures(PrevSet(words, i, 3)) /\ AllFeatures(NextSet(words, i, 3))
    <2>1. \A kind, n, p, x : Beside(kind, n, words, p, x)
             = Feature(Beside(kind, n, words, p, x).name, Beside(kind, n, words, p, x).weight)
      BY <1>2 DEF Beside
    <2> QED BY <2>1 DEF AllFeatures, PrevSet, NextSet
  <1>12. AllFeatures(BackendPositionSet(words, i))
    BY <1>3, <1>4, <1>5 DEF BackendPositionSet
  <1>13. AllFeatures({Feature(<<"shape", Shape(w)>>, 10)})
    BY <1>4
  <1> QED BY <1>1, <1>6, <1>7, <1>8, <1>9, <1>10, <1>11, <1>12, <1>13
          DEF BackendSet, AllFeatures

\* What Among() keeps, as a set
LEMMA AmongSet ==
  ASSUME NEW U, NEW s \in Seq(U), NEW S
  PROVE  Among(s, S) \in Seq(U) /\ ToSet(Among(s, S)) = ToSet(s) \cap S
  <1>1. PICK r : r = Among(s, S) /\ r \in Seq(U)
    BY AmongSelects
  <1>2. PICK f : Selects(r, f, s, S, Len(s))
    BY <1>1, AmongSelects
  <1>3. DOMAIN r = 1..Len(r) /\ DOMAIN s = 1..Len(s)
    BY <1>1
  <1>4. ASSUME NEW x \in ToSet(r) PROVE x \in ToSet(s) \cap S
    <2>1. PICK i \in 1..Len(r) : x = r[i]
      BY <1>3, <1>4 DEF ToSet
    <2>2. f[i] \in 1..Len(s) /\ x = s[f[i]] /\ x \in S
      BY <1>2, <2>1 DEF Selects
    <2> QED BY <1>3, <2>2 DEF ToSet
  <1>5. ASSUME NEW x \in ToSet(s), x \in S PROVE x \in ToSet(r)
    <2>1. PICK k \in 1..Len(s) : x = s[k]
      BY <1>3, <1>5 DEF ToSet
    <2>2. PICK i \in 1..Len(r) : f[i] = k
      BY <1>2, <1>5, <2>1 DEF Selects
    <2>3. r[i] = x
      BY <1>2, <2>1, <2>2 DEF Selects
    <2> QED BY <1>3, <2>3 DEF ToSet
  <1> QED BY <1>1, <1>4, <1>5

LEMMA GetAllIn ==
  ASSUME NEW U, NEW dict \in Seq(U), NEW s \in Seq(U)
  PROVE  GetAll(dict, s) \in Seq(U)
  <1> DEFINE n == Len(s)
             R == Seq(U)
             step == [p \in (1..n) \X R |-> Get(p[2], s[p[1]])]
             Body(iter) == [t \in SUBSET DOMAIN s |->
                              IF t = {} THEN dict ELSE Get(iter[t \ {Max(t)}], s[Max(t)])]
             it == CHOOSE iter : iter = Body(iter)
  <1>1. n \in Nat /\ DOMAIN s = 1..n /\ dict \in R
    OBVIOUS
  <1>2. step \in Steps(n, R) /\ \A k \in 1..n, r \in R : step[<<k, r>>] = Get(r, s[k])
    <2>1. \A k \in 1..n, r \in R : Get(r, s[k]) \in R
      BY DEF Get
    <2> HIDE DEF R
    <2> QED BY <2>1 DEF Steps
  <1>3. GetAll(dict, s) = it[DOMAIN s]
    BY DEF GetAll, FoldLeft, MapThenFoldSet
  <1> HIDE DEF n, R, step
  <1>4. PICK F : LeftFolds(F, n, R, dict, step)
    BY <1>1, <1>2, LeftFoldsExist
  <1>5. F = Body(F)
    <2>1. /\ F = [t \in SUBSET (1..n) |-> F[t]] /\ F[{}] = dict
          /\ \A t \in SUBSET (1..n) : F[t] \in R
      BY <1>4 DEF LeftFolds
    <2>2. \A t \in SUBSET (1..n) : t # {} => F[t] = Get(F[t \ {Max(t)}], s[Max(t)])
      BY <1>2, <1>4, <2>1 DEF LeftFolds
    <2> QED BY <1>1, <2>1, <2>2
  <1>6. it = Body(it)
    <2> HIDE DEF Body
    <2> QED BY <1>5
  <1> HIDE DEF it
  <1>7. /\ it[{}] = dict
        /\ \A t \in SUBSET (1..n) : t # {} => it[t] = Get(it[t \ {Max(t)}], s[Max(t)])
    BY <1>1, <1>6
  <1>8. \A t \in SUBSET (1..n) : t # {} /\ it[t \ {Max(t)}] \in R =>
            it[t] = step[<<Max(t), it[t \ {Max(t)}]>>]
    BY <1>2, <1>4, <1>7 DEF LeftFolds
  <1> DEFINE g == [k \in 0..n |-> it[1..k]]
  <1>9. Follows(g, n, R, dict, step)
    BY <1>1, <1>2, <1>7, <1>8, LeftFoldIs
  <1>10. g[n] = it[1..n]
    BY <1>1
  <1> HIDE DEF g
  <1>11. g[n] \in R
    BY <1>1, <1>9 DEF Follows
  <1> QED BY <1>1, <1>3, <1>10, <1>11 DEF R

LEMMA FlattenIn ==
  ASSUME NEW U, NEW s \in Seq(Seq(U))
  PROVE  FlattenSeq(s) \in Seq(U)
  <1>1. PICK n \in Nat : n = Len(s)
    OBVIOUS
  <1>2. CASE n = 0
    <2>1. s \in [1..0 -> U]
      <3>1. s \in [1..0 -> Seq(U)]
        <4>1. Len(s) = 0
          BY <1>1, <1>2
        <4>2. DOMAIN s = 1..Len(s) /\ s = [k \in DOMAIN s |-> s[k]]
          OBVIOUS
        <4>3. \A k \in 1..0 : FALSE
          OBVIOUS
        <4>4. s = [k \in 1..0 |-> s[k]]
          BY <4>1, <4>2
        <4> QED BY <4>3, <4>4
      <3>2. 1..0 = {}
        OBVIOUS
      <3>3. PICK g, E : g = s /\ E = 1..0
        OBVIOUS
      <3>4. g \in [E -> U]
        BY <3>1, <3>2, <3>3
      <3> QED BY <3>3, <3>4
    <2>2. s \in Seq(U)
      BY <2>1
    <2>3. FlattenSeq(s) = s
      BY <1>1, <1>2 DEF FlattenSeq
    <2> QED BY <2>2, <2>3
  <1>3. CASE n # 0
    <2> DEFINE R == Seq(U)
               Op(k, r) == IF k = 1 THEN s[k] ELSE Then(r, s[k])
               step == [p \in (1..n) \X R |-> Op(p[1], p[2])]
               Body(u) == [k \in 1..n |-> IF k = 1 THEN s[k] ELSE Then(u[k - 1], s[k])]
               it == CHOOSE u : u = Body(u)
    <2>1. \A k \in 1..n, r \in R : Op(k, r) \in R
      <3> SUFFICES ASSUME NEW k \in 1..n, NEW r \in R PROVE Op(k, r) \in R
        OBVIOUS
      <3>1. s[k] \in R
        BY <1>1
      <3>2. Then(r, s[k]) \in R
        BY <3>1 DEF Then
      <3> HIDE DEF R
      <3> QED BY <3>1, <3>2
    <2>2. FlattenSeq(s) = it[n]
      <3>1. FlattenSeq(s) = (CHOOSE u : u = [k \in 1..Len(s) |-> IF k = 1 THEN s[k]
                                                                ELSE Then(u[k - 1], s[k])])[Len(s)]
        BY <1>1, <1>3, Zenon DEF FlattenSeq, Then
      <3> QED BY <1>1, <3>1
    <2>3. << >> \in R
      OBVIOUS
    <2> HIDE DEF R
    <2>4. step \in Steps(n, R) /\ \A k \in 1..n, r \in R : step[<<k, r>>] = Op(k, r)
      <3> HIDE DEF Op
      <3> QED BY <2>1 DEF Steps
    <2> HIDE DEF step
    <2>5. PICK f : Follows(f, n, R, << >>, step)
      BY <2>3, <2>4, Recursion
    <2>6. PICK g : g = [k \in 1..n |-> f[k]]
      OBVIOUS
    <2>7. \A k \in 1..n : g[k] = IF k = 1 THEN s[k] ELSE Then(g[k - 1], s[k])
      <3>1. ASSUME NEW k \in 1..n PROVE f[k] = Op(k, f[k - 1])
        <4>1. k - 1 \in 0..n /\ f[k - 1] \in R
          BY <2>5 DEF Follows
        <4> HIDE DEF Op
        <4> QED BY <2>4, <2>5, <4>1 DEF Follows
      <3>2. \A k \in 1..n : k # 1 => k - 1 \in 1..n
        OBVIOUS
      <3> QED BY <2>6, <3>1, <3>2
    <2>8. g = Body(g)
      BY <2>6, <2>7
    <2>9. it = Body(it)
      <3> HIDE DEF Body
      <3> QED BY <2>8
    <2> HIDE DEF it
    <2>10. \A k \in 1..n : it[k] = Op(k, it[k - 1])
      BY <2>9
    <2> DEFINE P == {k \in Nat : k + 1 \in 1..n => it[k + 1] \in R}
    <2>11. 0 \in P
      <3>1. 1 \in 1..n /\ s[1] \in R
        BY <1>1, <1>3 DEF R
      <3>2. it[1] = s[1]
        BY <2>10, <3>1
      <3> QED BY <3>1, <3>2
    <2>12. ASSUME NEW k \in Nat, k \in P PROVE k + 1 \in P
      <3> SUFFICES ASSUME (k + 1) + 1 \in 1..n PROVE it[(k + 1) + 1] \in R
        OBVIOUS
      <3>1. k + 1 \in 1..n /\ ((k + 1) + 1) - 1 = k + 1
        OBVIOUS
      <3>2. it[k + 1] \in R
        BY <2>12, <3>1
      <3>3. it[(k + 1) + 1] = Op((k + 1) + 1, it[k + 1])
        BY <2>10, <3>1
      <3> HIDE DEF Op
      <3> QED BY <2>1, <3>2, <3>3
    <2>13. Nat \subseteq P
      <3> HIDE DEF P
      <3> QED BY <2>11, <2>12, Induction
    <2>14. n - 1 \in Nat /\ (n - 1) + 1 \in 1..n /\ (n - 1) + 1 = n
      BY <1>3
    <2>15. it[n] \in R
      BY <2>13, <2>14
    <2> QED BY <2>2, <2>15 DEF R
  <1> QED BY <1>2, <1>3

\* s is a sequence.
Listed(s) == s \in Seq(ToSet(s))

LEMMA SeqWithin ==
  ASSUME NEW A, NEW B, A \subseteq B, NEW s \in Seq(A)
  PROVE  s \in Seq(B)
  <1>1. PICK n \in Nat : n = Len(s)
    OBVIOUS
  <1>2. s = [i \in 1..n |-> s[i]] /\ \A i \in 1..n : s[i] \in B
    BY <1>1
  <1>3. s \in [1..n -> B]
    BY <1>2
  <1> QED BY <1>3

LEMMA ListedIs ==
  ASSUME NEW U, NEW s \in Seq(U)
  PROVE  /\ Listed(s) /\ ToSet(s) \subseteq U
         /\ Len(s) \in Nat /\ DOMAIN s = 1..Len(s)
  <1>1. PICK n \in Nat : n = Len(s)
    OBVIOUS
  <1>2. DOMAIN s = 1..n /\ s = [i \in 1..n |-> s[i]] /\ \A i \in 1..n : s[i] \in U
    BY <1>1
  <1>3. \A i \in 1..n : s[i] \in ToSet(s)
    BY <1>2 DEF ToSet
  <1>4. PICK V : V = ToSet(s)
    OBVIOUS
  <1>5. s \in [1..n -> V]
    BY <1>2, <1>3, <1>4
  <1>6. s \in Seq(V)
    BY <1>5
  <1>7. ToSet(s) \subseteq U
    BY <1>2 DEF ToSet
  <1> QED BY <1>1, <1>2, <1>4, <1>6, <1>7 DEF Listed

LEMMA ListedMore ==
  ASSUME NEW s, Listed(s), NEW x
  PROVE  /\ Len(s) \in Nat /\ DOMAIN s = 1..Len(s)
         /\ Listed(Append(s, x)) /\ Len(Append(s, x)) = Len(s) + 1
         /\ Append(s, x)[Len(s) + 1] = x
         /\ \A i \in 1..Len(s) : Append(s, x)[i] = s[i]
         /\ ToSet(Append(s, x)) \subseteq ToSet(s) \cup {x}
  <1>1. PICK A, V : A = ToSet(s) /\ V = A \cup {x}
    OBVIOUS
  <1>2. s \in Seq(A) /\ A \subseteq V
    BY <1>1 DEF Listed
  <1>3. s \in Seq(V) /\ x \in V
    BY <1>1, <1>2, SeqWithin
  <1>4. PICK t : t = Append(s, x)
    OBVIOUS
  <1>5. /\ t \in Seq(V) /\ Len(t) = Len(s) + 1 /\ t[Len(s) + 1] = x
        /\ \A i \in 1..Len(s) : t[i] = s[i]
        /\ Len(s) \in Nat /\ DOMAIN s = 1..Len(s)
    BY <1>3, <1>4
  <1>6. Listed(t) /\ ToSet(t) \subseteq V
    BY <1>5, ListedIs
  <1> QED BY <1>1, <1>4, <1>5, <1>6

\* A string has the place in the dictionary that its number says.
LEMMA IdIs ==
  ASSUME NEW dict, Listed(dict), NEW q, Contains(dict, q)
  PROVE  dict[Id(dict, q) + 1] = q
  <1>1. PICK D : D = DOMAIN dict
    OBVIOUS
  <1>2. D = 1..Len(dict) /\ Len(dict) \in Nat
    BY <1>1, ListedMore
  <1>3. \E n \in D : dict[n] = q
    BY <1>2 DEF Contains
  <1>4. PICK m : m = CHOOSE n \in D : dict[n] = q
    OBVIOUS
  <1>5. m \in D /\ dict[m] = q
    BY <1>3, <1>4
  <1>6. m \in Int
    BY <1>2, <1>5
  <1>7. Id(dict, q) = m - 1
    BY <1>1, <1>4 DEF Id
  <1> QED BY <1>5, <1>6, <1>7

\* The features that an item's numbers and values say
Named(dict, item) == {Feature(dict[item[c].aid + 1], item[c].value) : c \in DOMAIN item}

\* Those of S whose name has a number
KnownOf(dict, S) == {f \in S : Contains(dict, f.name)}

\* The item made of known features
Numbered(dict, known) ==
    [c \in DOMAIN known |-> [aid |-> Id(dict, known[c].name), value |-> known[c].weight]]

LEMMA NumberedNames ==
  ASSUME NEW dict, Listed(dict), NEW U, NEW known \in Seq(U),
         NEW S, ToSet(known) = KnownOf(dict, S), AllFeatures(S)
  PROVE  Named(dict, Numbered(dict, known)) = KnownOf(dict, S)
  <1>1. PICK item : item = Numbered(dict, known)
    OBVIOUS
  <1>2. DOMAIN item = DOMAIN known
    BY <1>1 DEF Numbered
  <1>3. ASSUME NEW c \in DOMAIN known
        PROVE  Feature(dict[item[c].aid + 1], item[c].value) = known[c]
    <2>1. PICK f : f = known[c]
      OBVIOUS
    <2>2. f \in S /\ Contains(dict, f.name)
      BY <2>1 DEF ToSet, KnownOf
    <2>3. item[c].aid = Id(dict, f.name) /\ item[c].value = f.weight
      BY <1>1, <2>1 DEF Numbered
    <2>4. dict[Id(dict, f.name) + 1] = f.name
      BY <2>2, IdIs
    <2>5. f = Feature(f.name, f.weight)
      BY <2>2 DEF AllFeatures
    <2> QED BY <2>1, <2>3, <2>4, <2>5
  <1>4. Named(dict, item) = {known[c] : c \in DOMAIN known}
    BY <1>2, <1>3 DEF Named
  <1> QED BY <1>1, <1>4 DEF ToSet

-----------------------------------------------------------------------------
(* The names that training numbers *)

LEMMA NameFeatures ==
  ASSUME CharsAssumption, NEW name \in Seq([text : Seq(Chars), label : STRING]),
         NEW feats, feats = [j \in DOMAIN name |-> TrainerFeatures(Texts(name), j)]
  PROVE  \E V : FlattenSeq(feats) \in Seq(V) /\ AllTrained(V)
  <1>1. PICK n, words : n \in Nat /\ n = Len(name) /\ words = Texts(name)
    OBVIOUS
  <1>2. DOMAIN name = 1..n /\ \A j \in 1..n : name[j].text \in Seq(Chars)
    <2>1. PICK R : R = [text : Seq(Chars), label : STRING]
      OBVIOUS
    <2>2. name \in Seq(R)
      BY <2>1
    <2>3. DOMAIN name = 1..n /\ \A j \in 1..n : name[j] \in R
      BY <1>1, <2>2
    <2>4. \A r \in R : r.text \in Seq(Chars)
      BY <2>1
    <2> QED BY <2>3, <2>4
  <1>3. \A j \in 1..n : words[j] \in Seq(Chars)
    BY <1>1, <1>2 DEF Texts
  <1>4. PICK E : E = [j \in 1..n |-> TrainerSet(words, j)]
    OBVIOUS
  <1>5. PICK V : V = AllOf(E, n)
    OBVIOUS
  <1>6. ASSUME NEW j \in 1..n
        PROVE  feats[j] \in Seq(V) /\ AllTrained(E[j])
    <2>1. PICK w : w = words[j] /\ w \in Seq(Chars)
      BY <1>3
    <2>2. Atmost(4, NoPunct(words[j])) \in Nat
      BY <2>1, AffixesOf
    <2>3. PICK s, S : s = TrainerFeatures(words, j) /\ S = TrainerSet(words, j) /\ Lists(s, S)
      BY <2>2, TrainerLists
    <2>4. S \subseteq V /\ s \in Seq(S)
      BY <1>4, <1>5, <2>3 DEF AllOf, Lists
    <2>5. s \in Seq(V)
      BY <2>4, SeqWithin
    <2>6. AllTrained(S)
      BY <2>1, <2>3, TrainerNames
    <2> QED BY <1>1, <1>2, <1>4, <2>3, <2>5, <2>6
  <1>7. feats \in Seq(Seq(V))
    <2>1. PICK R : R = Seq(V)
      OBVIOUS
    <2>2. feats \in [1..n -> R]
      BY <1>2, <1>6, <2>1
    <2>3. n \in Nat
      BY <1>1
    <2>4. feats \in Seq(R)
      BY <2>2, <2>3
    <2> QED BY <2>1, <2>4
  <1>8. AllTrained(V)
    BY <1>5, <1>6 DEF AllOf, AllTrained
  <1> QED BY <1>7, <1>8, FlattenIn

LEMMA NumberedTrained ==
  ASSUME NEW dict, Listed(dict), \A q \in ToSet(dict) : TrainedName(q),
         NEW V, NEW all \in Seq(V), AllTrained(V),
         NEW names, names = [c \in DOMAIN all |-> all[c].name],
         NEW d, d = GetAll(dict, names)
  PROVE  Listed(d) /\ \A q \in ToSet(d) : TrainedName(q)
  <1>1. PICK A : A = ToSet(dict)
    OBVIOUS
  <1>2. PICK U : U = A \cup {f.name : f \in V}
    OBVIOUS
  <1>3. names \in Seq(U)
    <2>1. PICK n \in Nat : n = Len(all)
      OBVIOUS
    <2>2. DOMAIN all = 1..n /\ \A c \in 1..n : all[c] \in V
      BY <2>1
    <2>3. names \in [1..n -> U]
      BY <1>2, <2>2
    <2> QED BY <2>3
  <1>4. dict \in Seq(U)
    <2>1. dict \in Seq(A) /\ A \subseteq U
      BY <1>1, <1>2 DEF Listed
    <2> QED BY <2>1, SeqWithin
  <1>5. d \in Seq(U)
    BY <1>3, <1>4, GetAllIn
  <1>6. Listed(d) /\ ToSet(d) \subseteq U
    BY <1>5, ListedIs
  <1>7. \A q \in U : TrainedName(q)
    BY <1>1, <1>2 DEF AllTrained
  <1> QED BY <1>6, <1>7

-----------------------------------------------------------------------------

\* What a step of training adds to
TrainedInv ==
    /\ corpus \in Corpora
    /\ Listed(data) /\ Listed(attrs)
    /\ \A q \in ToSet(attrs) : TrainedName(q)

\* An item has the features a backend finds for the token, as far as the model
\* has a number for their names.
FoundInv ==
    /\ pc = "training" => inst = << >>
    /\ Listed(inst)
    /\ Len(inst) <= Len(tokens)
    /\ pc = "features" => Len(inst) < Len(tokens)
    /\ \A i \in 1..Len(inst) : Named(attrs, inst[i]) = KnownOf(attrs, BackendSet(tokens, i))

ItemsInv == TrainedInv /\ FoundInv

LEMMA NothingListed == Listed(<< >>) /\ ToSet(<< >>) = {}
  BY ListsNone DEF Lists, Listed

LEMMA NoItems ==
  ASSUME tokens' \in Seq(Seq(Chars)), inst' = << >>, pc' # "features" PROVE FoundInv'
  <1>1. Listed(inst')
    BY NothingListed
  <1>2. PICK n \in Nat : n = Len(tokens')
    OBVIOUS
  <1>3. Len(inst') = 0 /\ 0 <= n /\ \A i \in 1..0 : FALSE
    BY <1>2
  <1> QED BY <1>1, <1>2, <1>3 DEF FoundInv

LEMMA TrainedInvStep ==
  ASSUME CharsAssumption, CorporaAssumption, TrainedInv, [Next]_vars
  PROVE  TrainedInv'
  <1>1. ASSUME UNCHANGED <<corpus, data, attrs>> PROVE TrainedInv'
    BY <1>1 DEF TrainedInv
  <1>2. CASE Convert
    <2>1. PICK x : data' = Append(data, x)
      BY <1>2 DEF Convert
    <2>2. Listed(data')
      BY <2>1, ListedMore DEF TrainedInv
    <2>3. PICK R : R = [text : Seq(Chars), label : STRING]
      OBVIOUS
    <2>4. corpus \in Seq(Seq(R)) /\ Len(data) \in Nat /\ Len(data) < Len(corpus)
      BY <1>2, <2>3, ListedMore DEF Convert, TrainedInv, CorporaAssumption
    <2>5. PICK name : name = corpus[Len(data) + 1]
      OBVIOUS
    <2>6. name \in Seq(R)
      BY <2>4, <2>5
    <2>7. PICK feats : feats = [j \in DOMAIN name |-> TrainerFeatures(Texts(name), j)]
      OBVIOUS
    <2>8. PICK all : all = FlattenSeq(feats)
      OBVIOUS
    <2>9. PICK V : all \in Seq(V) /\ AllTrained(V)
      BY <2>3, <2>6, <2>7, <2>8, NameFeatures
    <2>10. PICK names : names = [c \in DOMAIN all |-> all[c].name]
      OBVIOUS
    <2>11. PICK dict, d : dict = attrs /\ d = GetAll(dict, names)
      OBVIOUS
    <2>12. attrs' = d /\ corpus' = corpus
      BY <1>2, <2>5, <2>7, <2>8, <2>10, <2>11 DEF Convert
    <2>13. Listed(d) /\ \A q \in ToSet(d) : TrainedName(q)
      <3>1. Listed(dict) /\ \A q \in ToSet(dict) : TrainedName(q)
        BY <2>11 DEF TrainedInv
      <3> QED BY <2>9, <2>10, <2>11, <3>1, NumberedTrained
    <2> QED BY <2>2, <2>12, <2>13 DEF TrainedInv
  <1>3. CASE Train
    BY <1>1, <1>3 DEF Train
  <1>4. ASSUME NEW words \in Names, Call(words) PROVE TrainedInv'
    BY <1>1, <1>4 DEF Call, training
  <1>5. CASE CreateFeatureSet \/ ExtractFeatures \/ GetTagger \/ Predict
    BY <1>1, <1>5 DEF CreateFeatureSet, ExtractFeatures, GetTagger, Predict, training
  <1>6. CASE MakeResult \/ ToColumns \/ OutOfMemory
    BY <1>1, <1>6 DEF MakeResult, ToColumns, OutOfMemory, training
  <1>7. CASE UNCHANGED vars
    BY <1>1, <1>7 DEF vars, training
  <1> QED BY <1>2, <1>3, <1>4, <1>5, <1>6, <1>7 DEF Next

LEMMA FoundInvStep ==
  ASSUME ColumnsInv, ColumnsInv', TrainedInv, FoundInv, [Next]_vars
  PROVE  FoundInv'
  <1>1. ASSUME UNCHANGED <<attrs, tokens, inst>>, pc' # "training", pc' # "features"
        PROVE FoundInv'
    BY <1>1 DEF FoundInv
  <1>2. CASE Convert
    BY <1>2, NoItems DEF Convert, ColumnsInv, FoundInv
  <1>3. CASE Train
    BY <1>3, NoItems DEF Train, ColumnsInv, FoundInv
  <1>4. ASSUME NEW words \in Names, Call(words) PROVE FoundInv'
    BY <1>4, NoItems DEF Call, ColumnsInv
  <1>5. CASE CreateFeatureSet
    BY <1>5 DEF CreateFeatureSet, FoundInv, training
  <1>6. CASE ExtractFeatures
    <2>1. PICK n \in Nat : n = Len(inst)
      BY ListedMore DEF FoundInv
    <2>2. PICK feats, S : feats = BackendFeatures(tokens, n + 1) /\ S = BackendSet(tokens, n + 1)
      OBVIOUS
    <2>3. Lists(feats, S)
      BY <2>2, BackendLists
    <2>4. PICK K : K = {f \in ToSet(feats) : Known(f)}
      OBVIOUS
    <2>5. K = KnownOf(attrs, S)
      BY <2>3, <2>4 DEF KnownOf, Known, Lists
    <2>6. PICK known : known = Among(feats, K)
      OBVIOUS
    <2>7. known \in Seq(S) /\ ToSet(known) = KnownOf(attrs, S)
      <3>1. known \in Seq(S) /\ ToSet(known) = ToSet(feats) \cap K
        BY <2>3, <2>6, AmongSet DEF Lists
      <3> QED BY <2>4, <2>5, <3>1
    <2>8. PICK item : item = Numbered(attrs, known)
      OBVIOUS
    <2>9. inst' = Append(inst, item) /\ UNCHANGED <<attrs, tokens>>
      BY <1>6, <2>1, <2>2, <2>4, <2>6, <2>8 DEF ExtractFeatures, Numbered, training
    <2>10. Named(attrs, item) = KnownOf(attrs, S)
      <3>1. AllFeatures(S)
        BY <2>2, BackendFeaturesAre
      <3> QED BY <2>7, <2>8, <3>1, NumberedNames DEF TrainedInv
    <2>11. /\ Listed(inst') /\ Len(inst') = n + 1 /\ inst'[n + 1] = item
           /\ \A i \in 1..n : inst'[i] = inst[i]
      BY <2>1, <2>9, ListedMore DEF FoundInv
    <2>12. \A i \in 1..(n + 1) : i \in 1..n \/ i = n + 1
      OBVIOUS
    <2>13. \A i \in 1..(n + 1) : Named(attrs, inst'[i]) = KnownOf(attrs, BackendSet(tokens, i))
      BY <2>1, <2>2, <2>10, <2>11, <2>12 DEF FoundInv
    <2>14. n < Len(tokens) /\ Len(tokens) \in Nat /\ pc' \in {"predict", "item"}
      BY <1>6, <2>1 DEF ExtractFeatures, FoundInv, ColumnsInv
    <2>15. Len(inst') <= Len(tokens)
      BY <2>11, <2>14
    <2> QED BY <2>9, <2>11, <2>13, <2>14, <2>15 DEF FoundInv
  <1>7. CASE GetTagger \/ Predict
    BY <1>1, <1>7 DEF GetTagger, Predict, training
  <1>8. CASE MakeResult \/ ToColumns
    BY <1>1, <1>8 DEF MakeResult, ToColumns, training
  <1>9. CASE OutOfMemory
    BY <1>9, NoItems DEF OutOfMemory, ColumnsInv
  <1>10. CASE UNCHANGED vars
    BY <1>10 DEF vars, training, FoundInv
  <1> QED BY <1>2, <1>3, <1>4, <1>5, <1>6, <1>7, <1>8, <1>9, <1>10 DEF Next

\* What training has numbered has a name of the training tool's, and every
\* item of a call the features that were found and have a number.
THEOREM ItemsInvariant == Spec => []ItemsInv
  <1>1. Init => ItemsInv
    <2> SUFFICES ASSUME Init PROVE ItemsInv
      OBVIOUS
    <2>1. TrainedInv
      BY NothingListed DEF Init, TrainedInv
    <2>2. FoundInv
      <3>1. Len(<< >>) = 0 /\ 0 <= 0 /\ \A i \in 1..0 : FALSE
        OBVIOUS
      <3> QED BY <3>1, NothingListed DEF Init, FoundInv
    <2> QED BY <2>1, <2>2 DEF ItemsInv
  <1>2. ItemsInv /\ ColumnsInv /\ ColumnsInv' /\ [Next]_vars => ItemsInv'
    BY TrainedInvStep, FoundInvStep, CharsAssumption, CorporaAssumption DEF ItemsInv
  <1> QED BY <1>1, <1>2, ColumnsInvariant, PTL DEF Spec

\* A backend and the training tool mean the same by a feature's name, for every
\* alphabet, every corpus and every name: what an item has is what training
\* would give its token, and what it has not the model cannot know, but for the
\* exceptions that ServedAsTrained lists (extract_token_features()).
THEOREM ServedAsTrainedAlways == Spec => []ServedAsTrained
  <1>1. ASSUME ItemsInv, ColumnsInv PROVE ServedAsTrained
    <2> SUFFICES ASSUME NEW i \in DOMAIN inst
                 PROVE  /\ \A f \in Served(i) \ Trained(i) :
                              /\ f.name \in {<<"is_all_caps">>, <<"is_all_lower">>}
                              /\ Has(tokens[i], Digits \cup Punct)
                        /\ \A f \in Trained(i) \ Served(i) :
                              f.name \in TrainerOnly \/ (f.name[1] = "length:" /\ f.name[2] > 4)
      BY DEF ServedAsTrained
    <2>1. i \in 1..Len(inst) /\ i \in 1..Len(tokens)
      BY <1>1, ListedMore DEF ItemsInv, FoundInv, ColumnsInv
    <2>2. tokens[i] \in Seq(Chars)
      BY <1>1, <2>1 DEF ColumnsInv
    <2>3. PICK B, S : B = BackendSet(tokens, i) /\ S = TrainerSet(tokens, i)
      OBVIOUS
    <2>4. Served(i) = KnownOf(attrs, B)
      BY <1>1, <2>1, <2>3 DEF ItemsInv, FoundInv, Served, Named
    <2>5. Trained(i) = KnownOf(attrs, S)
      <3>1. Atmost(4, NoPunct(tokens[i])) \in Nat
        BY <2>2, CharsAssumption, AffixesOf
      <3>2. Lists(TrainerFeatures(tokens, i), S)
        BY <2>3, <3>1, TrainerLists
      <3> QED BY <3>2 DEF Trained, KnownOf, Known, Lists
    <2>6. SameAs(B, S, tokens[i]) /\ Within(S, B)
      BY <2>2, <2>3, CharsAssumption, ServedNames, TrainedServed
    <2>7. ASSUME NEW f, Contains(attrs, f.name) PROVE TrainedName(f.name)
      <3>1. PICK n \in 1..Len(attrs) : attrs[n] = f.name
        BY <2>7 DEF Contains
      <3>2. f.name \in ToSet(attrs)
        BY <1>1, <3>1, ListedMore DEF ItemsInv, TrainedInv, ToSet
      <3> QED BY <1>1, <3>2 DEF ItemsInv, TrainedInv
    <2>8. ASSUME NEW f \in Served(i) \ Trained(i) PROVE CaseOf(f, tokens[i])
      BY <2>4, <2>5, <2>6, <2>7, <2>8 DEF KnownOf, SameAs
    <2>9. ASSUME NEW f \in Trained(i) \ Served(i) PROVE NotServed(f.name)
      BY <2>4, <2>5, <2>6, <2>9 DEF KnownOf, Within
    <2> QED BY <2>8, <2>9 DEF CaseOf, NotServed
  <1> QED BY <1>1, ItemsInvariant, ColumnsInvariant, PTL

=============================================================================
