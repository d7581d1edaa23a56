------------------------- MODULE TrainingParserProofs -------------------------
(***************************************************************************)
(* The scan of a labelled name file is in order and keeps its memory       *)
(* straight for every file, however malformed, and for every size of its   *)
(* arrays.                                                                 *)
(*                                                                         *)
(* FileOrder is not inductive: a name that fails sends the scan back to    *)
(* where the name begins, so what was collected must be known to lie       *)
(* before that place (ParsedBehind), the tokens of the name itself behind  *)
(* what was collected (DataBeforeSeq), and no tokens may be at hand        *)
(* between two names (NoneAtHand).                                         *)
(***************************************************************************)
EXTENDS TrainingParser, WellFoundedInduction, TLAPS

\* The tokens that can be read from the file.
Tokens == [label : 1..Len(doc), text : SUBSET (1..Len(doc))]

\* What two tokens in file order have to do with each other.
Precedes(t, u) == t.label < u.label /\ t.text \cap u.text = {}

\* All of token t lies before lexeme n.
Before(t, n) == t.label < n /\ \A k \in t.text : k < n

InOrder(s) == \A m, n \in DOMAIN s : m < n => Precedes(s[m], s[n])

Types ==
    /\ doc \in Docs
    /\ seq \in Seq(Tokens)
    /\ data \in Seq(Seq(Tokens))
    /\ cap \in Nat \ {0}
    /\ pos \in 0..(Len(doc) + 2)
    /\ mode \in {"outer", "inner", "done", "crashed", "past"}
    /\ mode \in {"outer", "inner"} => pos \in 1..(Len(doc) + 1)
    /\ start \in 0..Len(doc)

Sizes ==
    /\ Len(data) <= cap
    /\ Len(seq) <= MaxTokens
    /\ \A i \in DOMAIN data : Len(data[i]) <= MaxTokens

\* The strings that are allocated are those of the tokens at hand and kept.
HeapIsLabels == heap = AllLabels(data) \cup Labels(seq)

DataInOrder ==
    /\ \A i \in DOMAIN data : InOrder(data[i])
    /\ \A i, j \in DOMAIN data : i < j =>
           \A m \in DOMAIN data[i], n \in DOMAIN data[j] : Precedes(data[i][m], data[j][n])

DataBeforeSeq ==
    \A i \in DOMAIN data : \A m \in DOMAIN data[i], n \in DOMAIN seq :
        Precedes(data[i][m], seq[n])

SeqBefore(n) == \A m \in DOMAIN seq : Before(seq[m], n)
DataBefore(n) == \A i \in DOMAIN data : \A m \in DOMAIN data[i] : Before(data[i][m], n)

\* The scan is behind all it has kept, and a name behind the names before it.
ParsedBehind ==
    /\ mode \in {"outer", "inner"} => SeqBefore(pos) /\ DataBefore(pos)
    /\ mode = "inner" => 0 < start /\ DataBefore(start)

NoneAtHand == mode = "outer" => seq = <<>>

ScanInv ==
    /\ Types /\ Sizes /\ HeapIsLabels
    /\ InOrder(seq) /\ DataInOrder /\ DataBeforeSeq
    /\ ParsedBehind /\ NoneAtHand

-----------------------------------------------------------------------------
(* The operators of the scan *)

\* Every nonempty set of natural numbers has a least element.
LEMMA LeastOf ==
    ASSUME NEW T, T \subseteq Nat, T # {}
    PROVE  \E x \in T : \A y \in T : x <= y
<1> DEFINE R == OpToRel(<, Nat)
<1>1. PICK x \in T : \A y \in T : ~(<<y, x>> \in R)
    <2>1. IsWellFoundedOn(R, Nat)
        BY NatLessThanWellFounded, PTL
    <2> HIDE DEF R
    <2> QED BY <2>1, WFMin
<1>2. ASSUME NEW y \in T PROVE x <= y
    <2>1. ~(y < x)
        BY <1>1 DEF OpToRel
    <2> QED BY <2>1
<1> QED BY <1>2

\* What At says of a place tells whether it is inside the file.
LEMMA AtType ==
    ASSUME doc \in Seq(Lexemes)
    PROVE  /\ \A i \in 1..Len(doc) : At(i) \in Lexemes
           /\ \A i \in Nat : At(i) # "eof" => i \in 1..Len(doc)
           /\ At(Len(doc) + 1) = "eof"
<1>1. "eof" \notin Lexemes
    BY DEF Lexemes, Opening, Closing
<1> QED BY <1>1 DEF At

\* Skip stops at the NUL at the latest: it never leaves the buffer.
LEMMA SkipStops ==
    ASSUME doc \in Seq(Lexemes), NEW S \in SUBSET Lexemes, NEW i \in 1..(Len(doc) + 1)
    PROVE  /\ Skip(S, i) \in i..(Len(doc) + 1)
           /\ At(Skip(S, i)) \notin S
           /\ \A k \in i..(Skip(S, i) - 1) : At(k) \in S
<1> DEFINE T == {j \in i..(Len(doc) + 1) : At(j) \notin S}
<1>1. Len(doc) + 1 \in T
    <2>1. "eof" \notin Lexemes
        BY DEF Lexemes, Opening, Closing
    <2> QED BY <2>1, AtType
<1>2. PICK j \in T : \A y \in T : j <= y
    <2>1. T \subseteq Nat
        OBVIOUS
    <2> QED BY <1>1, <2>1, LeastOf
<1>3. j \in i..(Len(doc) + 2) /\ At(j) \notin S /\ \A k \in i..(j - 1) : At(k) \in S
    BY <1>2
<1>4. PICK n \in i..(Len(doc) + 2) :
          /\ n = Skip(S, i)
          /\ At(n) \notin S
          /\ \A k \in i..(n - 1) : At(k) \in S
    BY <1>3 DEF Skip
<1>5. n <= Len(doc) + 1
    BY <1>1, <1>4
<1> QED BY <1>4, <1>5

\* White space is skipped forwards, and the next lexeme is not white space.
LEMMA SkipSpaceStops ==
    ASSUME doc \in Seq(Lexemes), NEW i \in 1..(Len(doc) + 1)
    PROVE  SkipSpace(i) \in i..(Len(doc) + 1) /\ At(SkipSpace(i)) # "space"
<1>1. {"space"} \in SUBSET Lexemes
    BY DEF Lexemes
<1> QED BY <1>1, SkipStops DEF SkipSpace

\* A tag ends right behind it, or nowhere.
LEMMA TagEndType ==
    ASSUME NEW p \in 1..Len(doc)
    PROVE  TagEnd(p) = 0 \/ TagEnd(p) = p + 1
BY DEF TagEnd

-----------------------------------------------------------------------------
(* Tokens in order *)

\* What lies before a place lies before every later one.
LEMMA BeforeLater ==
    ASSUME Types, NEW m \in Int, NEW n \in Int, m <= n
    PROVE  /\ SeqBefore(m) => SeqBefore(n)
           /\ DataBefore(m) => DataBefore(n)
<1>1. ASSUME NEW t \in Tokens, Before(t, m) PROVE Before(t, n)
    BY <1>1 DEF Before, Tokens, Types
<1> QED BY <1>1 DEF SeqBefore, DataBefore, Types

\* A token behind a place comes after every token before it.
LEMMA BeforePrecedes ==
    ASSUME NEW t \in Tokens, NEW u \in Tokens, NEW n \in Int, Before(t, n),
           n <= u.label, \A k \in u.text : n <= k
    PROVE  Precedes(t, u)
BY DEF Before, Precedes, Tokens

\* What Append does to a sequence.
LEMMA AppendIs ==
    ASSUME NEW S, NEW s \in Seq(S), NEW e \in S
    PROVE  /\ Append(s, e) \in Seq(S)
           /\ DOMAIN s = 1..Len(s)
           /\ Len(s) \in Nat
           /\ Len(Append(s, e)) = Len(s) + 1
           /\ DOMAIN Append(s, e) = 1..(Len(s) + 1)
           /\ \A k \in DOMAIN s : Append(s, e)[k] = s[k]
           /\ Append(s, e)[Len(s) + 1] = e
OBVIOUS

\* Kept is what was collected, with the tokens at hand behind it.
LEMMA KeptIs ==
    ASSUME Types
    PROVE  /\ seq = <<>> => Kept = data
           /\ seq # <<>> => /\ DOMAIN data = 1..Len(data)
                            /\ Len(data) \in Nat
                            /\ DOMAIN Kept = 1..(Len(data) + 1)
                            /\ \A k \in DOMAIN data : Kept[k] = data[k]
                            /\ Kept[Len(data) + 1] = seq
<1>1. CASE seq = <<>>
    BY <1>1 DEF Types, Kept
<1>2. CASE seq # <<>>
    <2>1. Kept = Append(data, seq)
        BY <1>2 DEF Types, Kept
    <2>2. data \in Seq(Seq(Tokens)) /\ seq \in Seq(Tokens)
        BY DEF Types
    <2> QED BY <1>2, <2>1, <2>2, AppendIs
<1> QED BY <1>1, <1>2

\* The parts of the order, put together again.
LEMMA KeptInOrder ==
    ASSUME ScanInv,
           NEW i \in DOMAIN Kept, NEW j \in DOMAIN Kept,
           NEW m \in DOMAIN Kept[i], NEW n \in DOMAIN Kept[j],
           i < j \/ (i = j /\ m < n)
    PROVE  Precedes(Kept[i][m], Kept[j][n])
<1>1. CASE seq = <<>>
    BY <1>1, KeptIs DEF ScanInv, DataInOrder, InOrder, Types
<1>2. CASE seq # <<>>
    <2>1. /\ DOMAIN data = 1..Len(data) /\ Len(data) \in Nat
          /\ DOMAIN Kept = 1..(Len(data) + 1)
          /\ \A k \in DOMAIN data : Kept[k] = data[k]
          /\ Kept[Len(data) + 1] = seq
        BY <1>2, KeptIs DEF ScanInv
    <2>2. CASE j \in DOMAIN data
        <3>1. i \in DOMAIN data
            BY <2>1, <2>2
        <3> QED BY <2>1, <2>2, <3>1 DEF ScanInv, DataInOrder, InOrder
    <2>3. CASE j = Len(data) + 1 /\ i \in DOMAIN data
        BY <2>1, <2>3 DEF ScanInv, DataBeforeSeq
    <2>4. CASE j = Len(data) + 1 /\ i = Len(data) + 1
        BY <2>1, <2>4 DEF ScanInv, InOrder
    <2> QED BY <2>1, <2>2, <2>3, <2>4
<1> QED BY <1>1, <1>2

\* Memory is as the parts say.
LEMMA MemorySafeHolds == ScanInv => MemorySafe
<1> SUFFICES ASSUME ScanInv PROVE MemorySafe
    OBVIOUS
<1>1. Types /\ Sizes /\ HeapIsLabels /\ MaxTokens \in Nat
    BY BoundAssumption DEF ScanInv
<1>2. CASE seq = <<>>
    <2>1. Labels(seq) = {}
        BY <1>2 DEF Labels
    <2> QED BY <1>1, <1>2, <2>1, KeptIs DEF Sizes, HeapIsLabels, MemorySafe
<1>3. CASE seq # <<>>
    <2>1. /\ DOMAIN Kept = DOMAIN data \cup {Len(data) + 1}
          /\ \A k \in DOMAIN data : Kept[k] = data[k]
          /\ Kept[Len(data) + 1] = seq
        BY <1>1, <1>3, KeptIs
    <2>2. AllLabels(Kept) = AllLabels(data) \cup Labels(seq)
        BY <2>1 DEF AllLabels
    <2> QED BY <1>1, <2>1, <2>2 DEF Sizes, HeapIsLabels, MemorySafe
<1> QED BY <1>2, <1>3

\* The labels of the tokens at hand and of those collected are lexemes.
LEMMA TypeOKHolds == ScanInv => TypeOK
<1> SUFFICES ASSUME ScanInv PROVE TypeOK
    OBVIOUS
<1>1. Types /\ HeapIsLabels /\ DOMAIN doc = 1..Len(doc)
    BY DocsAssumption DEF ScanInv, Types
<1>2. \A m \in DOMAIN seq : seq[m] \in Tokens
    BY <1>1 DEF Types
<1>3. \A i \in DOMAIN data : \A m \in DOMAIN data[i] : data[i][m] \in Tokens
    BY <1>1 DEF Types
<1>4. heap \subseteq DOMAIN doc
    BY <1>1, <1>2, <1>3 DEF HeapIsLabels, AllLabels, Labels, Tokens
<1> QED BY <1>1, <1>2, <1>4 DEF Types, TypeOK, Tokens

-----------------------------------------------------------------------------
(* Every step keeps the invariant *)

\* Nothing is collected when the scan begins.
LEMMA InitScan == Init => ScanInv
<1> SUFFICES ASSUME Init PROVE ScanInv
    OBVIOUS
<1>1. doc \in Seq(Lexemes) /\ Len(doc) \in Nat
    BY DocsAssumption DEF Init
<1>2. Types /\ Sizes
    BY <1>1, BoundAssumption DEF Init, Types, Sizes
<1>3. HeapIsLabels
    BY DEF Init, HeapIsLabels, AllLabels, Labels
<1>4. ParsedBehind /\ NoneAtHand
    BY DEF Init, ParsedBehind, NoneAtHand, SeqBefore, DataBefore
<1> QED BY <1>2, <1>3, <1>4 DEF Init, ScanInv, InOrder, DataInOrder, DataBeforeSeq

\* A step that only moves the scan forward, perhaps into a name, or ends it.
LEMMA Moves ==
    ASSUME ScanInv, mode \in {"outer", "inner"},
           UNCHANGED <<doc, seq, data, cap, heap>>,
           pos' \in 0..(Len(doc) + 2),
           mode' \in {"outer", "inner", "done", "crashed", "past"},
           mode' \in {"outer", "inner"} => pos' \in pos..(Len(doc) + 1),
           mode' = "outer" => seq = <<>>,
           start' \in 0..Len(doc),
           mode' = "inner" => \/ mode = "inner" /\ start' = start
                              \/ start' \in pos..Len(doc)
    PROVE  ScanInv'
<1>1. Types /\ Sizes /\ HeapIsLabels /\ InOrder(seq) /\ DataInOrder /\ DataBeforeSeq
      /\ ParsedBehind /\ pos \in 1..(Len(doc) + 1)
    BY DEF ScanInv, Types
<1>2. Types' /\ Sizes' /\ HeapIsLabels' /\ InOrder(seq)' /\ DataInOrder' /\ DataBeforeSeq'
    <2>1. Types'
        BY <1>1 DEF Types, Tokens
    <2> QED BY <1>1, <2>1 DEF Sizes, HeapIsLabels, AllLabels, Labels, InOrder, DataInOrder, DataBeforeSeq
<1>3. NoneAtHand'
    BY DEF NoneAtHand
<1>4. Len(doc) \in Nat
    BY DocsAssumption, <1>1 DEF Types
<1>5. ASSUME mode' \in {"outer", "inner"} PROVE SeqBefore(pos)' /\ DataBefore(pos)'
    <2>1. SeqBefore(pos') /\ DataBefore(pos')
        BY <1>1, <1>4, <1>5, BeforeLater DEF ParsedBehind
    <2> QED BY <2>1 DEF SeqBefore, DataBefore
<1>6. ASSUME mode' = "inner" PROVE 0 < start' /\ DataBefore(start)'
    <2>1. 0 < start' /\ DataBefore(start')
        <3>1. CASE mode = "inner" /\ start' = start
            BY <1>1, <3>1 DEF ParsedBehind
        <3>2. CASE start' \in pos..Len(doc)
            BY <1>1, <1>4, <3>2, BeforeLater DEF ParsedBehind
        <3> QED BY <1>6, <3>1, <3>2
    <2> QED BY <2>1 DEF DataBefore
<1> QED BY <1>2, <1>3, <1>5, <1>6 DEF ScanInv, ParsedBehind

\* A step of the loop between two names.
LEMMA OuterSteps ==
    ASSUME ScanInv, Finish \/ OuterOther \/ OuterTag \/ OpenName \/ OpenCutName
    PROVE  ScanInv'
<1> DEFINE p == SkipSpace(pos)
<1>1. /\ doc \in Seq(Lexemes) /\ Len(doc) \in Nat
      /\ mode = "outer" /\ seq = <<>>
      /\ pos \in 1..(Len(doc) + 1) /\ start \in 0..Len(doc)
    BY DocsAssumption DEF ScanInv, Types, NoneAtHand, Finish, OuterOther, OuterTag, OpenName, OpenCutName
<1>2. p \in pos..(Len(doc) + 1) /\ p \in Nat
    BY <1>1, SkipSpaceStops
<1>3. CASE Finish
    BY <1>1, <1>3, Moves DEF Finish
<1>4. CASE OuterOther
    <2>1. At(p) # "eof" => p \in 1..Len(doc)
        BY <1>1, <1>2, AtType
    <2> QED BY <1>1, <1>2, <1>4, <2>1, Moves DEF OuterOther
<1>5. CASE OuterTag
    <2>1. p \in 1..Len(doc)
        BY <1>1, <1>2, <1>5, AtType DEF OuterTag, Opening, Closing
    <2>2. TagEnd(p) = 0 \/ TagEnd(p) = p + 1
        BY <2>1, TagEndType
    <2> QED BY <1>1, <1>2, <1>5, <2>1, <2>2, Moves DEF OuterTag
<1>6. CASE OpenName
    <2>1. p \in 1..Len(doc)
        BY <1>1, <1>2, <1>6, AtType DEF OpenName
    <2>2. TagEnd(p) = p + 1
        BY <1>6 DEF OpenName, TagEnd, Cut
    <2> QED BY <1>1, <1>2, <1>6, <2>1, <2>2, Moves DEF OpenName
<1>7. CASE OpenCutName
    <2>1. p \in 1..Len(doc)
        BY <1>1, <1>2, <1>7, AtType DEF OpenCutName
    <2> QED BY <1>1, <1>2, <1>7, <2>1, Moves DEF OpenCutName
<1> QED BY <1>3, <1>4, <1>5, <1>6, <1>7

\* A step over something that is not a label keeps the tokens at hand.
LEMMA InnerSkips ==
    ASSUME ScanInv, StrayClosing \/ InnerOther
    PROVE  ScanInv'
<1> DEFINE p == SkipSpace(pos)
<1>1. /\ doc \in Seq(Lexemes) /\ Len(doc) \in Nat
      /\ mode = "inner"
      /\ pos \in 1..(Len(doc) + 1) /\ start \in 0..Len(doc)
    BY DocsAssumption DEF ScanInv, Types, StrayClosing, InnerOther
<1>2. p \in pos..(Len(doc) + 1) /\ p \in Nat
    BY <1>1, SkipSpaceStops
<1>3. p \in 1..Len(doc)
    BY <1>1, <1>2, AtType DEF StrayClosing, InnerOther
<1>4. CASE StrayClosing
    <2>1. TagEnd(p) = 0 \/ TagEnd(p) = p + 1
        BY <1>3, TagEndType
    <2> QED BY <1>1, <1>2, <1>3, <1>4, <2>1, Moves DEF StrayClosing, GoTo
<1>5. CASE InnerOther
    BY <1>1, <1>2, <1>3, <1>5, Moves DEF InnerOther
<1> QED BY <1>4, <1>5

\* A name that fails takes back its tokens with their strings, and the scan
\* goes back to where it began, behind all that was collected.
LEMMA FailStep ==
    ASSUME ScanInv, FailName
    PROVE  ScanInv'
<1>1. /\ Types /\ Sizes /\ HeapIsLabels /\ DataInOrder /\ DataBeforeSeq /\ ParsedBehind
      /\ mode = "inner" /\ mode' = "outer" /\ pos' = start /\ seq' = <<>>
      /\ heap' = heap \ Labels(seq)
      /\ UNCHANGED <<doc, start, data, cap>>
    BY DEF ScanInv, FailName
<1>2. Len(doc) \in Nat /\ 0 < start /\ DataBefore(start)
    BY <1>1, DocsAssumption DEF Types, ParsedBehind
<1>3. Types' /\ Sizes'
    <2>1. Types'
        BY <1>1, <1>2 DEF Types, Tokens
    <2> QED BY <1>1, <2>1, BoundAssumption DEF Sizes
<1>4. HeapIsLabels'
    <2>1. AllLabels(data) \cap Labels(seq) = {}
        <3>1. \A i \in DOMAIN data : \A m \in DOMAIN data[i], n \in DOMAIN seq :
                  data[i][m].label # seq[n].label
            <4>1. /\ \A i \in DOMAIN data : \A m \in DOMAIN data[i] : data[i][m] \in Tokens
                  /\ \A n \in DOMAIN seq : seq[n] \in Tokens
                BY <1>1 DEF Types
            <4> QED BY <1>1, <4>1 DEF DataBeforeSeq, Precedes, Tokens
        <3> QED BY <3>1 DEF AllLabels, Labels
    <2>2. AllLabels(data)' = AllLabels(data)
        BY <1>1 DEF AllLabels, Labels
    <2>3. Labels(seq') = {}
        BY <1>1 DEF Labels
    <2> QED BY <1>1, <2>1, <2>2, <2>3 DEF HeapIsLabels
<1>5. ParsedBehind'
    BY <1>1, <1>2 DEF ParsedBehind, SeqBefore, DataBefore
<1>6. InOrder(seq)' /\ DataInOrder' /\ DataBeforeSeq' /\ NoneAtHand'
    BY <1>1 DEF InOrder, DataInOrder, DataBeforeSeq, NoneAtHand
<1> QED BY <1>3, <1>4, <1>5, <1>6 DEF ScanInv

\* The tokens at hand become the next sequence; the array is doubled first
\* when it is full, which is enough as it never has no slots.
LEMMA AcceptStep ==
    ASSUME ScanInv, mode = "inner",
           NEW p \in {0} \cup pos..(Len(doc) + 1), Accept(p)
    PROVE  ScanInv'
<1>1. /\ Types /\ Sizes /\ HeapIsLabels /\ InOrder(seq) /\ DataInOrder /\ DataBeforeSeq
      /\ ParsedBehind
      /\ pos' = p /\ mode' = IF p = 0 THEN "crashed" ELSE "outer"
      /\ seq' = <<>>
      /\ UNCHANGED <<doc, start, heap>>
    BY DEF ScanInv, Accept
<1>2. Len(doc) \in Nat /\ pos \in 1..(Len(doc) + 1)
    BY <1>1, DocsAssumption DEF Types
<1>3. NoneAtHand'
    BY <1>1 DEF NoneAtHand
<1>4. CASE seq = <<>>
    <2>1. UNCHANGED <<data, cap, seq>>
        BY <1>1, <1>4 DEF Accept
    <2> QED BY <1>1, <1>2, <1>4, <2>1, Moves DEF Types
<1>5. CASE seq # <<>>
    <2>1. data' = Append(data, seq) /\ cap' = Grown(Len(data))
        BY <1>5 DEF Accept
    <2>2. data \in Seq(Seq(Tokens)) /\ seq \in Seq(Tokens) /\ Tokens' = Tokens
        BY <1>1 DEF Types, Tokens
    <2>3. /\ data' \in Seq(Seq(Tokens))
          /\ DOMAIN data = 1..Len(data)
          /\ Len(data) \in Nat
          /\ Len(data') = Len(data) + 1
          /\ DOMAIN data' = 1..(Len(data) + 1)
          /\ \A k \in DOMAIN data : data'[k] = data[k]
          /\ data'[Len(data) + 1] = seq
        BY <2>1, <2>2, AppendIs
    <2> HIDE <2>1
    <2>4. cap' \in Nat \ {0} /\ Len(data') <= cap'
        <3>1. cap \in Nat \ {0} /\ Len(data) <= cap
            BY <1>1 DEF Types, Sizes
        <3> QED BY <2>1, <2>3, <3>1 DEF Grown
    <2>5. Types'
        <3>1. <<>> \in Seq(Tokens)
            OBVIOUS
        <3>2. seq' \in Seq(Tokens)'
            BY <1>1, <2>2, <3>1
        <3>3. data' \in Seq(Seq(Tokens))'
            BY <2>2, <2>3
        <3> QED BY <1>1, <1>2, <2>4, <3>2, <3>3 DEF Types
    <2>6. Sizes'
        <3>1. Len(seq') <= MaxTokens
            BY <1>1, BoundAssumption
        <3> QED BY <1>1, <2>3, <2>4, <3>1 DEF Sizes
    <2>7. HeapIsLabels'
        <3>1. AllLabels(data') = AllLabels(data) \cup Labels(seq)
            <4>1. DOMAIN data' = DOMAIN data \cup {Len(data) + 1}
                BY <2>3
            <4> QED BY <2>3, <4>1 DEF AllLabels
        <3>2. AllLabels(data)' = AllLabels(data') /\ Labels(seq') = {}
            BY <1>1 DEF AllLabels, Labels
        <3> QED BY <1>1, <3>1, <3>2 DEF HeapIsLabels
    <2>8. DataInOrder'
        <3>1. \A k \in DOMAIN data' : InOrder(data'[k])
            BY <1>1, <2>3 DEF DataInOrder
        <3>2. ASSUME NEW k \in DOMAIN data', NEW j \in DOMAIN data', k < j,
                     NEW m \in DOMAIN data'[k], NEW n \in DOMAIN data'[j]
              PROVE  Precedes(data'[k][m], data'[j][n])
            <4>1. k \in DOMAIN data
                BY <2>3, <3>2
            <4>2. CASE j \in DOMAIN data
                BY <1>1, <2>3, <3>2, <4>1, <4>2 DEF DataInOrder
            <4>3. CASE j = Len(data) + 1
                BY <1>1, <2>3, <3>2, <4>1, <4>3 DEF DataBeforeSeq
            <4> QED BY <2>3, <4>2, <4>3
        <3> QED BY <3>1, <3>2 DEF DataInOrder, InOrder, Precedes
    <2>9. ParsedBehind'
        <3>1. ASSUME p # 0
              PROVE  \A k \in DOMAIN data' : \A m \in DOMAIN data'[k] : Before(data'[k][m], p)
            <4>1. SeqBefore(p) /\ DataBefore(p)
                BY <1>1, <1>2, <3>1, BeforeLater DEF ParsedBehind
            <4> QED BY <2>3, <4>1 DEF SeqBefore, DataBefore
        <3> QED BY <1>1, <3>1 DEF ParsedBehind, SeqBefore, DataBefore
    <2>10. InOrder(seq)' /\ DataBeforeSeq'
        BY <1>1 DEF InOrder, DataBeforeSeq
    <2> QED BY <1>3, <2>5, <2>6, <2>7, <2>8, <2>9, <2>10 DEF ScanInv
<1> QED BY <1>4, <1>5

\* A name ends at its tag, at the end of the file, or at a cut-off tag.
LEMMA EndStep ==
    ASSUME ScanInv, EndName
    PROVE  ScanInv'
<1> DEFINE p == SkipSpace(pos)
<1>1. /\ doc \in Seq(Lexemes) /\ Len(doc) \in Nat
      /\ mode = "inner" /\ pos \in 1..(Len(doc) + 1)
    BY DocsAssumption DEF ScanInv, Types, EndName
<1>2. p \in pos..(Len(doc) + 1) /\ p \in Nat
    BY <1>1, SkipSpaceStops
<1>3. CASE At(p) \in {"endname", "cutendname"} /\ Accept(TagEnd(p))
    <2>1. p \in 1..Len(doc)
        BY <1>1, <1>2, <1>3, AtType
    <2>2. TagEnd(p) \in {0} \cup pos..(Len(doc) + 1)
        BY <1>1, <1>2, <2>1, TagEndType
    <2> QED BY <1>1, <1>3, <2>2, AcceptStep
<1>4. CASE At(p) = "eof" /\ Accept(p)
    BY <1>1, <1>2, <1>4, AcceptStep
<1> QED BY <1>3, <1>4 DEF EndName

\* A label behind all tokens at hand: it goes behind them, if it has text and
\* there is room, and otherwise leaves nothing.
LEMMA LabelStep ==
    ASSUME ScanInv, LabelToken
    PROVE  ScanInv'
<1> DEFINE p == SkipSpace(pos)
           end == Skip({"text", "space"}, p + 1)
           t == TokenAt(p, end)
           next == AfterContent(end)
<1>1. /\ Types /\ Sizes /\ HeapIsLabels /\ InOrder(seq) /\ DataInOrder /\ DataBeforeSeq
      /\ ParsedBehind
      /\ doc \in Seq(Lexemes) /\ Len(doc) \in Nat
      /\ mode = "inner" /\ pos \in 1..(Len(doc) + 1) /\ start \in 0..Len(doc)
      /\ At(p) \in {"label", "name"}
      /\ UNCHANGED <<doc, start, data, cap>>
    BY DocsAssumption DEF ScanInv, Types, LabelToken
<1>2. p \in pos..Len(doc) /\ p \in 1..Len(doc)
    <2>1. p \in pos..(Len(doc) + 1)
        BY <1>1, SkipSpaceStops
    <2>2. p \in 1..Len(doc)
        BY <1>1, <2>1, AtType
    <2> QED BY <2>1, <2>2
<1>3. end \in (p + 1)..(Len(doc) + 1) /\ end \in Nat
    <2>1. {"text", "space"} \in SUBSET Lexemes
        BY DEF Lexemes
    <2>2. p + 1 \in 1..(Len(doc) + 1)
        BY <1>2
    <2> HIDE DEF p
    <2>3. end \in (p + 1)..(Len(doc) + 1)
        BY <1>1, <2>1, <2>2, SkipStops
    <2> QED BY <1>2, <2>3
<1>4. next = 0 \/ next \in end..(Len(doc) + 1)
    <2>1. CASE At(end) \in Closing
        <3>1. end \in 1..Len(doc)
            BY <1>1, <1>3, <2>1, AtType DEF Closing
        <3> QED BY <1>3, <2>1, <3>1, TagEndType DEF AfterContent
    <2>2. CASE At(end) \notin Closing
        BY <1>3, <2>2 DEF AfterContent
    <2> QED BY <2>1, <2>2
<1>5. /\ t \in Tokens /\ t.label = p
      /\ \A k \in t.text : k \in Int /\ p <= k /\ k < end
    <2>1. \A k \in p..(end - 1) : k \in 1..Len(doc)
        BY <1>1, <1>2, <1>3
    <2> HIDE DEF p, end
    <2> QED BY <1>2, <1>3, <2>1 DEF TokenAt, Tokens
<1>6. /\ pos' = next
      /\ mode' = IF next = 0 THEN "crashed" ELSE "inner"
    BY <1>1 DEF LabelToken, GoTo
<1>7. CASE t.text # {} /\ HasRoom
    <2>1. seq' = Append(seq, t) /\ heap' = heap \cup {p}
        BY <1>7 DEF LabelToken
    <2> HIDE DEF p, end, t, next
    <2>2. seq \in Seq(Tokens) /\ Tokens' = Tokens
        BY <1>1 DEF Types, Tokens
    <2>3. /\ seq' \in Seq(Tokens)
          /\ DOMAIN seq = 1..Len(seq)
          /\ Len(seq) \in Nat
          /\ Len(seq') = Len(seq) + 1
          /\ DOMAIN seq' = 1..(Len(seq) + 1)
          /\ \A k \in DOMAIN seq : seq'[k] = seq[k]
          /\ seq'[Len(seq) + 1] = t
        BY <1>5, <2>1, <2>2, AppendIs
    <2>4. SeqBefore(p) /\ DataBefore(p)
        BY <1>1, <1>2, BeforeLater DEF ParsedBehind
    <2>5. /\ \A n \in DOMAIN seq : seq[n] \in Tokens /\ Precedes(seq[n], t)
          /\ \A k \in DOMAIN data : \A m \in DOMAIN data[k] : Precedes(data[k][m], t)
        <3>1. ASSUME NEW u \in Tokens, Before(u, p) PROVE Precedes(u, t)
            BY <1>2, <1>5, <3>1, BeforePrecedes
        <3>2. /\ \A n \in DOMAIN seq : seq[n] \in Tokens
              /\ \A k \in DOMAIN data : \A m \in DOMAIN data[k] : data[k][m] \in Tokens
            BY <1>1 DEF Types
        <3> QED BY <2>4, <3>1, <3>2 DEF SeqBefore, DataBefore
    <2>6. Types'
        <3>1. seq' \in Seq(Tokens)' /\ data' \in Seq(Seq(Tokens))'
            BY <1>1, <2>2, <2>3 DEF Types
        <3> QED BY <1>1, <1>3, <1>4, <1>6, <3>1 DEF Types
    <2>7. Sizes'
        BY <1>1, <1>7, <2>3, BoundAssumption DEF Sizes, HasRoom
    <2>8. HeapIsLabels'
        <3>1. Labels(seq') = Labels(seq) \cup {p}
            BY <1>5, <2>3 DEF Labels
        <3>2. AllLabels(data)' = AllLabels(data)
            BY <1>1 DEF AllLabels, Labels
        <3> QED BY <1>1, <2>1, <3>1, <3>2 DEF HeapIsLabels
    <2>9. InOrder(seq')
        <3>1. ASSUME NEW m \in DOMAIN seq', NEW n \in DOMAIN seq', m < n
              PROVE  Precedes(seq'[m], seq'[n])
            <4>1. m \in DOMAIN seq
                BY <2>3, <3>1
            <4>2. CASE n \in DOMAIN seq
                BY <1>1, <2>3, <3>1, <4>1, <4>2 DEF InOrder
            <4>3. CASE n = Len(seq) + 1
                BY <2>3, <2>5, <4>1, <4>3
            <4> QED BY <2>3, <4>2, <4>3
        <3> QED BY <3>1 DEF InOrder
    <2>10. DataInOrder' /\ DataBeforeSeq'
        BY <1>1, <2>3, <2>5 DEF DataInOrder, InOrder, DataBeforeSeq
    <2>11. ParsedBehind'
        <3>1. next # 0 => SeqBefore(next) /\ DataBefore(next) /\ Before(t, next)
            <4>1. SUFFICES ASSUME next # 0
                           PROVE  SeqBefore(next) /\ DataBefore(next) /\ Before(t, next)
                OBVIOUS
            <4>2. next \in Int /\ p <= next /\ p < next
                BY <1>2, <1>3, <1>4, <4>1
            <4>3. Before(t, next)
                BY <1>3, <1>4, <1>5, <4>1, <4>2 DEF Before
            <4> QED BY <1>1, <1>2, <2>4, <4>2, <4>3, BeforeLater
        <3> QED BY <1>1, <1>6, <2>3, <3>1 DEF ParsedBehind, SeqBefore, DataBefore
    <2> QED BY <1>1, <1>6, <2>6, <2>7, <2>8, <2>9, <2>10, <2>11 DEF ScanInv, NoneAtHand, InOrder
<1>8. CASE ~(t.text # {} /\ HasRoom)
    <2>1. seq' = seq /\ heap' = heap
        BY <1>8 DEF LabelToken, Dropped
    <2> HIDE DEF p, end, t, next
    <2> QED BY <1>1, <1>2, <1>3, <1>4, <1>6, <2>1, Moves
<1> QED BY <1>7, <1>8

\* Every step of the scan, and the end of it, keeps the invariant.
LEMMA NextScan == ScanInv /\ [Next]_vars => ScanInv'
<1> SUFFICES ASSUME ScanInv, [Next]_vars PROVE ScanInv'
    OBVIOUS
<1>1. CASE Finish \/ OuterOther \/ OuterTag \/ OpenName \/ OpenCutName
    BY <1>1, OuterSteps
<1>2. CASE EndName
    BY <1>2, EndStep
<1>3. CASE LabelToken
    BY <1>3, LabelStep
<1>4. CASE FailName
    BY <1>4, FailStep
<1>5. CASE StrayClosing \/ InnerOther
    BY <1>5, InnerSkips
<1>6. CASE UNCHANGED vars
    BY <1>6 DEF vars, ScanInv, Types, Tokens, Sizes, HeapIsLabels, AllLabels, Labels,
                InOrder, DataInOrder, DataBeforeSeq, ParsedBehind, SeqBefore, DataBefore, NoneAtHand
<1> QED BY <1>1, <1>2, <1>3, <1>4, <1>5, <1>6 DEF Next, Scan

-----------------------------------------------------------------------------
(* Names that were closed stay apart                                         *)

Apart(s) ==
    \A m, n \in DOMAIN s : m < n => \A k \in s[m].label..s[n].label : ~EndsName(k)

\* No </Name> since the first token at hand ended the name.
StillOpen ==
    mode = "inner" => \A m \in DOMAIN seq : \A k \in seq[m].label..(pos - 1) : ~EndsName(k)

ApartInv ==
    /\ Apart(seq) /\ StillOpen
    /\ \A i \in DOMAIN data : Apart(data[i])

\* The file does not change, nor which tags end a name.
LEMMA EndsNameStays ==
    ASSUME doc' = doc
    PROVE  \A k : EndsName(k)' <=> EndsName(k)
BY DEF EndsName, At

\* White space, and what the scan finds behind it, end no name.
LEMMA SpaceEndsNothing ==
    ASSUME doc \in Seq(Lexemes), NEW i \in 1..(Len(doc) + 1),
           At(SkipSpace(i)) \notin {"endname", "cutendname"}
    PROVE  \A k \in i..SkipSpace(i) : ~EndsName(k)
<1>1. {"space"} \in SUBSET Lexemes
    BY DEF Lexemes
<1>2. PICK p : p = SkipSpace(i)
    OBVIOUS
<1>3. p \in i..(Len(doc) + 1) /\ \A k \in i..(p - 1) : At(k) \in {"space"}
    BY <1>1, <1>2, SkipStops DEF SkipSpace
<1>4. \A k \in i..p : k = p \/ k \in i..(p - 1)
    BY <1>3
<1> QED BY <1>2, <1>3, <1>4 DEF EndsName

\* Nothing that a label token covers ends a name: the tag behind its text, if
\* it is a </Name>, stands behind the label.
LEMMA LabelEndsNothing ==
    ASSUME doc \in Seq(Lexemes), NEW p \in 1..Len(doc), At(p) \in {"label", "name"},
           NEW end, end = Skip({"text", "space"}, p + 1),
           NEW next, next = AfterContent(end), next # 0
    PROVE  next \in Int /\ \A k \in p..(next - 1) : ~EndsName(k)
<1>1. {"text", "space"} \in SUBSET Lexemes /\ p + 1 \in 1..(Len(doc) + 1)
    BY DEF Lexemes
<1>2. /\ end \in (p + 1)..(Len(doc) + 1)
      /\ \A k \in (p + 1)..(end - 1) : At(k) \in {"text", "space"}
    BY <1>1, SkipStops
<1>3. next = end \/ next = end + 1
    <2>1. CASE At(end) \in Closing
        <3>1. end \in 1..Len(doc)
            BY <1>2, <2>1, AtType DEF Closing
        <3> QED BY <2>1, <3>1, TagEndType DEF AfterContent
    <2> QED BY <2>1 DEF AfterContent
<1>4. ~EndsName(end)
    <2>1. p \in 1..(end - 1)
        BY <1>2
    <2> QED BY <1>2, <2>1 DEF EndsName
<1>5. \A k \in p..(next - 1) : k = p \/ k \in (p + 1)..(end - 1) \/ k = end
    BY <1>2, <1>3
<1>6. ~EndsName(p) /\ \A k \in (p + 1)..(end - 1) : ~EndsName(k)
    BY <1>2 DEF EndsName
<1> QED BY <1>2, <1>3, <1>4, <1>5, <1>6

LEMMA LabelsAreInt ==
    ASSUME doc \in Seq(Lexemes), NEW s \in Seq(Tokens)
    PROVE  \A m \in DOMAIN s : s[m].label \in Int
<1>1. ASSUME NEW m \in DOMAIN s PROVE s[m].label \in Int
    <2>1. s[m] \in Tokens
        OBVIOUS
    <2>2. s[m].label \in 1..Len(doc) /\ Len(doc) \in Nat
        BY <2>1 DEF Tokens
    <2> QED BY <2>2
<1> QED BY <1>1

\* A step that keeps the tokens at hand and passes nothing that ends the name,
\* or leaves the name behind.
LEMMA ApartKept ==
    ASSUME ScanInv, ApartInv, doc' = doc, data' = data,
           \/ seq' = <<>>
           \/ seq' = seq /\ mode' # "inner"
           \/ /\ seq' = seq /\ mode = "inner"
              /\ pos' \in Int /\ \A k \in pos..(pos' - 1) : ~EndsName(k)
    PROVE  ApartInv'
<1>1. /\ pos \in Int
      /\ \A m \in DOMAIN seq : seq[m].label \in Int
    <2>1. doc \in Seq(Lexemes) /\ pos \in 0..(Len(doc) + 2) /\ seq \in Seq(Tokens)
        BY DocsAssumption DEF ScanInv, Types
    <2> QED BY <2>1, LabelsAreInt
<1>2. Apart(seq)'
    BY EndsNameStays DEF ApartInv, Apart
<1>3. (\A i \in DOMAIN data : Apart(data[i]))'
    BY EndsNameStays DEF ApartInv, Apart
<1>4. StillOpen'
    <2>1. CASE seq' = <<>> \/ (seq' = seq /\ mode' # "inner")
        BY <2>1 DEF StillOpen
    <2>2. CASE /\ seq' = seq /\ mode = "inner"
               /\ pos' \in Int /\ \A k \in pos..(pos' - 1) : ~EndsName(k)
        <3>1. ASSUME NEW m \in DOMAIN seq, NEW k \in seq[m].label..(pos' - 1)
              PROVE  ~EndsName(k)
            <4>1. PICK a \in Int, b \in Int, c \in Int :
                      a = seq[m].label /\ b = pos /\ c = pos'
                BY <1>1, <2>2
            <4>2. \A x \in a..(c - 1) : x \in a..(b - 1) \/ x \in b..(c - 1)
                OBVIOUS
            <4>3. k \in seq[m].label..(pos - 1) \/ k \in pos..(pos' - 1)
                BY <4>1, <4>2
            <4> QED BY <2>2, <3>1, <4>3 DEF ApartInv, StillOpen
        <3> QED BY <2>2, <3>1, EndsNameStays DEF StillOpen
    <2> QED BY <2>1, <2>2
<1> QED BY <1>2, <1>3, <1>4 DEF ApartInv

LEMMA ApartAtLabel ==
    ASSUME ScanInv, ApartInv, LabelToken
    PROVE  ApartInv'
<1> DEFINE p == SkipSpace(pos)
           end == Skip({"text", "space"}, p + 1)
           t == TokenAt(p, end)
           next == AfterContent(end)
<1>1. /\ doc \in Seq(Lexemes) /\ Len(doc) \in Nat
      /\ pos \in 1..(Len(doc) + 1) /\ seq \in Seq(Tokens)
      /\ mode = "inner" /\ At(p) \in {"label", "name"}
      /\ UNCHANGED <<doc, start, data, cap>>
      /\ pos' = next /\ mode' = IF next = 0 THEN "crashed" ELSE mode
      /\ seq' = IF t.text # {} /\ HasRoom THEN Append(seq, t) ELSE seq
      /\ t.label = p
    BY DocsAssumption DEF ScanInv, Types, LabelToken, GoTo, TokenAt
<1>2. p \in pos..Len(doc) /\ p \in 1..Len(doc)
    <2>1. p \in pos..(Len(doc) + 1)
        BY <1>1, SkipSpaceStops
    <2>2. p \in 1..Len(doc)
        BY <1>1, <2>1, AtType
    <2> QED BY <2>1, <2>2
<1>3. \A k \in pos..p : ~EndsName(k)
    BY <1>1, SpaceEndsNothing
<1>4. next # 0 => next \in Int /\ \A k \in p..(next - 1) : ~EndsName(k)
    BY <1>1, <1>2, LabelEndsNothing
<1>5. \A m \in DOMAIN seq : seq[m].label \in Int
    BY <1>1, LabelsAreInt
<1>6. CASE ~(t.text # {} /\ HasRoom)
    <2>1. seq' = seq
        BY <1>1, <1>6
    <2>2. CASE next = 0
        BY <1>1, <2>1, <2>2, ApartKept
    <2>3. CASE next # 0
        <3> HIDE DEF p, next
        <3>1. \A k \in pos..(next - 1) : k \in pos..p \/ k \in p..(next - 1)
            BY <1>1, <1>2, <1>4, <2>3
        <3> QED BY <1>1, <1>3, <1>4, <2>1, <2>3, <3>1, ApartKept
    <2> QED BY <2>2, <2>3
<1>7. CASE t.text # {} /\ HasRoom
    <2>1. t \in Tokens
        <3>1. {"text", "space"} \in SUBSET Lexemes /\ p + 1 \in 1..(Len(doc) + 1)
            BY <1>2 DEF Lexemes
        <3> HIDE DEF p
        <3>2. end \in (p + 1)..(Len(doc) + 1)
            BY <1>1, <3>1, SkipStops
        <3> HIDE DEF end
        <3> QED BY <1>1, <1>2, <3>2 DEF TokenAt, Tokens
    <2> HIDE DEF p, end, t, next
    <2>2. /\ DOMAIN seq = 1..Len(seq) /\ Len(seq) \in Nat
          /\ DOMAIN seq' = 1..(Len(seq) + 1)
          /\ \A m \in DOMAIN seq : seq'[m] = seq[m]
          /\ seq'[Len(seq) + 1] = t
        BY <1>1, <1>7, <2>1, AppendIs
    <2>3. \A m \in DOMAIN seq : \A k \in seq[m].label..p : ~EndsName(k)
        <3>1. ASSUME NEW m \in DOMAIN seq, NEW k \in seq[m].label..p
              PROVE  ~EndsName(k)
            <4>1. k \in seq[m].label..(pos - 1) \/ k \in pos..p
                BY <1>1, <1>2, <1>5, <3>1
            <4> QED BY <1>1, <1>3, <3>1, <4>1 DEF ApartInv, StillOpen
        <3> QED BY <3>1
    <2>4. ASSUME NEW m \in DOMAIN seq', NEW n \in DOMAIN seq', m < n,
                 NEW k \in seq'[m].label..seq'[n].label
          PROVE  ~EndsName(k)
        <3>1. m \in DOMAIN seq
            BY <2>2, <2>4
        <3>2. CASE n \in DOMAIN seq
            BY <2>2, <2>4, <3>1, <3>2 DEF ApartInv, Apart
        <3>3. CASE n = Len(seq) + 1
            BY <1>1, <2>2, <2>3, <2>4, <3>1, <3>3
        <3> QED BY <2>2, <3>2, <3>3
    <2>5. ASSUME mode' = "inner", NEW m \in DOMAIN seq', NEW k \in seq'[m].label..(pos' - 1)
          PROVE  ~EndsName(k)
        <3>1. next # 0
            BY <1>1, <2>5
        <3>2. CASE m \in DOMAIN seq
            <4>1. k \in seq[m].label..p \/ k \in p..(next - 1)
                BY <1>1, <1>2, <1>4, <1>5, <2>2, <2>5, <3>1, <3>2
            <4> QED BY <1>4, <2>3, <3>1, <3>2, <4>1
        <3>3. CASE m = Len(seq) + 1
            BY <1>1, <1>4, <2>2, <2>5, <3>1, <3>3
        <3> QED BY <2>2, <3>2, <3>3
    <2>6. Apart(seq)'
        BY <1>1, <2>4, EndsNameStays DEF Apart
    <2>7. StillOpen'
        BY <1>1, <2>5, EndsNameStays DEF StillOpen
    <2>8. (\A i \in DOMAIN data : Apart(data[i]))'
        BY <1>1, EndsNameStays DEF ApartInv, Apart
    <2> QED BY <2>6, <2>7, <2>8 DEF ApartInv
<1> QED BY <1>6, <1>7

\* Every step keeps the names apart.
LEMMA ApartStep ==
    ASSUME ScanInv, ApartInv, [Next]_vars
    PROVE  ApartInv'
<1> DEFINE p == SkipSpace(pos)
<1>1. CASE Finish \/ OuterOther \/ OuterTag \/ OpenName \/ OpenCutName \/ FailName
    <2>1. doc' = doc /\ data' = data /\ (seq' = <<>> \/ (seq' = seq /\ mode' # "inner"))
        <3>1. CASE Finish
            BY <3>1 DEF Finish
        <3>2. CASE OuterOther
            BY <3>2 DEF OuterOther
        <3>3. CASE OuterTag
            BY <3>3 DEF OuterTag
        <3>4. CASE OpenName \/ FailName
            BY <3>4 DEF OpenName, FailName
        <3>5. CASE OpenCutName
            BY <3>5 DEF OpenCutName
        <3> QED BY <1>1, <3>1, <3>2, <3>3, <3>4, <3>5
    <2> QED BY <2>1, ApartKept
<1>2. CASE EndName
    <2>1. /\ doc' = doc /\ seq' = <<>>
          /\ data' = IF seq = <<>> THEN data ELSE Append(data, seq)
        BY <1>2 DEF EndName, Accept
    <2>2. CASE seq = <<>>
        BY <2>1, <2>2, ApartKept
    <2>3. CASE seq # <<>>
        <3>1. data \in Seq(Seq(Tokens)) /\ seq \in Seq(Tokens)
            BY DEF ScanInv, Types
        <3>2. /\ DOMAIN data' = 1..(Len(data) + 1) /\ DOMAIN data = 1..Len(data)
              /\ Len(data) \in Nat
              /\ \A k \in DOMAIN data : data'[k] = data[k]
              /\ data'[Len(data) + 1] = seq
            BY <2>1, <2>3, <3>1, AppendIs
        <3>3. \A i \in DOMAIN data' : Apart(data'[i])
            BY <3>2 DEF ApartInv
        <3>4. (\A i \in DOMAIN data : Apart(data[i]))'
            BY <2>1, <3>3, EndsNameStays DEF Apart
        <3> QED BY <2>1, <3>4 DEF ApartInv, Apart, StillOpen
    <2> QED BY <2>2, <2>3
<1>3. CASE LabelToken
    BY <1>3, ApartAtLabel
<1>4. CASE StrayClosing \/ InnerOther
    <2>1. /\ doc \in Seq(Lexemes) /\ Len(doc) \in Nat /\ mode = "inner"
          /\ pos \in 1..(Len(doc) + 1) /\ UNCHANGED <<doc, seq, data>>
          /\ At(p) \notin {"endname", "cutendname", "eof"}
        BY <1>4, DocsAssumption DEF ScanInv, Types, StrayClosing, InnerOther
    <2>2. p \in pos..(Len(doc) + 1) /\ p \in 1..Len(doc)
        <3>1. p \in pos..(Len(doc) + 1)
            BY <2>1, SkipSpaceStops
        <3> QED BY <2>1, <3>1, AtType
    <2>3. pos' = p + 1 \/ mode' = "crashed"
        BY <1>4, <2>2, TagEndType DEF StrayClosing, InnerOther, GoTo
    <2>4. \A k \in pos..p : ~EndsName(k)
        BY <2>1, SpaceEndsNothing
    <2>5. CASE mode' = "crashed"
        BY <2>1, <2>5, ApartKept
    <2>6. CASE pos' = p + 1
        <3> HIDE DEF p
        <3>1. (p + 1) - 1 = p /\ p + 1 \in Int
            BY <2>2
        <3> QED BY <2>1, <2>4, <2>6, <3>1, ApartKept
    <2> QED BY <2>3, <2>5, <2>6
<1>5. CASE UNCHANGED vars
    BY <1>5, EndsNameStays DEF vars, ApartInv, Apart, StillOpen
<1> QED BY <1>1, <1>2, <1>3, <1>4, <1>5 DEF Next, Scan

\* The order of the tokens and the names that are apart make the order of the
\* file.
LEMMA FileOrderHolds == ScanInv /\ ApartInv => FileOrder
<1> SUFFICES ASSUME ScanInv, ApartInv PROVE FileOrder
    OBVIOUS
<1>1. \A i, j \in DOMAIN Kept : \A m \in DOMAIN Kept[i], n \in DOMAIN Kept[j] :
          (i < j \/ (i = j /\ m < n)) => Precedes(Kept[i][m], Kept[j][n])
    BY KeptInOrder
<1>2. ASSUME NEW i \in DOMAIN Kept PROVE Apart(Kept[i])
    <2>1. CASE seq = <<>>
        BY <1>2, <2>1, KeptIs DEF ScanInv, ApartInv
    <2>2. CASE seq # <<>>
        BY <1>2, <2>2, KeptIs DEF ScanInv, ApartInv
    <2> QED BY <2>1, <2>2
<1> QED BY <1>1, <1>2 DEF FileOrder, Precedes, Apart

-----------------------------------------------------------------------------
(* Where the scan leaves the text                                            *)

LEMMA StaysStep ==
    ASSUME ScanInv, StaysInside, [Next]_vars
    PROVE  StaysInside'
<1> DEFINE p == SkipSpace(pos)
<1>1. /\ doc \in Seq(Lexemes) /\ Len(doc) \in Nat /\ doc' = doc
      /\ mode \in {"outer", "inner"} => pos \in 1..(Len(doc) + 1)
      /\ start \in 0..Len(doc)
    BY DocsAssumption DEF ScanInv, Types, vars, Next, Scan, Finish, OuterOther, OuterTag,
       OpenName, OpenCutName, EndName, Accept, LabelToken, FailName, StrayClosing, InnerOther
<1>2. \A i : At(i)' = At(i)
    BY <1>1 DEF At
<1>3. \A i \in 1..Len(doc) : (TagEnd(i) = 0 /\ At(i) \in Cut) \/ TagEnd(i) = i + 1
    BY DEF TagEnd
<1>4. ASSUME mode \in {"outer", "inner"}
      PROVE  p \in pos..(Len(doc) + 1) /\ (At(p) # "eof" => p \in 1..Len(doc))
    <2>1. p \in pos..(Len(doc) + 1)
        BY <1>1, <1>4, SkipSpaceStops
    <2> QED BY <1>1, <1>4, <2>1, AtType
<1>5. CASE UNCHANGED vars
    BY <1>1, <1>2, <1>5 DEF vars, StaysInside
<1>6. ASSUME NEW i \in 1..Len(doc), At(i) \in Cut \cap Closing
      PROVE  (\E j \in DOMAIN doc : doc[j] \in Cut \cap Closing)'
    <2>1. i \in DOMAIN doc /\ doc[i] \in Cut \cap Closing
        BY <1>1, <1>6 DEF At
    <2> QED BY <1>1, <2>1
<1>7. CASE OuterOther
    <2>1. CASE At(p) # "eof"
        <3>1. mode' = "outer" /\ pos' = p + 1
            BY <1>7, <2>1 DEF OuterOther
        <3> QED BY <1>1, <1>4, <1>7, <2>1, <3>1 DEF StaysInside, OuterOther
    <2>2. CASE At(p) = "eof"
        <3>1. pos \in 1..Len(doc) /\ mode = "outer"
            BY <1>1, <1>7, AtType DEF OuterOther
        <3>2. p = Len(doc) + 1
            <4>1. p \in pos..(Len(doc) + 1)
                BY <1>4, <3>1
            <4>2. "eof" \notin Lexemes
                BY DEF Lexemes, Opening, Closing
            <4> QED BY <1>1, <2>2, <3>1, <4>1, <4>2, AtType
        <3>3. {"space"} \in SUBSET Lexemes
            BY DEF Lexemes
        <3>4. \A k \in pos..(p - 1) : At(k) \in {"space"}
            BY <1>1, <3>1, <3>3, SkipStops DEF SkipSpace
        <3>5. At(Len(doc)) = "space"
            BY <1>1, <3>1, <3>2, <3>4
        <3> QED BY <1>1, <1>2, <1>7, <2>2, <3>5 DEF StaysInside, OuterOther
    <2> QED BY <2>1, <2>2
<1>8. CASE Finish \/ OuterTag \/ OpenName \/ OpenCutName
    <2>1. CASE Finish
        BY <1>1, <2>1 DEF Finish, StaysInside
    <2>2. CASE OuterTag
        <3>1. At(p) # "eof" /\ mode = "outer"
            BY <2>2 DEF OuterTag, Opening, Closing
        <3> QED BY <1>1, <1>3, <1>4, <2>2, <3>1 DEF OuterTag, StaysInside
    <2>3. CASE OpenName
        <3>1. At(p) # "eof" /\ mode = "outer"
            BY <2>3 DEF OpenName
        <3> QED BY <1>1, <1>3, <1>4, <2>3, <3>1 DEF OpenName, StaysInside
    <2>4. CASE OpenCutName
        <3>1. At(p) # "eof" /\ mode = "outer"
            BY <2>4 DEF OpenCutName
        <3> QED BY <1>1, <1>4, <2>4, <3>1 DEF OpenCutName, StaysInside
    <2> QED BY <1>8, <2>1, <2>2, <2>3, <2>4
<1>9. CASE EndName
    <2>1. CASE At(p) \in {"endname", "cutendname"} /\ Accept(TagEnd(p))
        <3>1. p \in 1..Len(doc)
            BY <1>4, <1>9, <2>1 DEF EndName
        <3>2. TagEnd(p) = 0 => At(p) \in Cut \cap Closing
            BY <1>3, <2>1, <3>1 DEF Closing
        <3> QED BY <1>1, <1>3, <1>6, <2>1, <3>1, <3>2 DEF Accept, StaysInside
    <2>2. CASE At(p) = "eof" /\ Accept(p)
        BY <1>1, <1>4, <1>9, <2>2 DEF EndName, Accept, StaysInside
    <2> QED BY <1>9, <2>1, <2>2 DEF EndName
<1>10. CASE LabelToken
    <2> DEFINE end == Skip({"text", "space"}, p + 1)
               next == AfterContent(end)
    <2>1. p \in 1..Len(doc) /\ mode = "inner"
        BY <1>4, <1>10 DEF LabelToken
    <2>2. {"text", "space"} \in SUBSET Lexemes /\ p + 1 \in 1..(Len(doc) + 1)
        BY <1>1, <2>1 DEF Lexemes
    <2>3. pos' = next /\ mode' = IF next = 0 THEN "crashed" ELSE mode
        BY <1>10 DEF LabelToken, GoTo
    <2> HIDE DEF p
    <2>4. end \in (p + 1)..(Len(doc) + 1)
        BY <1>1, <2>2, SkipStops
    <2> HIDE DEF end
    <2>5. next = 0 => end \in 1..Len(doc) /\ At(end) \in Cut \cap Closing
        <3>1. CASE At(end) \in Closing
            <4>1. end \in 1..Len(doc)
                BY <1>1, <2>1, <2>4, <3>1, AtType DEF Closing
            <4> QED BY <1>3, <3>1, <4>1 DEF AfterContent
        <3> QED BY <2>1, <2>4, <3>1 DEF AfterContent
    <2>6. next \in 0..(Len(doc) + 1)
        <3>1. CASE At(end) \in Closing
            <4>1. end \in 1..Len(doc)
                BY <1>1, <2>1, <2>4, <3>1, AtType DEF Closing
            <4> QED BY <1>1, <1>3, <3>1, <4>1 DEF AfterContent
        <3> QED BY <2>1, <2>4, <3>1 DEF AfterContent
    <2> HIDE DEF next
    <2> QED BY <1>1, <1>6, <2>1, <2>3, <2>5, <2>6 DEF StaysInside
<1>11. CASE FailName
    BY <1>1, <1>11 DEF FailName, StaysInside
<1>12. CASE StrayClosing \/ InnerOther
    <2>1. p \in 1..Len(doc) /\ mode = "inner"
        BY <1>4, <1>12 DEF StrayClosing, InnerOther
    <2>2. CASE StrayClosing
        <3>1. TagEnd(p) = 0 => At(p) \in Cut \cap Closing
            BY <1>3, <2>1, <2>2 DEF StrayClosing, Closing
        <3> QED BY <1>1, <1>3, <1>6, <2>1, <2>2, <3>1 DEF StrayClosing, GoTo, StaysInside
    <2>3. CASE InnerOther
        BY <1>1, <2>1, <2>3 DEF InnerOther, StaysInside
    <2> QED BY <1>12, <2>2, <2>3
<1> QED BY <1>5, <1>7, <1>8, <1>9, <1>10, <1>11, <1>12 DEF Next, Scan

-----------------------------------------------------------------------------

\* The scan never leaves the invariant.
THEOREM ScanInvariant == Spec => []ScanInv
<1> QED BY InitScan, NextScan, PTL DEF Spec

\* The scan stays inside the buffer, or one lexeme behind its NUL, and the
\* strings it holds were read from the file, for every file.
THEOREM TypeCorrect == Spec => []TypeOK
<1> QED BY ScanInvariant, TypeOKHolds, PTL

\* No malformed file makes parse_training_file() use a label or a text twice,
\* collect it out of order, or put tokens of two names together of which the
\* first was closed.
THEOREM FileOrderAlways == Spec => []FileOrder
<1>1. Init => ApartInv
    BY DEF Init, ApartInv, Apart, StillOpen
<1>2. ScanInv /\ ApartInv /\ [Next]_vars => ApartInv'
    BY ApartStep
<1> QED BY <1>1, <1>2, ScanInvariant, FileOrderHolds, PTL DEF Spec

\* parse_training_file() reads behind the NUL only of a file that ends with
\* white space, and through the null pointer only of one in which a closing tag
\* has no end.
THEOREM StaysInsideAlways == Spec => []StaysInside
<1>1. Init => StaysInside
    <2>1. ASSUME Init PROVE Len(doc) \in Nat
        BY <2>1, DocsAssumption DEF Init
    <2> QED BY <2>1 DEF Init, StaysInside
<1>2. ScanInv /\ StaysInside /\ [Next]_vars => StaysInside'
    BY StaysStep
<1> QED BY <1>1, <1>2, ScanInvariant, PTL DEF Spec

\* add_sequence() and parse_name_element() write inside their arrays, and the
\* strings allocated are those of the tokens kept, whatever the file, the size
\* of a name and the first size of the array.
THEOREM MemorySafeAlways == Spec => []MemorySafe
<1> QED BY ScanInvariant, MemorySafeHolds, PTL

===============================================================================
