--------------------------------- MODULE Cqdb ---------------------------------
(***************************************************************************)
(* The constant quark database of cqdb.c: a chunk of the model file that   *)
(* maps strings to numbers through hash tables, and back through an array  *)
(* of links.                                                               *)
(*                                                                         *)
(* A chunk is an array of cells: a record [id, key], a bucket entry        *)
(* [hash, offset] or a link; an offset is the index of a cell, and 0 for   *)
(* none, since the header lies before the first cell. A hash value is a    *)
(* natural number.                                                         *)
(***************************************************************************)
EXTENDS Integers, Sequences, FiniteSets, FiniteSetsExt, Functions

CONSTANTS
    NumTables,  \* NUM_TABLES, 256 in the code
    NotFound,   \* CQDB_ERROR_NOTFOUND
    NoString,   \* the null that cqdb_to_string() returns
    Beyond      \* what is read behind the end of an array

Tables == 0..(NumTables - 1)

EmptyTable == [size |-> 0, bucket |-> << >>]
NoHeader == [bwd_size |-> 0, bwd_offset |-> 0, ref |-> << >>]

\* dbw->cur of the first record: OFFSET_DATA
FirstOffset == 1

NewWriter ==
    [cells |-> << >>, ht |-> [t \in Tables |-> EmptyTable], bwd |-> << >>, bwd_num |-> 0,
     error |-> FALSE]

\* dbw->cur
Cur(w) == FirstOffset + Len(w.cells)

\* size = (size + 1) * 2 while n does not fit
Enlarged(size, n) ==
    LET grown[k \in 0..(n + 1)] ==
            IF k = 0 THEN size
            ELSE IF grown[k - 1] <= n THEN (grown[k - 1] + 1) * 2 ELSE grown[k - 1]
    IN grown[n + 1]

\* cqdb_writer_put() that meets no error
WriterPut(w, key, hv, id) ==
    LET t == w.ht[hv % NumTables]
        size == Enlarged(Len(w.bwd), id)
        bwd == [k \in 1..size |-> IF k <= Len(w.bwd) THEN w.bwd[k] ELSE 0]
    IN [w EXCEPT
          !.cells = Append(@, [id |-> id, key |-> key]),
          !.ht[hv % NumTables] =
              [size |-> Enlarged(t.size, Len(t.bucket)),
               bucket |-> Append(t.bucket, [hash |-> hv, offset |-> Cur(w)])],
          !.bwd = [bwd EXCEPT ![id + 1] = Cur(w)],
          !.bwd_num = IF @ <= id THEN id + 1 ELSE @]

\* A write fails, or memory is short: the database is given up.
WriterGivesUp(w) == [w EXCEPT !.error = TRUE]

\* Mutant of Slots: no vacant slot ends a search.
OneEach(num) == num

\* Half of a table is kept empty.
Slots(num) == num * 2

\* The slot where the search for a hash value begins
Start(hv, n) == (hv \div NumTables) % n

Vacant == [hash |-> 0, offset |-> 0]

\* The distances from start, in the order of the search, at which a slot is free
Free(dst, start, n) == {d \in 0..(n - 1) : dst[(start + d) % n].offset = 0}

\* An entry goes into the first free slot of its search.
Place(dst, entry, n) ==
    LET start == Start(entry.hash, n)
    IN [dst EXCEPT ![(start + Min(Free(dst, start, n))) % n] = entry]

\* Open addressing: the entries of a table in the slots that are written
Placed(bucket) ==
    LET n == Slots(Len(bucket))
        dst[j \in 0..Len(bucket)] ==
            IF j = 0 THEN [k \in 0..(n - 1) |-> Vacant] ELSE Place(dst[j - 1], bucket[j], n)
    IN dst[Len(bucket)]

\* The slots of a table as cells
TableCells(bucket) ==
    LET slots == Placed(bucket)
    IN [k \in 1..Slots(Len(bucket)) |-> slots[k - 1]]

\* The cells of the tables in front of table t
CellsBefore(w, t) == MapThenSumSet(LAMBDA u : Slots(Len(w.ht[u].bucket)), 0..(t - 1))

\* cqdb_writer_close() that meets no error: the tables and the links behind
\* the records, then the header and the references.
WriterClose(w) ==
    LET written[t \in 0..NumTables] ==
            IF t = 0 THEN w.cells ELSE written[t - 1] \o TableCells(w.ht[t - 1].bucket)
    IN [header |->
          [bwd_size |-> w.bwd_num,
           bwd_offset |-> IF w.bwd = << >> THEN 0 ELSE FirstOffset + Len(written[NumTables]),
           ref |-> [t \in Tables |->
                      [offset |-> IF w.ht[t].bucket = << >> THEN 0 ELSE Cur(w) + CellsBefore(w, t),
                       num |-> Slots(Len(w.ht[t].bucket))]]],
        cells |-> written[NumTables] \o SubSeq(w.bwd, 1, w.bwd_num)]

\* A chunk that was given up, or not closed, has no header.
Unreadable == [header |-> NoHeader, cells |-> << >>]

-----------------------------------------------------------------------------
(* The reader *)

Cell(chunk, offset) ==
    LET i == offset - FirstOffset + 1
    IN IF i \in DOMAIN chunk.cells THEN chunk.cells[i] ELSE Beyond

\* db->num: the sum of the halves of the tables
NumRecords(chunk) == MapThenSumSet(LAMBDA t : chunk.header.ref[t].num \div 2, Tables)

\* cqdb_reader()
Reader(chunk) ==
    [chunk |-> chunk,
     num |-> NumRecords(chunk),
     ht |-> [t \in Tables |->
               LET ref == chunk.header.ref[t]
               IN [k \in 0..((IF ref.offset = 0 THEN 0 ELSE ref.num) - 1) |->
                     Cell(chunk, ref.offset + k)]],
     bwd |-> [i \in 0..((IF chunk.header.bwd_offset = 0 THEN 0 ELSE NumRecords(chunk)) - 1) |->
                Cell(chunk, chunk.header.bwd_offset + i)]]

\* A slot whose hash value and string are those sought
Matches(db, entry, key, hv) ==
    entry.hash = hv /\ Cell(db.chunk, entry.offset).key = key

\* cqdb_to_id(); Beyond when the search never ends
IdOf(db, key, hv) ==
    LET ht == db.ht[hv % NumTables]
        n == Cardinality(DOMAIN ht)
        start == Start(hv, n)
        slot(d) == ht[(start + d) % n]
        ends == {d \in 0..(n - 1) : slot(d).offset = 0 \/ Matches(db, slot(d), key, hv)}
    IN CASE n = 0 -> NotFound
         [] n # 0 /\ ends = {} -> Beyond
         [] OTHER -> IF slot(Min(ends)).offset = 0 THEN NotFound
                     ELSE Cell(db.chunk, slot(Min(ends)).offset).id

\* cqdb_to_string() of an id that is not negative
StringOf(db, id) ==
    IF DOMAIN db.bwd = {} \/ id >= db.chunk.header.bwd_size THEN NoString
    ELSE IF id \notin DOMAIN db.bwd THEN Beyond
    ELSE IF db.bwd[id] = 0 THEN NoString
    ELSE Cell(db.chunk, db.bwd[id]).key

=============================================================================
