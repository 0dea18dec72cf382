---------------------------- MODULE V3Extraction ----------------------------
(***************************************************************************)
(* The extraction of one InfluxDB 3 table, extract3.Extract                *)
(* (internal/extract3): the live Parquet files and the decoded log rows    *)
(* are partitioned into buckets by chunk time, each bucket is read and     *)
(* sorted, the newest of the rows of one series and time is emitted, and a *)
(* resumed extraction goes on behind the checkpoint's cursor.              *)
(*                                                                         *)
(* A series is its tag values in series-key order: <<>> is NULL, <<v>> the *)
(* value v, a sequence of bytes.  A row of a file stands for one that has  *)
(* a field value; what the fields are is named by where the row came from. *)
(* A file belongs to the chunk of all its rows: a time rounded down to the *)
(* chunk duration the server ran with when it wrote the file.              *)
(***************************************************************************)
EXTENDS SequencesExt, Sorting

CONSTANTS
  Tables,  \* tables: [files |-> sequence of files, extra |-> set of log rows]
  Ranges,  \* pairs <<start, end>>
  Half     \* half the number of timestamps: times are in -Half .. Half - 1

Times == -Half .. Half - 1
Bytes == 0 .. 255

FilesOf(t) == ToSet(t.files)
RowsOf(t) == (UNION {f.rows : f \in FilesOf(t)}) \cup t.extra

IsSeries(s) == s \in Seq(Seq(Seq(Bytes))) /\ \A c \in DOMAIN s : Len(s[c]) <= 1

\* Ids are unique, and ranks are, the order in which the log was decoded.
ASSUME ConstantsAssumption ==
  /\ Half \in Nat \ {0}
  /\ Ranges \subseteq Times \X Times
  /\ \A t \in Tables :
       /\ t.files \in Seq(FilesOf(t))
       /\ \A f \in FilesOf(t) :
            /\ f.wal \in Nat /\ f.id \in Nat /\ f.chunk \in Times
            /\ f.rows # {} /\ IsFiniteSet(f.rows)
            /\ \A r \in f.rows : r.ts \in f.chunk .. Half - 1
       /\ \A f, g \in FilesOf(t) : f.id = g.id => f = g
       /\ IsFiniteSet(t.extra)
       /\ \A x \in t.extra :
            x.rank \in Nat /\ x.chunk \in Times /\ x.ts \in x.chunk .. Half - 1
       /\ \A x, y \in t.extra : x.rank = y.rank => x = y
       /\ \A r \in RowsOf(t) : IsSeries(r.series)
       /\ \A r, s \in RowsOf(t) : Len(r.series) = Len(s.series)

VARIABLES
  table,    \* the live files, in any order, and the decoded log rows
  range,    \* start and end
  cursor,   \* <<>>, or <<c>>: the place c of the last committed point
  phase,    \* "plan", "bucket", "rows"; "done", "stale" (the cursor does not
            \* match the source), "failed" (a read error)
  buckets,  \* the buckets not yet finished
  rows,     \* the rows of the first bucket not yet looked at
  seen,     \* cursorSeen
  emitted   \* the points given to the callback

inputs == <<table, range, cursor>>
vars == <<table, range, cursor, phase, buckets, rows, seen, emitted>>

-----------------------------------------------------------------------------
(* Keys.                                                                   *)

\* Byte by byte, as strings compare; a proper prefix comes first.
Precedes(a, b) ==
  \E n \in 0 .. Len(b) - 1 :
    /\ n <= Len(a) /\ \A i \in 1 .. n : a[i] = b[i]
    /\ n < Len(a) => a[n + 1] < b[n + 1]

Escaped(v) == FlattenSeq([i \in DOMAIN v |-> IF v[i] = 0 THEN <<0, 255>> ELSE <<v[i]>>])

ColumnKey(value) == IF value = <<>> THEN <<0>> ELSE <<1>> \o Escaped(value[1]) \o <<0>>

\* Two digits per byte, which compare as their characters do.
Hex(bytes) ==
  [i \in 1 .. 2 * Len(bytes) |->
     IF i % 2 = 1 THEN bytes[(i + 1) \div 2] \div 16 ELSE bytes[i \div 2] % 16]

OrderKey(series) == Hex(FlattenSeq([c \in DOMAIN series |-> ColumnKey(series[c])]))

\* The sign bit flipped: an unsigned number in the order of the signed one.
BucketPrefix(chunk) == (chunk + Half) % (2 * Half)

SeriesKey(chunk, series) == <<BucketPrefix(chunk)>> \o OrderKey(series)

-----------------------------------------------------------------------------
(* Buckets.                                                                *)

ChunksOf(t) == {f.chunk : f \in FilesOf(t)} \cup {x.chunk : x \in t.extra}

\* Oldest write first: the log's sequence in the name, then the id.
OlderFile(f, g) == f.wal < g.wal \/ (f.wal = g.wal /\ f.id < g.id)

SortFilesLWW(fs) == Ascending(fs, OlderFile)

Bucket(c) == [chunk |-> c, files |-> SortFilesLWW({f \in FilesOf(table) : f.chunk = c}),
              extra |-> {x \in table.extra : x.chunk = c}]

Bucketize == LET sorted == Ascending(ChunksOf(table), <)
             IN  [i \in DOMAIN sorted |-> Bucket(sorted[i])]

TimesOf(b) == (UNION {{r.ts : r \in f.rows} : f \in ToSet(b.files)}) \cup {x.ts : x \in b.extra}

\* Slip: a bucket may end on the next one's first timestamp.
DisjointTouching(bs) ==
  \A i \in 1 .. Len(bs) - 1 : \A ts \in TimesOf(bs[i]) : ts <= bs[i + 1].chunk

\* No bucket reaches into the next: bucketsDisjoint.
Disjoint(bs) ==
  \A i \in 1 .. Len(bs) - 1 : \A ts \in TimesOf(bs[i]) : ts < bs[i + 1].chunk

\* If one does, the whole table becomes one bucket.
Planned ==
  IF Disjoint(Bucketize) THEN Bucketize
  ELSE <<[chunk |-> Bucketize[1].chunk, files |-> SortFilesLWW(FilesOf(table)), extra |-> table.extra]>>

InRange(ts) == range[1] <= ts /\ ts <= range[2]

\* Log rows outrank every file.
ExtraRank(b, x) == Len(b.files) + x.rank

FileRows(b) ==
  UNION {{[key |-> OrderKey(r.series), ts |-> r.ts, rank |-> i - 1, series |-> r.series,
           src |-> <<0, b.files[i].wal, b.files[i].id>>] : r \in b.files[i].rows} :
         i \in DOMAIN b.files}

ExtraRows(b) ==
  {[key |-> OrderKey(x.series), ts |-> x.ts, rank |-> ExtraRank(b, x), series |-> x.series,
    src |-> <<1, x.rank>>] : x \in b.extra}

RowBefore(r, s) ==
  \/ Precedes(r.key, s.key)
  \/ r.key = s.key /\ (r.ts < s.ts \/ (r.ts = s.ts /\ r.rank < s.rank))

RowSet(b) == {r \in FileRows(b) \cup ExtraRows(b) : InRange(r.ts)}

ReadRows(b) == Ascending(RowSet(b), RowBefore)

-----------------------------------------------------------------------------
(* Extract.                                                                *)

Cursor == cursor[1]
CursorKey == SeriesKey(Cursor.chunk, Cursor.series)

\* The places of the table, and others: of another chunk, series or time.
Places(t) ==
  {c \in [chunk : ChunksOf(t) \cup {0}, series : {r.series : r \in RowsOf(t)} \cup {<<>>},
          ts : {r.ts : r \in RowsOf(t)} \cup {0}] : c.chunk <= c.ts}

\* A checkpoint may hold no cursor, or any, of this source or of another one.
Init ==
  /\ table \in Tables /\ range \in Ranges
  /\ cursor \in {<<>>} \cup {<<c>> : c \in Places(table)}
  /\ phase = "plan"
  /\ buckets = <<>> /\ rows = <<>>
  /\ seen = (cursor = <<>>)
  /\ emitted = <<>>

Empty == table.files = <<>> /\ table.extra = {}

EmptyTable ==
  /\ phase = "plan" /\ Empty
  /\ phase' = "done"
  /\ UNCHANGED <<inputs, buckets, rows, seen, emitted>>

BucketExists(bs) == \E i \in DOMAIN bs : BucketPrefix(bs[i].chunk) = CursorKey[1]

\* A cursor that is not one of this format fails like one without a bucket.
MakePlan ==
  /\ phase = "plan" /\ ~Empty
  /\ buckets' = Planned
  /\ phase' = IF cursor = <<>> \/ BucketExists(Planned) THEN "bucket" ELSE "stale"
  /\ UNCHANGED <<inputs, rows, seen, emitted>>

\* By the first and the last time of a file, which its manifest has.
Touches(f) == (\E r \in f.rows : r.ts <= range[2]) /\ (\E r \in f.rows : r.ts >= range[1])

\* The bucket is behind the cursor, or no file of it touches the range.
Skippable(b) ==
  \/ cursor # <<>> /\ BucketPrefix(b.chunk) < CursorKey[1]
  \/ b.extra = {} /\ \A f \in ToSet(b.files) : ~Touches(f)

SkipBucket ==
  /\ phase = "bucket" /\ buckets # <<>>
  /\ Skippable(Head(buckets))
  /\ buckets' = Tail(buckets)
  /\ UNCHANGED <<inputs, phase, rows, seen, emitted>>

ReadBucket ==
  /\ phase = "bucket" /\ buckets # <<>>
  /\ ~Skippable(Head(buckets))
  /\ rows' = ReadRows(Head(buckets))
  /\ phase' = "rows"
  /\ UNCHANGED <<inputs, buckets, seen, emitted>>

\* A file cannot be opened or read, or a tag is not in the series key.
ReadFails ==
  /\ phase = "bucket" /\ buckets # <<>>
  /\ ~Skippable(Head(buckets))
  /\ phase' = "failed"
  /\ UNCHANGED <<inputs, buckets, rows, seen, emitted>>

\* Rows of one place stand together, the newest last.
Superseded == Len(rows) > 1 /\ rows[2].key = rows[1].key /\ rows[2].ts = rows[1].ts

SkipOlder ==
  /\ phase = "rows" /\ rows # <<>>
  /\ Superseded
  /\ rows' = Tail(rows)
  /\ UNCHANGED <<inputs, phase, buckets, seen, emitted>>

RowKey == <<BucketPrefix(Head(buckets).chunk)>> \o rows[1].key

AtCursor == cursor # <<>> /\ RowKey = CursorKey /\ rows[1].ts = Cursor.ts

Delivered ==
  /\ cursor # <<>>
  /\ Precedes(RowKey, CursorKey) \/ (RowKey = CursorKey /\ rows[1].ts <= Cursor.ts)

\* Slip: any point behind the cursor will do.
SawCursorBefore == TRUE

SawCursor == seen \/ AtCursor

SkipDelivered ==
  /\ phase = "rows" /\ rows # <<>>
  /\ ~Superseded /\ Delivered
  /\ seen' = SawCursor
  /\ rows' = Tail(rows)
  /\ UNCHANGED <<inputs, phase, buckets, emitted>>

\* The first point past the cursor, and the cursor was not there.
CursorLost ==
  /\ phase = "rows" /\ rows # <<>>
  /\ ~Superseded /\ ~Delivered /\ ~seen
  /\ phase' = "stale"
  /\ UNCHANGED <<inputs, buckets, rows, seen, emitted>>

EmitPoint ==
  /\ phase = "rows" /\ rows # <<>>
  /\ ~Superseded /\ ~Delivered /\ seen
  /\ emitted' = Append(emitted, [series |-> rows[1].series, ts |-> rows[1].ts, src |-> rows[1].src])
  /\ rows' = Tail(rows)
  /\ UNCHANGED <<inputs, phase, buckets, seen>>

NextBucket ==
  /\ phase = "rows" /\ rows = <<>>
  /\ buckets' = Tail(buckets)
  /\ phase' = "bucket"
  /\ UNCHANGED <<inputs, rows, seen, emitted>>

Finish ==
  /\ phase = "bucket" /\ buckets = <<>>
  /\ phase' = IF seen THEN "done" ELSE "stale"
  /\ UNCHANGED <<inputs, buckets, rows, seen, emitted>>

Next == \/ EmptyTable \/ MakePlan \/ SkipBucket \/ ReadBucket \/ ReadFails
        \/ SkipOlder \/ SkipDelivered \/ CursorLost \/ EmitPoint \/ NextBucket \/ Finish

Spec == Init /\ [][Next]_vars

-----------------------------------------------------------------------------
(* Properties.                                                             *)

\* Types of what changes.
TypeOK ==
  /\ phase \in {"plan", "bucket", "rows", "done", "stale", "failed"}
  /\ seen \in BOOLEAN
  /\ \A i \in DOMAIN buckets : buckets[i].chunk \in Times
  /\ \A i \in DOMAIN rows : rows[i].rank \in Nat /\ rows[i].ts \in Times
  /\ \A i \in DOMAIN emitted : emitted[i].ts \in Times

\* Everything written to the table.
Written ==
  (UNION {{[chunk |-> f.chunk, series |-> r.series, ts |-> r.ts, src |-> <<0, f.wal, f.id>>] :
             r \in f.rows} : f \in FilesOf(table)})
  \cup {[chunk |-> x.chunk, series |-> x.series, ts |-> x.ts, src |-> <<1, x.rank>>] :
          x \in table.extra}

\* A chunk reaches into a later one: a chunk duration has been changed.
Overlap == \E v, w \in Written : v.chunk < w.chunk /\ v.ts >= w.chunk

PlaceOf(v) == [chunk |-> IF Overlap THEN Min({w.chunk : w \in Written}) ELSE v.chunk,
               series |-> v.series, ts |-> v.ts]

\* NULLS FIRST, then the order of the bytes.
SeriesBefore(s, t) ==
  \E c \in DOMAIN s :
    /\ \A k \in 1 .. c - 1 : s[k] = t[k]
    /\ t[c] # <<>> /\ (s[c] = <<>> \/ Precedes(s[c][1], t[c][1]))

PlaceBefore(p, q) ==
  \/ p.chunk < q.chunk
  \/ p.chunk = q.chunk /\ SeriesBefore(p.series, q.series)
  \/ p.chunk = q.chunk /\ p.series = q.series /\ p.ts < q.ts

Asked == {PlaceOf(v) : v \in {w \in Written : InRange(w.ts)}}

Newest(p) ==
  LET vs == {v \in Written : v.series = p.series /\ v.ts = p.ts}
  IN  (CHOOSE v \in vs : \A w \in vs : v = w \/ Precedes(w.src, v.src)).src

\* The cursor is a point this source has, in the order of this source.
CursorHeld == cursor = <<>> \/ Cursor \in Asked

Rest == {p \in Asked : cursor = <<>> \/ PlaceBefore(Cursor, p)}

Expected ==
  LET sorted == Ascending(Rest, PlaceBefore)
  IN  [i \in DOMAIN sorted |->
         [series |-> sorted[i].series, ts |-> sorted[i].ts, src |-> Newest(sorted[i])]]

\* Every (series, time) asked for comes once, in the order of chunk, series
\* and time, with the row written last, whatever the order of the file list,
\* the overlaps of chunks and the cursor; only a read error cuts it short, and
\* changes nothing before it (the package comment of extract3).
OutputExact ==
  CursorHeld =>
    /\ IsPrefix(emitted, Expected)
    /\ phase = "done" => emitted = Expected
    /\ phase # "stale"

\* A cursor that no longer matches the source fails before anything is
\* emitted (the comment of Extract), unless the table has become empty.
StaleCursorFails ==
  ~CursorHeld => emitted = <<>> /\ (phase = "done" => Empty)
=============================================================================
