---------------------------- MODULE MCExtraction -----------------------------
(***************************************************************************)
(* Which points an extraction gives, checked in one run for both formats:  *)
(* a shard of 1.x or 2.x (SeriesMerge) and a table of 3.x (V3Extraction).  *)
(* A behaviour is one of them at work, with the variables of the other at  *)
(* rest: they share nothing, and a store has one format.                   *)
(***************************************************************************)
EXTENDS V3Extraction, SeriesPoints

-----------------------------------------------------------------------------
(* Small shards: timestamps 0 .. 3, up to three files of two fields.       *)

\* The blocks a key can have in a file: none, one, two that share a timestamp,
\* two that overlap, a gap, the last timestamp, the whole range.
Keys == {<<>>, <<<<0>>>>, <<<<1>>, <<1, 2>>>>, <<<<2, 3>>, <<0>>>>, <<<<0, 1>>, <<3>>>>}
Few  == {<<>>, <<<<1, 2>>>>, <<<<2>>, <<3>>>>}
Write(values) == [kind |-> "write", values |-> values]
Other(kind) == [kind |-> kind, values |-> <<>>]
On(s, f, times) == [series |-> s, field |-> f, times |-> times]

Logs == {<<>>, <<<<Write(<<On(1, 1, <<2, 0, 2>>)>>)>>>>,
         <<<<Write(<<On(1, 2, <<1>>), On(1, 1, <<3, 1>>)>>), Write(<<On(1, 2, <<1, 1>>)>>)>>>>}

\* Logs of two series and of one that is in the log alone: a delete, then a torn
\* frame with a good one behind it; a segment after the torn one; a bad frame,
\* in reach and out of reach.
Broken == {<<<<Write(<<On(1, 1, <<1, 3>>), On(2, 1, <<0>>)>>), Other("delete"),
               Write(<<On(3, 2, <<2>>)>>), Other("torn"), Write(<<On(1, 1, <<0>>)>>)>>>>,
           <<<<Other("torn"), Write(<<On(3, 1, <<1>>)>>), Other("bad")>>,
             <<Write(<<On(2, 2, <<2, 1>>)>>)>>>>,
           <<<<Write(<<On(1, 1, <<0>>)>>), Other("bad")>>>>}

TwoFiles == {<<[f \in Fields |-> IF f = 1 THEN a ELSE b],
               [f \in Fields |-> IF f = 1 THEN c ELSE d]>> :
             a \in Keys, c \in Keys, b \in Few, d \in Few}

\* Three generations of one field: chains of overlaps and disjoint parts.
ThreeFiles == {[i \in 1 .. 3 |-> [f \in Fields |-> IF f = 1 THEN g[i] ELSE <<>>]] :
               g \in [1 .. 3 -> {<<<<0>>>>, <<<<1>>, <<2>>>>, <<<<0, 2>>>>, <<<<3>>>>}]}

Second == <<[f \in Fields |-> IF f = 1 THEN <<<<0, 2>>>> ELSE <<>>]>>

MCShards ==
  {[series |-> <<files, Second>>, log |-> log] : files \in TwoFiles, log \in Logs}
  \cup {[series |-> <<files, Second>>, log |-> <<>>] : files \in ThreeFiles}
  \cup {[series |-> <<files, Second, <<>>>>, log |-> log] :
          files \in ThreeFiles, log \in Broken}

\* None (SeriesMerge's NoCursor), or the place of a point, stored or not.
Cursors == {[series |-> 0, ts |-> 0], [series |-> 1, ts |-> 1], [series |-> 1, ts |-> 3],
            [series |-> 2, ts |-> 0], [series |-> 3, ts |-> 0]}

MCQueries == {[start |-> 0, end |-> 3, cursor |-> c] : c \in Cursors}
        \cup {[start |-> 1, end |-> 2, cursor |-> [series |-> 1, ts |-> t]] : t \in {0, 1}}

-----------------------------------------------------------------------------
(* Small tables.                                                           *)

\* Tag values: NULL, empty, a zero byte, one letter, that letter and more.
Values == {<<>>, <<<<>>>>, <<<<0>>>>, <<<<97>>>>, <<<<97, 0>>>>}
Vectors == Values \X Values

A == <<<<>>, <<<<97>>>>>>
B == <<<<<<97>>>>, <<>>>>

File(w, n, c, rs) == [wal |-> w, id |-> n, chunk |-> c, rows |-> rs]
Row(s, t) == [series |-> s, ts |-> t]

\* Every pair of series, in one file.
SeriesTables ==
  {[files |-> <<File(1, 1, 0, {Row(s, 0), Row(t, 1)})>>, extra |-> {}] : s, t \in Vectors}

\* What a file may hold: chunks of one timestamp, and of two.
One(c) == {{Row(A, c)}, {Row(A, c), Row(B, c)}}
Two(c) == One(c) \cup {{Row(A, c + 1)}, {Row(A, c), Row(A, c + 1)}, {Row(B, c), Row(A, c + 1)}}

Shifted(rs, d) == {Row(r.series, r.ts + d) : r \in rs}
Chunks == {<<c, Shifted(rs, c)>> : c \in -2 .. 1, rs \in One(0)}
          \cup {<<c, Shifted(rs, c)>> : c \in {-2, 0}, rs \in Two(0)}

\* Rows of the log: none, one in an old chunk, the same place twice.
Log(s, t, c, n) == [series |-> s, ts |-> t, chunk |-> c, rank |-> n]
LogRows == {{}, {Log(A, -1, -2, 0)}, {Log(A, 0, 0, 1), Log(A, 0, 0, 0), Log(B, 1, 1, 2)}}

\* The log's sequences and the ids of two files: neither follows the order of
\* the list, and the ids do not always follow the sequences.
Names == {<<1, 1, 2, 1>>, <<2, 1, 1, 2>>, <<1, 1, 1, 2>>}

\* Log rows outrank both files, in whatever order these are.
Named(n, x) ==
  {[files |-> <<File(n[1], n[3], f[1], f[2]), File(n[2], n[4], g[1], g[2])>>, extra |-> x] :
     f, g \in Chunks}
TwoFileTables == UNION ({Named(n, {}) : n \in Names} \cup {Named(<<2, 1, 1, 2>>, x) : x \in LogRows})

\* Three generations of the same rows; log rows alone; nothing at all.
ThreeFileTables ==
  {[files |-> [i \in 1 .. 3 |-> File(w[i], i, 0, c[i])], extra |-> {}] :
     w \in {<<1, 2, 3>>, <<3, 2, 1>>, <<2, 2, 1>>}, c \in [1 .. 3 -> Two(0)]}
LogTables == {[files |-> <<>>, extra |-> x] : x \in LogRows}

MCTables == SeriesTables \cup TwoFileTables \cup ThreeFileTables \cup LogTables
MCRanges == {<<-Half, Half - 1>>, <<-1, 0>>}

-----------------------------------------------------------------------------
(* One of the two.                                                         *)

shardVars == <<shard, query, windows, stage, segments, wal, units, pos, merged>>

\* A shard without a series, a table without a row, and nothing left to do.
SeriesIdle == /\ shard = [series |-> <<>>, log |-> <<>>]
              /\ query = [start |-> 0, end |-> 0, cursor |-> [series |-> 0, ts |-> 0]]
              /\ windows = 0 /\ stage = "failed" /\ segments = <<>> /\ wal = <<>>
              /\ units = <<>> /\ pos = <<>> /\ merged = <<>>
TableIdle == /\ table = [files |-> <<>>, extra |-> {}]
             /\ range = <<0, 0>> /\ cursor = <<>> /\ phase = "failed"
             /\ buckets = <<>> /\ rows = <<>> /\ seen = TRUE /\ emitted = <<>>

ExtractionInit == \/ SM!Init /\ TableIdle
                  \/ SeriesIdle /\ Init

ExtractionNext ==
  \/ SM!ReadSegment /\ UNCHANGED vars
  \/ SM!CorruptSegment /\ UNCHANGED vars
  \/ SM!MakePlan /\ UNCHANGED vars
  \/ SM!CursorNotFound /\ UNCHANGED vars
  \/ SM!EmitPoint /\ UNCHANGED vars
  \/ SM!NextUnit /\ UNCHANGED vars
  \/ SM!Finish /\ UNCHANGED vars
  \/ EmptyTable /\ UNCHANGED shardVars
  \/ MakePlan /\ UNCHANGED shardVars
  \/ SkipBucket /\ UNCHANGED shardVars
  \/ ReadBucket /\ UNCHANGED shardVars
  \/ ReadFails /\ UNCHANGED shardVars
  \/ SkipOlder /\ UNCHANGED shardVars
  \/ SkipDelivered /\ UNCHANGED shardVars
  \/ CursorLost /\ UNCHANGED shardVars
  \/ EmitPoint /\ UNCHANGED shardVars
  \/ NextBucket /\ UNCHANGED shardVars
  \/ Finish /\ UNCHANGED shardVars

ExtractionSpec == ExtractionInit /\ [][ExtractionNext]_<<shardVars, vars>>
=============================================================================
