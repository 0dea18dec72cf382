----------------------------- MODULE SeriesMerge ----------------------------
(***************************************************************************)
(* The extraction of a shard's points (internal/extract): every field of a *)
(* series is stored apart, in several TSM files and in the write-ahead     *)
(* log; the extraction partitions the files into runs that cannot          *)
(* interleave, optionally cuts a run into time windows (--shard-split),    *)
(* and merges the streams of each on the time axis, the newest value of a  *)
(* (timestamp, field) winning.                                             *)
(*                                                                         *)
(* A value is known by where it was written: its source (a file's index,   *)
(* the log after all files) and its position there.  A series is known by  *)
(* its rank in key order.  Times are 0 .. LastTime, the width of the       *)
(* timestamp: LastTime stands for MaxInt64.  A stream is the sequence of   *)
(* values it will yield; its blocks are read, and their files open, when   *)
(* FileHandles says.                                                       *)
(*                                                                         *)
(* The log is a sequence of segments, a segment a sequence of frames: a    *)
(* "write" with the values it holds, a "delete", a "torn" frame (cut       *)
(* short, longer than any real one, or not decompressible) or a "bad" one  *)
(* (of an unknown type, or a write that does not parse).                   *)
(***************************************************************************)
EXTENDS SequencesExt, FiniteSetsExt, Sorting, SeriesParams

Times == 0 .. LastTime
NoCursor == [series |-> 0, ts |-> 0]

VARIABLES
  shard,    \* the series of the shard, in key order, and its log
  query,    \* --start, --end and the resume cursor
  windows,  \* windows asked of each run; 0 is the serial path
  phase,    \* "index", "merge", then "done" or "failed"
  segments, \* the segments of the log still to be read
  wal,      \* wal[s]: shardIndex.walBySeries, the log's streams of series s
  units,    \* the streams to merge together, in emission order
  pos,      \* pos[i]: values consumed from stream i of the first unit
  emitted   \* the points given to the callback

vars == <<shard, query, windows, phase, segments, wal, units, pos, emitted>>

NumSeries == Len(shard.series)
Series(s) == [files |-> shard.series[s], wal |-> wal[s]]

-----------------------------------------------------------------------------
(* The stored values. *)

Earlier(x, y) == x[1] < y[1] \/ (x[1] = y[1] /\ x[2] < y[2])   \* positions

\* The values of block b of a key in file fi, in stored order.
BlockValues(fi, block, b) ==
  [i \in 1 .. Len(block) |-> [ts |-> block[i], src |-> fi, at |-> <<b, i>>]]

ValueBefore(x, y) == x.ts < y.ts \/ (x.ts = y.ts /\ Earlier(x.at, y.at))

\* A stable sort by time.
SortedByTime(vals) == Ascending(ToSet(vals), ValueBefore)

\* Index entries of a block.
MinTime(block) == Min(ToSet(block))
MaxTime(block) == Max(ToSet(block))

EntriesAscending(blocks) ==
  \A b \in 2 .. Len(blocks) : MinTime(blocks[b]) >= MaxTime(blocks[b-1])

\* The blocks that intersect the window, which stand together when ascending.
Pruned(blocks, w) ==
  {b \in 1 .. Len(blocks) : MaxTime(blocks[b]) >= w[1] /\ MinTime(blocks[b]) <= w[2]}

\* peek skips the values before the window and ends at the first after it.
InWindow(vals, w) ==
  LET asked  == {i \in 1 .. Len(vals) : vals[i].ts >= w[1]}
      beyond == {i \in asked : vals[i].ts > w[2]}
  IN Picked(vals, {i \in asked : \A j \in beyond : i < j})

\* blockStream: block by block, or the whole key sorted when its blocks overlap.
BlockStream(fi, blocks, w) ==
  LET all == FlattenSeq([b \in 1 .. Len(blocks) |-> BlockValues(fi, blocks[b], b)])
      few == FlattenSeq([b \in 1 .. Len(blocks) |->
               IF b \in Pruned(blocks, w)
                 THEN SortedByTime(BlockValues(fi, blocks[b], b)) ELSE <<>>])
  IN InWindow(IF EntriesAscending(blocks) THEN few ELSE SortedByTime(all), w)

\* sliceStream: the log keeps client write order, so it is sorted first.
SliceStream(src, times, w) == InWindow(SortedByTime(BlockValues(src, times, 0)), w)

-----------------------------------------------------------------------------
(* Runs: the files that must be merged together. *)

FilesOf(sr) == {fi \in 1 .. Len(sr.files) : \E f \in Fields : sr.files[fi][f] # <<>>}

FileTimes(file) == UNION {ToSet(FlattenSeq(file[f])) : f \in Fields}
FileMin(sr, fi) == Min(FileTimes(sr.files[fi]))
FileMax(sr, fi) == Max(FileTimes(sr.files[fi]))

\* Slip: files that share a boundary timestamp are kept apart.
StartsRunAtTouch(min, max) == min >= max

\* A file starts a new run when it begins after everything before it ended.
StartsRun(min, max) == min > max

StartsEarlier(sr, a, b) == \/ FileMin(sr, a) < FileMin(sr, b)
                           \/ FileMin(sr, a) = FileMin(sr, b) /\ a < b

\* partitionRuns: by start time to find the runs, by index within a run.
Runs(sr) ==
  LET byStart == Ascending(FilesOf(sr), LAMBDA a, b : StartsEarlier(sr, a, b))
      ends(n) == {FileMax(sr, byStart[m]) : m \in 1 .. n}
      starts == {n \in 1 .. Len(byStart) :
                   n > 1 => StartsRun(FileMin(sr, byStart[n]), Max(ends(n - 1)))}
      first == Ascending(starts, <)
      places(r) == {n \in first[r] .. Len(byStart) : \A m \in starts : m > first[r] => n < m}
  IN IF sr.wal # <<>> \/ Len(byStart) < 2 THEN << Ascending(FilesOf(sr), <) >>
     ELSE [r \in 1 .. Len(first) |-> Ascending({byStart[n] : n \in places(r)}, <)]

-----------------------------------------------------------------------------
(* Windows: a run cut at block boundaries into disjoint time ranges. *)

\* The blocks of a run, as the records splitWindows reads.
Entries(sr, run) ==
  FlattenSeq([i \in 1 .. Len(run) |->
    FlattenSeq([k \in 1 .. Cardinality(Fields) |->
      LET blocks == sr.files[run[i]][Ascending(Fields, <)[k]]
      IN [b \in 1 .. Len(blocks) |-> [min |-> MinTime(blocks[b]),
                                      max |-> MaxTime(blocks[b]),
                                      size |-> Len(blocks[b])]]])])

\* A split point: the end of a block at which another k-th of the bytes is past.
AddSplit(acc, e, total, max, k) ==
  LET cum == acc.cum + e.size
      due == acc.next < k /\ cum >= (total * acc.next) \div k
      fresh == e.max < max /\ (acc.splits = <<>> \/ e.max > Last(acc.splits))
  IN [cum |-> cum,
      next |-> IF due THEN acc.next + 1 ELSE acc.next,
      splits |-> IF due /\ fresh THEN Append(acc.splits, e.max) ELSE acc.splits]

AfterSplit(s) == s + 1

AddWindow(acc, s) ==
  IF s >= acc.start
    THEN [start |-> AfterSplit(s), out |-> Append(acc.out, <<acc.start, s>>)]
    ELSE acc

\* Entries i and j in order of time.
EntryBefore(entries, i, j) ==
  \/ entries[i].min < entries[j].min
  \/ entries[i].min = entries[j].min /\ entries[i].max < entries[j].max
  \/ entries[i].min = entries[j].min /\ entries[i].max = entries[j].max /\ i < j

\* The split points of a run: the loop over its blocks.
Splits(entries, max, k) ==
  LET order == Ascending(DOMAIN entries, LAMBDA i, j : EntryBefore(entries, i, j))
      total == Cardinality(UNION {{i} \X (1 .. entries[i].size) : i \in DOMAIN entries})
      acc[n \in 0 .. Len(order)] ==
        IF n = 0 THEN [cum |-> 0, next |-> 1, splits |-> <<>>]
        ELSE AddSplit(acc[n-1], entries[order[n]], total, max, k)
  IN  acc[Len(order)].splits

SplitWindows(entries, min, max, k) ==
  LET splits == Splits(entries, max, k)
      acc[n \in 0 .. Len(splits)] ==
        IF n = 0 THEN [start |-> min, out |-> <<>>] ELSE AddWindow(acc[n-1], splits[n])
      cut == acc[Len(splits)]
  IN Append(cut.out, <<cut.start, max>>)

\* The windows of a run of the split path, before they are clipped.  A run with
\* a key whose blocks overlap stays whole.
WindowsOf(sr, run) ==
  LET times == (UNION {FileTimes(sr.files[run[i]]) : i \in 1 .. Len(run)})
                 \cup UNION {ToSet(sr.wal[i].times) : i \in 1 .. Len(sr.wal)}
      wellFormed == \A i \in 1 .. Len(run) : \A f \in Fields :
                      EntriesAscending(sr.files[run[i]][f])
  IN IF times = {} THEN <<>>
     ELSE SplitWindows(Entries(sr, run), Min(times), Max(times),
                       IF wellFormed THEN windows ELSE 1)

-----------------------------------------------------------------------------
(* The plan: what is merged together, in emission order. *)

\* The cursor stands at the end of time: its series is delivered.
NothingLeft(s) == s = query.cursor.series /\ query.cursor.ts = LastTime

NextTime(t) == IF t = LastTime THEN 0 ELSE t + 1   \* wraps, as int64 does

SeriesStart(s) ==
  IF s = query.cursor.series THEN Max({query.start, NextTime(query.cursor.ts)})
  ELSE query.start

\* The streams of a run within a window: files by index, fields by name, the
\* log last.  The split path leaves out the files with no block in the window.
FileStreams(sr, run, w, all) ==
  LET byName == Ascending(Fields, <)
      keys == FlattenSeq([i \in 1 .. Len(run) |->
                [k \in 1 .. Len(byName) |-> <<run[i], byName[k]>>]])
      blocks(n) == sr.files[keys[n][1]][keys[n][2]]
      kept == Picked(keys, {n \in 1 .. Len(keys) :
                              blocks(n) # <<>> /\ (all \/ Pruned(blocks(n), w) # {})})
  IN [i \in 1 .. Len(kept) |->
        [field |-> kept[i][2],
         vals |-> BlockStream(kept[i][1], sr.files[kept[i][1]][kept[i][2]], w)]]

LogStreams(sr, w) ==
  [i \in 1 .. Len(sr.wal) |->
     [field |-> sr.wal[i].field,
      vals |-> SliceStream(Len(sr.files) + i, sr.wal[i].times, w)]]

Unit(s, run, w, all) ==
  [series |-> s,
   streams |-> FileStreams(Series(s), run, w, all) \o LogStreams(Series(s), w)]

SerialUnits(s) ==
  LET runs == Runs(Series(s))
  IN [r \in 1 .. Len(runs) |-> Unit(s, runs[r], <<SeriesStart(s), query.end>>, TRUE)]

\* buildTasks clips each window to the range asked for and drops the empty ones.
RunTasks(s, run) ==
  LET cut == WindowsOf(Series(s), run)
      clipped == [i \in 1 .. Len(cut) |-> <<Max({cut[i][1], SeriesStart(s)}),
                                            Min({cut[i][2], query.end})>>]
      kept == Picked(clipped, {i \in 1 .. Len(clipped) : clipped[i][1] <= clipped[i][2]})
      tasks == [i \in 1 .. Len(kept) |-> Unit(s, run, kept[i], FALSE)]
  IN Picked(tasks, {i \in 1 .. Len(tasks) : tasks[i].streams # <<>>})

SplitUnits(s) ==
  LET runs == Runs(Series(s))
  IN FlattenSeq([r \in 1 .. Len(runs) |-> RunTasks(s, runs[r])])

\* A series is known from a key of a file or from a frame that was read.
Present(s) == s \in 1 .. NumSeries /\ (FilesOf(Series(s)) # {} \/ wal[s] # <<>>)

UnitsOf(s) ==
  IF NothingLeft(s) \/ ~ Present(s) THEN <<>>
  ELSE IF windows = 0 THEN SerialUnits(s) ELSE SplitUnits(s)

\* applyCursor: the series before the cursor's are dropped.
Skipped(s) == s < query.cursor.series

Plan == FlattenSeq([s \in 1 .. NumSeries |-> IF Skipped(s) THEN <<>> ELSE UnitsOf(s)])

AtStart(us) == IF us = <<>> THEN <<>> ELSE [i \in 1 .. Len(us[1].streams) |-> 0]

-----------------------------------------------------------------------------
(* The merge. *)

Init ==
  /\ shard \in StoredShards
  /\ query \in Queries
  /\ windows \in 0 .. MaxWindows
  /\ phase = "index"
  /\ segments = shard.log
  /\ wal = [s \in 1 .. NumSeries |-> <<>>]
  /\ units = <<>> /\ pos = <<>>
  /\ emitted = <<>>

\* The frame at which the reader of a segment stops.
EndsReading(frame) == frame.kind \in {"torn", "bad"}

\* The frames before it.
Readable(segment) ==
  LET stops == {i \in 1 .. Len(segment) : EndsReading(segment[i])}
  IN SubSeq(segment, 1, Min({Len(segment) + 1} \cup stops) - 1)

\* Only an unknown or malformed frame is an error; a torn one is taken for the
\* end of a log that was never closed.
FailsReading(segment) ==
  LET n == Len(Readable(segment)) IN n < Len(segment) /\ segment[n+1].kind = "bad"

\* Each (key, values) pair of a write is a stream of its series.
StreamsIn(frames, s) ==
  LET pairs == FlattenSeq([i \in 1 .. Len(frames) |-> frames[i].values])
      own == Picked(pairs, {i \in 1 .. Len(pairs) : pairs[i].series = s})
  IN [i \in 1 .. Len(own) |-> [field |-> own[i].field, times |-> own[i].times]]

ReadSegment ==
  /\ phase = "index" /\ segments # <<>>
  /\ ~ FailsReading(Head(segments))
  /\ wal' = [s \in 1 .. NumSeries |-> wal[s] \o StreamsIn(Readable(Head(segments)), s)]
  /\ segments' = Tail(segments)
  /\ UNCHANGED <<shard, query, windows, phase, units, pos, emitted>>

CorruptSegment ==
  /\ phase = "index" /\ segments # <<>>
  /\ FailsReading(Head(segments))
  /\ phase' = "failed"
  /\ UNCHANGED <<shard, query, windows, segments, wal, units, pos, emitted>>

Indexed == phase = "index" /\ segments = <<>>

\* After indexing: the cursor's series must be there.
MakePlan ==
  /\ Indexed
  /\ query.cursor.series = 0 \/ Present(query.cursor.series)
  /\ units' = Plan
  /\ pos' = AtStart(units')
  /\ phase' = "merge"
  /\ UNCHANGED <<shard, query, windows, segments, wal, emitted>>

CursorNotFound ==
  /\ Indexed
  /\ query.cursor.series # 0 /\ ~ Present(query.cursor.series)
  /\ phase' = "failed"
  /\ UNCHANGED <<shard, query, windows, segments, wal, units, pos, emitted>>

Streams == Head(units).streams

\* The streams that have a next value, and its time.
Open == {i \in 1 .. Len(Streams) : pos[i] < Len(Streams[i].vals)}
NextTs(i) == Streams[i].vals[pos[i] + 1].ts

\* The gather loop takes every value a stream has at the time of its head.
Drain(i, ts) ==
  LET vals == Streams[i].vals
  IN Min({j \in pos[i] .. Len(vals) : j = Len(vals) \/ vals[j+1].ts # ts})

\* Equal timestamps are consumed in stream order: the last one overwrites.
LastConsumed(is) == Max(is)

\* One round of mergeSeries: the least timestamp, and of every field that has a
\* value at it the one consumed last.
EmitPoint ==
  /\ phase = "merge" /\ units # <<>> /\ Open # {}
  /\ LET ts == Min({NextTs(i) : i \in Open})
         has(f) == {i \in Open : Streams[i].field = f /\ NextTs(i) = ts}
         value(f) == LET i == LastConsumed(has(f)) IN Streams[i].vals[Drain(i, ts)]
     IN /\ emitted' = Append(emitted,
               [series |-> Head(units).series, ts |-> ts,
                fields |-> [f \in {g \in Fields : has(g) # {}} |->
                              <<value(f).src, value(f).at>>]])
        /\ pos' = [i \in DOMAIN pos |-> IF i \in Open THEN Drain(i, ts) ELSE pos[i]]
  /\ UNCHANGED <<shard, query, windows, phase, segments, wal, units>>

NextUnit ==
  /\ phase = "merge" /\ units # <<>> /\ Open = {}
  /\ units' = Tail(units)
  /\ pos' = AtStart(Tail(units))
  /\ UNCHANGED <<shard, query, windows, phase, segments, wal, emitted>>

Finish ==
  /\ phase = "merge" /\ units = <<>>
  /\ phase' = "done"
  /\ UNCHANGED <<shard, query, windows, segments, wal, units, pos, emitted>>

Next == ReadSegment \/ CorruptSegment \/ MakePlan \/ CursorNotFound \/ EmitPoint \/ NextUnit \/ Finish

Spec == Init /\ [][Next]_vars

-----------------------------------------------------------------------------
(* Properties *)

\* What a series' frames in the log hold that were written before the log broke
\* off, segment by segment, in order.
Logged(s) ==
  LET whole(segment) == {i \in 1 .. Len(segment) :
                           \A j \in 1 .. i : segment[j].kind \notin {"torn", "bad"}}
  IN FlattenSeq([g \in 1 .. Len(shard.log) |->
       StreamsIn(SubSeq(shard.log[g], 1, Cardinality(whole(shard.log[g]))), s)])

\* Everything written for a series: the definition the output is held against.
Written(s) ==
  LET files == shard.series[s] IN
  (UNION {UNION {{[field |-> f, ts |-> files[fi][f][b][i], src |-> fi, at |-> <<b, i>>] :
                    i \in 1 .. Len(files[fi][f][b])} :
                  b \in 1 .. Len(files[fi][f])} :
          fi \in 1 .. Len(files), f \in Fields})
  \cup
  UNION {{[field |-> Logged(s)[k].field, ts |-> Logged(s)[k].times[i],
           src |-> Len(files) + k, at |-> <<0, i>>] : i \in 1 .. Len(Logged(s)[k].times)} :
         k \in 1 .. Len(Logged(s))}

Newest(vs) ==
  CHOOSE v \in vs : \A x \in vs \ {v} : x.src < v.src \/ (x.src = v.src /\ Earlier(x.at, v.at))

Asked(s, ts) ==
  /\ ts \in query.start .. query.end
  /\ \/ s > query.cursor.series
     \/ s = query.cursor.series /\ ts > query.cursor.ts

ExpectedPoint(s, ts) ==
  LET at == {v \in Written(s) : v.ts = ts}
  IN [series |-> s, ts |-> ts,
      fields |-> [f \in {v.field : v \in at} |->
                    LET v == Newest({x \in at : x.field = f}) IN <<v.src, v.at>>]]

Expected ==
  FlattenSeq([s \in 1 .. NumSeries |->
    LET times == Ascending({v.ts : v \in {x \in Written(s) : Asked(s, x.ts)}}, <)
    IN [i \in 1 .. Len(times) |-> ExpectedPoint(s, times[i])]])

\* A frame that no reader can take for the end of the log is in reach.
Malformed ==
  \E g \in 1 .. Len(shard.log) : \E i \in 1 .. Len(shard.log[g]) :
    /\ shard.log[g][i].kind = "bad"
    /\ \A j \in 1 .. i-1 : shard.log[g][j].kind \in {"write", "delete"}

\* The extraction gives every (series, timestamp) asked for once, in key and
\* time order, each field with the value written last, whatever the files'
\* overlaps, the windows and the cursor: serial, split and resumed extraction
\* agree (Shard, ShardResume and the invariant at the head of split.go).
OutputExact ==
  /\ phase \in {"merge", "done"} => IsPrefix(emitted, Expected)
  /\ phase = "done" => emitted = Expected /\ ~ Malformed
=============================================================================
