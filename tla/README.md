# tsm2arc: a verification project

tsm2arc migrates InfluxDB data (1.x and 2.x shards of TSM and WAL files, 3.x object stores of Parquet
files and a write-ahead log) into Arc, over Arc's line-protocol import endpoint. A migration may take
days, is interrupted and resumed, and must lose nothing, repeat next to nothing and mix up no two values.
This directory holds TLA+ models of the parts of the program that carry that promise, the TLC runs that
check them on small instances, and TLAPS proofs about seven of them for every size.

The order below: the system and its hard parts, the modules and what they correspond to in the code, the
runs with their bounds, the proofs, what is left out, and the plan.

## The system

| Part | State it keeps | Operations | Hard behaviour |
|---|---|---|---|
| **Scheduler and census** `cmd/tsm2arc/run.go` load, `census.go` | job list, errgroup, cancelled context | check every name, launch shards `--workers` at a time, return the first error | a failure among running, posting and unlaunched shards; reruns with other flags |
| **Shard load** `run.go` loadShard, sender | seq, committed, semaphore, results channel, pending map, `failed`, `err` | flush callback, submit, workers, committer, wait | out-of-order answers, a failure in the middle, drain before the done mark, two resume paths |
| **Chunks** `internal/chunk` | buffer, spares, seq, last marker | Append, Flush, NewAt, Detach, Recycle | the same boundaries after a resume; buffers lent to workers without a copy |
| **Audit** loadShard's tally, `checkpoint.go` | copy-on-write tally, baseline, `measurement_actions` | bump, tallyDeltas, applyDeltas | exact counts over crashes and upgrades |
| **Sink** `internal/sink` | attempt number | Send: retries, permanent errors, timeout | an import that succeeds after its client gave up |
| **Checkpoint** `internal/checkpoint` | SQLite: progress, done marks, audit, fingerprint, schema version | Open, migrate, CheckConfig, Progress, Commit, FinishShard | crashes between statements; checkpoints of older versions |
| **Extraction** `internal/extract` extract.go, analyze.go | streams over index entries, cursor, run windows | partition files into runs, merge fields on the time axis, seek | overlapping files, last write wins, ranges touching at one timestamp |
| **Split scheduler** `internal/extract/split.go` | memory budget, slots, task handles, batches, pool | admit, merge, hand over, consume in order | goroutines waiting on each other; errors and cancellation |
| **Files and indexes** extract.go fileSet, blockStream; `run.go` indexCache; `internal/tsm` Open | open handles with reference counts, index cache and its budget | get, release, closeAll, open, OpenWithIndex | window tasks sharing one cache; files that change; errors half way |
| **Log reader** `internal/wal` | none beyond a call | ReadFile: frames of a segment | a torn tail is dropped, corruption is not |
| **Discovery** `internal/discover`, `buckets`, `main.go` | root, version, shard list | Detect, Walk, names, filters | a layout guessed from names, unreadable directories |
| **Keys and lines** `internal/series`, `lp` | none | ParseKey, AppendPoint | three escapings that must fit together |
| **3.x metadata** `internal/v3meta`, `cmd/tsm2arc/v3.go`, `v3wal.go` | live set, catalog, undecoded log files, fingerprint | fold manifests, index and deltas; replay the catalog; check the log; reconcile | a server that goes on writing, compacting, deleting and changing the catalog's layout |
| **3.x extraction** `internal/extract3` | buckets, sorted rows, cursor | bucketize, sort, last write wins, resume | overlapping chunks, file order, stale cursors |
| **Codecs and I/O** `internal/tsm` blocks, `wal3`, `pq`, `vfs`; `measure` | none beyond a call | decode, list, resolve a name | bit-level; not modelled but for `measure` and a block's order |

How they interact. `main` opens the checkpoint, compares the fingerprint of the settings and calls `load`;
`load` runs the census and then one loadShard goroutine per shard in a bounded group. loadShard pulls
points from an extraction by callback; the callback appends lines to the accumulator, whose flush callback
submits a chunk to the sender; the sender's workers call the sink, its one committer commits to the
checkpoint, in chunk order. The checkpoint is the only thing that survives a crash; the next run's
extraction starts at the cursor it holds. So the extraction's order and the accumulator's boundaries
are part of the protocol: they must come out the same in every run.

What makes each part correct is stated at its module below; every behaviour we know to be hard to test is
in `PROJECT.json` under `hazards`, at its line, with the properties that would catch it going wrong.

## The modules

```
LoadLedger  <--refines--  ShardLoad  <--proved--  ShardLoadProofs
                          ChunkAudit              (what a chunk is, what the audit counts)
                                     <--proved--  AuditProofs
                          ChunkBuffers            (the memory a chunk travels in)
                                     <--proved--  BufferProofs
                          LoadRun                 (many shards, many runs, census)
                                     <--proved--  LoadRunProofs
SerialExtraction <--refines--  SplitExtraction    (who delivers the points)
                                     <--proved--  SplitProofs
                          SeriesMerge             (which points there are, 1.x/2.x, with the log)
                                     <--proved--  StreamProofs (through SeriesPoints)
                          FileHandles             (which files are open meanwhile)
                                     <--proved--  StreamProofs
V3Source                                          (3.x: which files)
                                     <--proved--  V3SourceProofs
V3Extraction                                      (3.x: which points)
                                     <--proved--  V3ExtractionProofs
MCReaders: Discovery, StoreTables,                (which shards, which tables)
           Catalog, LineFormat                    (what the names in them mean)
                                     <--proved--  V3SourceProofs (Catalog)
```

The modules meet at narrow places, each stated in a property of the one side and assumed by the other:
loadShard's chunks are a fixed sequence (checked and proved as ChunkAudit's `ChunksReproduced`, taken by ShardLoad's
`N`); the extraction is one fixed sequence of points (checked and proved as SeriesMerge's `OutputExact`, V3Extraction's
`OutputExact` and SplitExtraction's `ImplementsSerial`; taken by ChunkAudit's `points`); chunks are
committed in order, at any moment or never (checked and proved in ShardLoad; taken by ChunkAudit's
`Commit` and `Abort` and by LoadRun's shards); the bytes of a chunk are what the sink posts, whenever it
reads them (checked and proved as ChunkBuffers' `BodiesIntact`; taken by ShardLoad, where a chunk is a number); the
columns and the series key of a 3.x table are those of its catalog (checked and proved as Catalog's `CatalogExact`;
V3Source has one column count in its place, StoreTables and V3Extraction take the key as given); a file that
is open is the one its index describes (checked and proved as FileHandles' `CacheSound`; taken by SeriesMerge's streams).

Of the `TypeOK`s, ShardLoad's is checked by a run and proved; those of the other modules with proofs are
proved (FileHandles' stands in its proof module). `StreamProofs` holds the proofs of the two modules about the
streams of a shard, first FileHandles and then SeriesMerge; neither uses the other's results, and SeriesPoints
gives SeriesMerge names that can stand beside FileHandles', and beside V3Extraction's in `MCExtraction`, which checks both
extractions in one run, one of them per behaviour.

### ShardLoad and LoadLedger: the load of one shard

`ShardLoad` has one action per step of the goroutines of loadShard. A chunk of data and the sequence number
under which a run submits it are kept apart (`pos` and `seq`), because a resume derives them from different
columns of the checkpoint row; `DataOf` relates them.

| Actions | Code |
|---|---|
| Start, StartEnds | IsShardDone, Progress, the seek and the legacy resume (run.go:304-340) |
| SkipChunk, SubmitCheck, TakeToken, HandOff, SubmitCancelled | flush callback and sender.submit (run.go:392-419, 623-646) |
| InlineSubmit, InlineCommit, InlineFails | submit without `--pipeline` |
| Attempt, SendCancelled, Persist, Accept, Reject, AttemptFails, LatePersist | Sink.Send and Arc's answers (sink.go:135-231) |
| Receive, CommitNext, FailNext, DiscardNext | the committer goroutine (run.go:581-619) |
| Wait, Unwind, Finish, FinishFails | drain barrier, deferred wait, FinishShard (run.go:363, 462-488) |
| Cancel, Crash | the errgroup's context; the process dies with requests on the wire |

Arc is the environment: it persists a request before it answers 200, an answer may be lost, and a request
whose client timed out may be persisted later, even several times (`late`). Nothing is assumed that would
stop Arc from holding a chunk twice; the properties bound how and when.

Properties: `CommittedInArc` (what a resume never reads again is in Arc), `DoneIsComplete`,
`OvershootBounded` (duplicates are confined to a window of `--inflight` + 1 chunks past the committed one),
`OnceUnlessDisturbed` (no duplicate without a failure), `SenderAtRest`, `CommitsInOrder`,
`NeverResendsCommitted`, `RunEnds`, and `ImplementsLedger`: the whole machine is a refinement of
`LoadLedger`, the three-variable promise (chunks stored, prefix acknowledged, done) that an operator cares
about.

### ChunkAudit: chunks and the audit of measurement names

Points with a measurement (kept, renamed, skipped) and a line size become chunks; a chunk carries its
cursor and a reference to the running tally map, so that the copy-on-write of `bump` is modelled and not
assumed. The checkpoint is new, or one that an earlier version left behind, at any point of its life, and
`migrate`'s statements are separate steps with a crash possible between any two. Lines are sizes;
`ChunkLines`, the reference for where a chunk ends, is defined from the shard alone.

Properties: `ChunksReproduced` (a resumed run submits under a number exactly the lines an undisturbed one
would, with the cursor of the last of them, and a done shard has as many chunks as that), `AuditExact`,
`CountedOnce`, `DoneIsFinal`. `CountedOnce` excepts one checkpoint of an earlier version, the "chunkless" one:
`migrate` looks up the shards whose counts it must drop by their progress rows (checkpoint.go:138-146), and a
shard whose points are all skipped has none. Its counts stay and are counted again, against migrate's comment;
`OrphansRebuilt` states that comment, and the run `audit_upgrade` shows it violated.

### ChunkBuffers: the memory of a chunk

The pipelined load hands a chunk's bytes to a worker without copying them. A slice is a buffer and a length,
and append overwrites what lies behind the length, as in Go; a line is its position in the stream.

| Actions | Code |
|---|---|
| AppendLine, BeginFlush, Swap | Append and doFlush (chunk.go), with SpareCapacity |
| Reclaim, ReclaimedAll | the callback's reclaim loop, Recycle, Detach (run.go:399-414) |
| SubmitCheck, TakeToken, HandOff, SubmitCancelled, InlinePost | submit, or the post in the callback |
| BuildRequest, PostReturns | a worker in Send: it reads the chunk when it gets to it |
| PutBack, ReleaseToken | the committer: buffer back, then token, then the next seq |
| StopExtracting, Drained, Cancel | ends and errors |

Properties: `BodiesIntact` (what the sink reads is that chunk, line for line, whenever it reads it) and
`BuffersBounded` (`--inflight` + 2 buffers, however long the shard, those waiting for reuse included). Where
a chunk is cut is any choice, since ChunkAudit computes it.

### LoadRun: shards, runs, names

The scheduler over loadShard, and what comes before it: main's fingerprint check, the census under the fail
policy, `errgroup` with its limit, first error and cancellation. A shard is a sequence of parts (the data
of one name in a block or log entry); one chunk is one part. A name resolves by explicit map, then
validity, then policy, as `Resolve` does. The process dies at any moment; main installs no signal handler,
so an interrupt is a crash.

Properties: `BadNamesStopEverything` (census and extraction agree about what will be emitted, so under the
fail policy nothing is sent while a bad name lies ahead, and no shard fails on a name later),
`OutcomeHonest`, `RunReturns`. The source does not change while a run reads it; extraction's own branch for
an invalid name is part of `ShardFails`, and what the census guarantees is that it is never taken.

### SeriesMerge, SplitExtraction, SerialExtraction: 1.x and 2.x extraction

`SeriesMerge` models which points an extraction gives: per-field streams over a file's blocks (sorted or
not, overlapping or not), the log after all files, `partitionRuns`, the optional windows of a run
(`splitWindows`), the k-way merge, and the seek. The log is read first, segment by segment and frame by
frame: a frame that is cut short ends its segment and no other, one that is whole but does not parse fails
the extraction, deletes are passed over. Its reference is `Expected`: every (series, time) asked
for, once, with each field's value written last. The heap is modelled by what it does: the least time
first, equal times in the order of the streams. Its constants and what is assumed of them are in
`SeriesParams`; it sorts with `Sorting`, as V3Extraction does; `SeriesPoints` is an instance of it under other
names (`MergeExact` is its `OutputExact`), so that the proofs about it can stand beside those about FileHandles.

`SplitExtraction` models who delivers them: the scheduler with memory budget and worker slots, the workers
filling batches, the channels, the pool, and the consumer that drains the task handles in list order.
Points are numbered in serial order, and a row stands for one unit of a batch's arena. It refines
`SerialExtraction`: the callback sees 1, 2, 3, ... and an answer without an error means all of them. Other
properties: `BudgetExact`, `FirstErrorIsFirst` (never the cancellation it caused), `OneOwner` (a batch is
in one pair of hands, since rows alias its arena), `NothingLeftBehind`, `ExtractionReturns`.

### FileHandles: open files and the index cache

Under SeriesMerge's streams: which file each has open. The scans of indexShard and buildTasks, fileSet with
its reference counts, the lazy loads of a blockStream, its release on the last value or on an error, and
indexCache.open with its lock and its parse outside the lock, by several window tasks at once. A file may
change at any moment; any open or read may fail. The code allows a run to have any streams; the instances
are given as units (what is merged together).

Properties: `HeldWhileNeeded` (open from the first read to the end of the last stream and no longer, never
twice within a unit, no descriptor left to nobody) and `CacheSound` (the running total is what the cache
holds, within the budget, and an index from it is used on that version of the file only).

### V3Source and V3Extraction: 3.x

`V3Source` puts setupV3FS next to a server (external) that writes, snapshots, rewrites the table index, merges
deltas, deletes objects, cleans its log and may carry a compactor, before a run, between two runs and during
the reads of one. The catalog is a count of columns here; `Catalog` is its detail. One table; write w is the
content of log file w and snapshot s produces Parquet file s; the catalog may lag behind its log files. Each
listing with its reads is one step. Properties: `NothingMissed`, `NothingResurrected`, `CatalogCoversData`,
`RefusedForCause` (an untouched store is never refused because the live set was computed wrongly), `SameInput`
(a resume that is accepted has the input it began with).

Assumptions about the server: it removes log files oldest first, and a manifest that removes files comes
with its delta (`Prompt`). The second is needed: `BuildLiveSet` applies all manifests and then all deltas,
so a delta of an older snapshot that is written while that of a newer, removing one is not would bring a
file back.

`V3Extraction` models extract3.Extract for one table: files in any order, grouped by chunk time, the
fall-back to one global bucket when chunks overlap, the order-preserving key encoding (NULL, zero bytes,
prefixes), last write wins by file order and log rank, range, cursor. `Expected` is defined from the
written rows alone. Properties: `OutputExact`, `StaleCursorFails`.

### Catalog, StoreTables, Discovery and LineFormat: the readers

These four share nothing but that they read what InfluxDB left; `MCReaders` checks them in one run, one of
them per behaviour.

`Catalog` models LoadCatalog in its three layouts (v1 and v2 in JSON, v3 binary): the newest checkpoint, the
logs above its sequence number, and the fall-back from an unreadable v3 tree to the stale v2 one. The server
(external) goes on creating, adding, deleting, writing checkpoints, removing logs and migrating while they
are read. Batch n is the content of log file n, and `states[n]` what the server had after it.
`CatalogExact`: whichever layout is read and however far the checkpoint lags, a table that is known has
exactly its columns and its tags in order of appearance as of the last batch read; none is missing if the
checkpoint was read; and only damage or a removed file is a reason to fail or to be stale. Renaming is an
operation that the tool does not know and reports (`unknown`). `V3Catalog` gives the catalog a name of its own (the
instance `Cat`), under which `MCReaders` checks it beside the other readers and `V3SourceProofs` proves it.

`StoreTables` models the beginning and the end of setupV3: v3NodePrefix (and v3NodeOnS3, which differs for a
node at the root of a bucket) tells node, cluster and Pacha prefixes by the directories in them; the catalog
is the node's or else the cluster's; v3Names puts the flags on top; every table with files, or with rows in the
log alone, must resolve, and those asked for become shards. What is read in between is in V3Source.
`TablesRouted`: exactly the tables that hold data and are asked for are loaded, each under the name and with
the series key it was given or has, from the store's only node; and a store is refused only for several nodes,
none, an unreadable catalog or a name that nobody gave. It excepts the stores whose directories deceive
(`Deceptive`) and, for an Enterprise node named by the operator, the catalog that is out of sight then; both
are under "Seen on the way".

`Discovery` models Detect and Walk on a directory tree, with main's steps around them. A directory may be
unreadable at any level, a database may be named like a bucket ID, a retention policy by a number.
`NothingOverlooked` (a file with data that was asked for and can be read is found, under its name, and the
run does not pass by a database it cannot read) and `FailsForCause` (nor does it stop for one that it need
not read).

`LineFormat` models a point's text, on characters: InfluxDB's stored key (external), ParseKey, AppendPoint,
and the importer (external). `LineReadsBack`: what was stored is what the importer reads, for names with
commas, blanks, equal signs, quotes and backslashes, except where a name holds a backslash right before
one of the first three, which line protocol itself cannot tell from an escape (`Unambiguous`).

## The runs

| Run | Instance | What it shows |
|---|---|---|
| `shard_load` | ShardLoad, N = 3 chunks, `--inflight` 1 or 2, 1 retry, 2 runs; inline and pipelined | type correctness, eight safety properties, the refinement and `RunEnds` |
| `audit` | ChunkAudit, every shard of up to 4 points, line sizes 1 and 3, `--chunk-bytes` 2 and 3, 3 runs, checkpoints new, or of an earlier version: interrupted, orphaned, chunkless or finished | chunks reproduced, audit exact (new) or never double (all but chunkless) |
| `split` | SplitExtraction, 2 workers, 3 tasks, budget 3, batches of 2 rows | serial output, budget, ownership, termination |
| `buffers` | ChunkBuffers, 5 chunks of up to 2 lines, `--inflight` 1 or 2; inline, pipelined, and after a legacy resume | bodies intact, buffers bounded |
| `extraction` | SeriesMerge, 2 or 3 series (one in the log alone), 2 fields, times 0..3, up to 3 files, logs of up to 2 segments with torn and bad frames, up to 3 windows, 7 queries; V3Extraction, times -2..1, up to 3 files, log rows, every cursor of the source and some of none | output exact, and so in order and without repeats; stale cursors refused |
| `handles` | FileHandles, 3 files of 2 versions, budget 6 of 11, 1 or 2 tasks at a time, units of 1 to 3 streams | handles held as long as needed, cache sound |
| `v3_source` | V3Source, 2 writes, 2 snapshots, 2 columns, 2 runs, 2 server steps during a run | live set, log, catalog and fingerprint |
| `load_run` | LoadRun, 3 shards, 2 workers, 2 runs, all policies | census, outcome, termination |
| `readers` | Catalog: 2 tables, 3 columns, 4 batches, 1 server step during the reads. Discovery: two databases of every shape in 1.x and 2.x, a 3.x store, every place `--datadir` may point to. StoreTables: every layout of two prefixes and a cluster, 5 kinds of catalog, every set of 3 tables in files and log, flags and filters. LineFormat: names of up to 3 of 6 characters, two varying at a time | catalog exact, nothing overlooked, failures for a cause, tables under their names, lines read back |
| `audit_upgrade` | ChunkAudit as above, up to 2 points, checkpoints of an earlier version only | **violated**: the counts of a shard without a chunk survive the upgrade and are counted again |
| `load_run_log` | LoadRun as above | **violated**: a rerun with `--waldir` adds nothing to finished shards |
| `lines_split` | LineFormat as above | **violated**: a separator with a backslash before it does not split |

The three violated runs each check one sentence of a document or a comment against what the code does;
`PROJECT.json` quotes the sentence under `findings`.

**Why the bounds are enough.** *shard_load*: three chunks and a window of two hold a failing chunk, a later
one accepted before it, and one waiting for its token, in one run; the second run then finds every checkpoint
such a run can leave, those of older versions included (`Init`). A retry makes the difference between an
answer lost once and given up. A third run would start from the same kinds of row; that any number of runs is
safe is proved. *audit*: four points give up to four chunks, and fewer with skipped points before, between and
after them; a size of 3 with a bound of 2 is a line longer than a chunk. *buffers*: a buffer is used again at
the earliest for the chunk after the window is full, so five chunks with a window of two let each buffer go
round; two lines tell a half overwritten chunk from a whole one. *split*: two batches fill a task's channel,
and a task of 7 rows has four; the estimates cover "all fit", "two fit", "one larger than the budget".
*extraction*: three files are the least for a chain of overlaps with a gap; each block shape (sharing a time,
overlapping, unsorted, last timestamp) occurs. *handles*: one file does not fit the cache until it changes,
two fit, all three do not; two streams on one file end in either order; two windows open the same files at
once. *readers*: four batches make a database, a table, and two changes of it around a checkpoint; two
characters are the least for an escape next to a special character, the third for one behind it. *v3_source*:
two snapshots are the least with a file superseded, two server steps the least for a snapshot and its clean-up
between two reads. *extraction*, 3.x: keys hold NULL, the empty string, a zero byte and a prefix in two columns,
in all pairs; two files come in three orders, with log rows in the one opposite to the list's. *load_run*: three
shards on two workers hold one failing, one in flight and one not launched.

**Fairness.** The goroutines of a live process are weakly fair: the Go scheduler runs what can run. An
attempt ends, by an answer or by `http.Client.Timeout`, so `Answer` (and LoadRun's ShardStep) is fair too.
Nothing is assumed about which arm of a select is taken, about an operator running the command again, about
Arc persisting a late request, or about anything failing. With that, `RunEnds`, `ExtractionReturns` and
`RunReturns` hold. The other modules are checked for safety only.
Deadlock is not checked in the runs: all of these systems stop, a bounded number of runs after they began;
that they do not stop too early is what the liveness properties say.

**Mutants.** For each property there is a slip of the code that breaks it (an operator whose comment starts
with "Slip"), listed under `mutants`; none of these operators is used by a specification.

## What is proved

Each proof module states an inductive invariant `IInv`, a conjunction of named parts, proves that the initial
states satisfy it and that every step keeps it (a lemma per conjunct, in it a step per action), and derives
the properties from it. Each `IInv` was checked by TLC on a small instance before it was proved. TLC
and the proofs use the same modules and the same definitions. The only assumptions are those on the constants,
named in the modules: they give the constants their types and say what any input of the program satisfies
(ends of tasks ascend, a table of 3.x has one name, no two columns of a table share a name, ...); no size is bounded.

| Module | Theorems | Property |
|---|---|---|
| `ShardLoadProofs` | TypeCorrect, CommittedIsDurable, DoneMeansAll, SenderJoined | `TypeOK`, `CommittedInArc`, `DoneIsComplete`, `SenderAtRest` |
| | InOrder, NoResend | the action properties `CommitsInOrder`, `NeverResendsCommitted` |
| | Overshoot, NoDuplicates | `OvershootBounded`, `OnceUnlessDisturbed` |
| | LoadImplementsLedger | `ImplementsLedger` |
| `AuditProofs` | AuditTypeCorrect, Reproduced, AuditIsExact | `TypeOK`, `ChunksReproduced`, `AuditExact` |
| | NeverCountedTwice | `CountedOnce` (which excepts the chunkless checkpoint, see `audit_upgrade`) |
| | DoneStaysAsItIs | the action property `DoneIsFinal` |
| `SplitProofs` | SplitTypeCorrect, BudgetCounted, FirstError, BatchOwned, NothingLeft | `TypeOK`, `BudgetExact`, `FirstErrorIsFirst`, `OneOwner`, `NothingLeftBehind` |
| | SplitImplementsSerial | `ImplementsSerial` |
| `BufferProofs` | BuffersTypeCorrect, ChunksArriveIntact, MemoryBounded | `TypeOK`, `BodiesIntact`, `BuffersBounded` |
| `LoadRunProofs` | LoadTypeCorrect, CensusGuards, OperatorTold | `TypeOK`, `BadNamesStopEverything`, `OutcomeHonest` |
| `StreamProofs` | HandlesTypeCorrect, FilesHeld, CacheIsSound | `TypeOK`, `HeldWhileNeeded`, `CacheSound` |
| | PointsExact | `OutputExact` of SeriesMerge, as SeriesPoints' `MergeExact` |
| `V3SourceProofs` | V3TypeCorrect, NothingIsMissed, NothingIsResurrected, CatalogCovers, RefusalHasCause, InputIsSame | `TypeOK`, `NothingMissed`, `NothingResurrected`, `CatalogCoversData`, `RefusedForCause`, `SameInput` |
| | CatalogIsExact | `CatalogExact` of Catalog |
| `V3ExtractionProofs` | TypeCorrect, ExactlyOnceInOrder, StaleCursorEmitsNothing | `TypeOK`, `OutputExact`, `StaleCursorFails` |
| | SeriesKeyOrder: the encoded series keys compare as the tag values do | |

### The arguments

*ShardLoad.* That a committed chunk is in Arc hangs on the committer retiring heads in order, that on the
pending map holding exactly what was submitted, and that on both resumes giving chunks the right numbers.
`IInv`: `AtRest` (no job without a loadShard or past the drain), `Aligned` (the cursor ends the committed chunk, so
data and numbers agree in every run), `Submitting` and `Window` (the jobs alive are exactly those between
`next` and `seq`), `Progress` (`next = ckSeq + 1` until a failure, and how many tokens are out), `Reach` (`seq`
and everything in Arc are within `--inflight` + 1 of the committed seq), `Stored`, `Finished`. Two properties
need a second invariant on top: `Calm` (without a disturbance Arc holds no more than what is committed or
on its way) for `NoDuplicates`, and `FirstReach` (the first run gets no further than its own `--inflight`
allows, later ones inherit the largest) for `Overshoot`.

*ChunkAudit.* `Cut` is a recursive function over the points; the lemmas before the invariant say, by
induction, what it does: a point joins the open chunk or opens the next one (`CutStep`), chunk numbers ascend
and a full chunk takes no more (`CutOrder`), no chunk is empty (`CutFilled`), and so each has a last line
(`ChunkEnd`). `Aligned` then says where the accumulator is in that partition: its lines are those of its chunk
among the points read, its bytes those that `Cut` has, and what is to come belongs to it or to later
chunks; a resume re-establishes it because the cursor is a chunk's last line (`Committed`). `Pipeline`: what is
submitted follows the committed chunk without a gap, each chunk with its lines, cursor and difference of counts.
`Tallies`: the running tally, the marker's and the baseline differ by the points between the places they stand
for; it holds because a map that a marker or the baseline refers to is never counted on (`Unshared`, the
copy-on-write). `AuditKept` adds it up: the audit counts the points up to the committed chunk's end, or fewer
where an earlier version stored none. `Settings` and `Fresh`: a run loads under the recorded settings, and where
none are recorded nothing is committed.

*SplitExtraction.* Everything is placed by two counters derived from the state, `Taken` (the last task the consumer
took) and `Settled` (the last one whose result it has). `InListOrder`: the ordered channel holds the
tasks between consumer and scheduler. `Goroutines` and `AtRest`: which workers exist, and that none does after
the return. `Slots` and `BudgetKept`: semaphore and budget count the tasks between the last retired and the last
admitted one. `Owners`: a batch is in one place. `Chain`: a task's batches continue one another, from the last
point delivered to the last one merged, as long as no error has been seen. `Delivery`: what the callback has seen
is the serial prefix, and after an error exactly the serial run's up to there. The refinement maps
SerialExtraction's position to the length of what was delivered.

*ChunkBuffers.* `Control` and `Window` place the chunks out with the sender between two counters, with as many
tokens; `Counted`: all buffers ever made are somewhere, and a new one is made only when all others are
with the sender; `Apart`: a buffer is in one place; `Contents`: the current buffer and each chunk not yet read
hold their own lines. From `Apart` an append writes into nobody else's lines, from `Counted` the bound.

*LoadRun.* `CensusSound`: the names found are those of the shards read, so passing it makes `Clean` true:
no shard that is not done has a bad name, whatever is launched later, and by the next run with the same
fingerprint. `Group` and `Started`: the first error is an error of its own and not a cancellation. `Fingerprinted`
and `Delivered`: what is sent depends on the recorded flags only, so that what one run began another
finishes.

*FileHandles.* `Roles`: who may be opening what; `RefsCounted`: the reference count is the number of streams
that have not released the file; `HeldOpen`: a file is open exactly while it is begun and needed;
`FdsCounted`: the descriptors are those of the open files and of the parses under way; `CacheSound`: the
running total is the sum over the cache. That the total may be kept by addition and subtraction is a lemma about
sums (`SumChange`).

*V3Source.* The store first: `LogSound` (a log file goes only once a snapshot covers it), `MetadataSound` (a file is
live unless the index has forgotten it or a manifest removed it), `DeltasSound` (the delta of a removing
snapshot is there before, and outlives, those of the files it removes). Then what a run knows at each of its
stages, while the server goes on: `FilesKnown`, `LogKnown`, `CatalogKnown`, `Undisturbed`, `CheckpointSound`.
`LiveSet` gives BuildLiveSet's two recursive passes in closed form, by induction over the snapshots: a file is in it
if it was in the index or was added, and nothing applied removes it. `Tiling` shows that the snapshots' files hold
the writes up to their marks, each once, which ties files to the log; `FingerprintTells` that the three numbers of
the fingerprint determine the input.

*Catalog* (the last part of V3SourceProofs, through V3Catalog's instance `Cat`). What the tags and the key
of a table are: `TagsAre` (each tag once, in order), `TagsOfMore` and `KeyOfMore` (columns added behind
others add their tags behind the key, because no two columns share a name), `ParsedAgrees` (the ids in a stored key,
column ids in v1 and tag ids in v2, name those tags). What one batch does: `BatchFollows` says that applied to what
was read up to it, it makes of that what the server made of its catalog, and `CompleteApplies` that it is never refused
when nothing is missing; `ReplayedIs` is both, by induction, for a binary checkpoint. Then the invariant `CatInv`.
`TreesSound`: the log files of a layout have no gap and reach back to its checkpoint, those of the layout in use
reach to the last batch. `LoadSound`: what was read agrees with the server's catalog at batch `seq`
(`AtBatch`); the log files above it are all there (`Following`), and once listed all still to come
(`Replaying`); the batch the catalog was looked for at is within reach (`Chosen`). A gap can follow only a checkpoint
that was not read, and then no table has been: the invariant has "whole or some table" where "whole" alone is not
inductive, as the v2 checkpoint may be read after an unreadable v3 one.

*V3Extraction.* Four layers. Keys: `SeriesKeyOrder` says that the bytes of `orderKey`, escapes, terminators and hex
digits included, compare as the tag values do, column by column and NULLs first, and that different series have
different keys; `PrefixFacts` says the same of the biased chunk time. Sorting: `ListsByRank` shows that
`Ascending` gives each element of a finite set once, in order, for any strict total order, and `RowsOrdered`,
`PlacesOrdered` and the like show that the program's four orders are such. Plan: each bucket has exactly the
writes that come under its chunk (`Homes`), whether the chunks are disjoint or everything is one bucket; the plan
looks at neighbours only, which suffices because the chunks ascend (`Disjoint` is `~Overlap`); the row of a
place with the highest rank is the newest write to it (`NewestRow`), since ranks order rows as files and log do
(`RankOrder`). The loop: `IInv` says that the buckets and rows left are a suffix of the plan and of the sorted rows of
the bucket at hand, so that the places to come (`Todo`, `TodoAt`) are known, and that what was emitted is
`Expected` up to there (`Delivers`); `seen` holds exactly if the cursor's place is no longer to come. A step takes
the first of the places to come, which stands behind all others (`PlaceInTurn`), or passes one over that is not
asked for. That nothing is emitted for a cursor which is no place of the source falls out: `seen` is then
never set, and the first row behind the cursor fails.

*SeriesMerge* (the second part of StreamProofs, through SeriesPoints' instance `SM`). The thread is one function:
`Points(s, H)`, the points that a set `H` of values of series `s` makes, in time order, the newest value of each field.
It may be cut: if all of `A` is before all of `B`, then `Points(s, A \cup B)` is `Points(s, A)` followed by
`Points(s, B)` (`PointsJoin`). What remains is to show that the program only ever cuts between times.
Streams: `StreamFacts`, a stream holds the values of its key in its window, in order, each once, whether its blocks
ascend (the pruned ones, each sorted) or overlap (all of them, sorted); `SliceFacts` the same of the log. Plan:
`RunsFacts`, the runs of partitionRuns share no timestamp and each has its files by index, because a run begins only behind
the end of everything before it; `SplitWindowsFacts`, the windows of a run tile it, wherever its split points
lie, and `RunTasksFacts`, clipping and dropping the empty ones loses nothing that was asked for (`SerialFacts`
and `SplitFacts` for the two paths, `UnitsOfFacts` for the cursor and its last timestamp). Each list of units is a
`Cut` of the series' values, so `PlannedPoints`: the points of the whole plan are `Expected`. The log:
`LogOf`, what its segments hold, is what is read of it so far followed by what is left (`Indexing`). The merge:
`EmitFacts`, one round takes exactly the values of the least time left, and of each field the one in the last
stream, which has the highest source (`IsUnit`). The invariant `MergeInv` has on top: what was merged, the points left in
the unit at hand (`Left`) and those of the units behind it are `Expected` (`Emitting`). Serial, split and
resumed extraction agree because each is equal to `Expected`.

### How data is proved about

The library's induction theorems take a predicate as a parameter, which the provers cannot instantiate.
`SetInduction`, which stands at the head of the modules that need it, is a form over a set instead ("contains 0 and
each successor"), from the fact that a non-empty set of naturals has a least element (`LeastElement`). Sums over a
set are the cardinality of a set of pairs (`SumOver`), which the library's theorems on finite sets reach;
sorting is by rank, the number of smaller elements (`Ascending`), for the same reason. A recursive function of a module is then shown to exist (`CutsExist`,
`AppliesExists`, `TaggingExists`, `ReplayExists`, `IterationExists`), which makes its recursion equation a fact, and its properties follow by induction.

### Only model-checked

- The liveness properties `RunEnds`, `ExtractionReturns` and `RunReturns`: liveness under fairness and
  ENABLED are out of the prover's reach.
- Of the readers `NothingOverlooked`, `FailsForCause`, `TablesRouted` and `LineReadsBack`: LineFormat
  works on characters, Discovery and StoreTables decide in one step over small sets, where TLC's enumeration
  of every shape says more than a proof.

## What is not modelled, and why

- **Codecs** (`internal/tsm` index and blocks, `wal` frame bytes, `wal3` with its Rust decoder, `pq`, the
  bytes of the catalog formats): pure functions on 64-bit words and text. SeriesMerge takes decoded blocks in
  stored order, which need not be sorted, and frames by what the reader makes of them.
- **The bolt file of 2.x, the file systems (local, S3)**: thin wrappers without later state. Discovery and
  StoreTables have the names they give.
- **Parsing of 3.x manifests, table indexes and name flags**: text to records. V3Source has one table of the
  node that StoreTables finds.
- **Map files and valid names** (`measure`): which names are valid and what they become are constants.
- **Dry run, --analyze, progress display, flag parsing**: change nothing that is loaded.
- **Durations**: backoff, Retry-After and timeouts are steps without a length.
- **The growth of a buffer**: moves its only owner to new memory.

Abstractions to bear in mind: a row with no field set is left out of V3Extraction, as the code drops it;
the path as last tie-breaker of two files is left out, ids being distinct; a cursor that is not one of the
3.x format fails like one whose bucket is gone; the time stamp and number formatting of a line have nothing to
escape and are left out; LoadRun merges the checkpoint reads of a shard with its
launch; the CREATE TABLE statements of Open are one step with it, being idempotent.

## Seen on the way

Divergences met while reading that have no run of their own:

- The 3.x census judges every live table by its name alone, also outside `[--start, --end]` and when it is
  done, while the scope rules say that data outside the window "must not abort here either"
  (census.go:29-36).
- The fingerprint is stored before the census runs (main.go:459-460, run.go:228), so the remedies the census
  prints, a map, skip or map policy, are refused with the same checkpoint; it needs a fresh path although
  nothing was sent.
- `--inflight` is documented as the bound on uncommitted chunks (run.go:528-529, checkpoint.go:18-19); one
  more can be accepted, because submit's error check is stale when its token arrives. `OvershootBounded`
  states and proves the bound that holds.
- "A done shard always has its complete audit trail" (checkpoint.go:303-304) does not hold for a load that an
  earlier version began: the counts of the chunks it committed are not made up for. `AuditExact` excepts it.
- A crash between the two ALTERs of `migrate` is followed by an open that finds the first column, skips the
  second and stamps version 2 (checkpoint.go:126-138).
- The runbook gives `workers × (inflight+1) × chunk-bytes` for the buffers (docs/RUNBOOK.md:400-404);
  `--inflight` + 2 are allocated per shard, which is what `BuffersBounded` states.
- "One or two handles" per shard (README.md:212-215) is false of a series with log data, for which all its
  files are one run; and `workers × files per shard` is exceeded under `--shard-split`.
- A file past the cache's budget is parsed again at every open and so gets no check for changes, which the
  others get.
- A frame that is too long or does not decompress drops the rest of its segment silently, in the middle of
  it too; the comments speak of a torn tail (wal.go:86-116). `Expected` follows the code.
- `globSorted` returns nothing for a directory it cannot read (discover.go:346-362), so an unreadable shard or
  log directory is passed over; permission_test.go (about line 82) calls the same outcome on the levels above
  "silent data loss". `NothingOverlooked` excepts these two levels.
- A retention policy named by a number makes detection stop one level too high; two databases named like 3.x
  directories make it see a 3.x store; an unreadable 2.x bucket stops a run that filters it out.
- Any error in reading a JSON catalog checkpoint counts as there being none (catalog.go:208); a gap in the
  log's sequence numbers is not noticed; `Deleted` of a table or database is recorded and never read by v3.go.
- A dry run drops the error of its extraction (run.go:48).
- The index cache's comment says "last one wins the cache slot" (run.go:772); the first one keeps it
  (run.go:781).
- The census calls the resolver "not guaranteed safe for concurrent first-touch of a name" (census.go:130);
  `Resolve` is a pure function (measure.go:167).
- An empty 3.x table with a cursor succeeds (extract3.go:98), before the cursor is looked at, whereas the
  comment says that a cursor that no longer matches fails (extract3.go:94-95). `StaleCursorFails` excepts it.
- The series key of a 3.x table, from the catalog or from `--v3-table`, orders its points and is not in the
  fingerprint (v3.go:501-528).
- `--datadir` at an Enterprise node itself loses the cluster next to it (v3.go:362-367), so the run is refused
  for want of a catalog, which the runbook says is found "automatically" (docs/RUNBOOK.md:144-145); at a Pacha
  node it says "no node prefix" instead of explaining Pacha.
- A prefix with one marker is no node (v3.go:381): a second node that has only a log yet, or runs Pacha, is
  passed over, although "Multi-node (Enterprise cluster) stores are refused" (v3.go:346). A cluster prefix with
  the catalogs of both 3.3 and 3.4 counts as a node, and one with `cv2` not as a cluster, so that its retained
  Parquet, which the message recommends (v3.go:400), finds no catalog.
- A table that a filter leaves out still refuses the run when it has no name (v3.go:282-291).

## The plan

Done: the load of one shard with its proofs; chunks, their buffers and audit; the scheduler and census; both
extractions, with the log reader, file handles and index cache; 3.x metadata, catalog, nodes and table names;
discovery; keys and lines.

Next, modules, in this order:

1. The parse of a TSM file's index and its bounds checks, on small integers.
2. A source log that grows between the census and the extraction, in LoadRun.
3. A second 3.x run with other name flags, in V3Extraction.
4. The sink's backoff and Retry-After as a bounded clock, if a property needs it.

Next, theorems, in this order:

1. ChunkAudit and ShardLoad together: that ChunkAudit's `Commit` and `Abort` are what ShardLoad shows of the sender
   (now argued in "The modules").
