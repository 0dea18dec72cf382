----------------------------- MODULE ChunkAudit -----------------------------
(***************************************************************************)
(* How one shard's points become chunks and audit counts, and how both     *)
(* survive restarts: the extraction loop and flush callback of loadShard   *)
(* (cmd/tsm2arc/run.go), the accumulator (internal/chunk), and the         *)
(* checkpoint's schema, configuration check and two transactions           *)
(* (internal/checkpoint), including a checkpoint that an earlier version   *)
(* wrote and migrate upgrades.                                             *)
(*                                                                         *)
(* The sender is reduced to what ShardLoad shows of it: submitted chunks   *)
(* are committed one by one in order, at any moment, and a run may end at  *)
(* any moment with the rest uncommitted.                                   *)
(***************************************************************************)
EXTENDS Integers, Sequences, FiniteSets, FiniteSetsExt

CONSTANTS Shards,      \* the shards checked: sequences of points
          Resolution,  \* measurement -> "kept", "renamed" or "skipped"
          ChunkSizes,  \* the values of --chunk-bytes an operator uses
          Origins,     \* where the checkpoint may come from, see Init
          MaxRuns      \* bound: times the command is run

Meas == DOMAIN Resolution
Acted == {m \in Meas : Resolution[m] # "kept"}

\* A point; size is the length of its encoded line.
Points == [m : Meas, size : Nat \ {0}]

ASSUME ShardsAssumption ==
  /\ Shards \subseteq Seq(Points)
  /\ \A m \in Meas : Resolution[m] \in {"kept", "renamed", "skipped"}
  /\ ChunkSizes \subseteq Nat \ {0}
  /\ Origins \subseteq {"new", "interrupted", "orphaned", "chunkless", "finished"}
  /\ MaxRuns \in Nat

NoSeq == -1   \* Progress without a row
NoCur == 0    \* a NULL cursor; a cursor is the position of a chunk's last line
Nil == 0      \* a nil tally map

VARIABLES
  points,     \* the shard, in its deterministic extraction order
  origin,     \* history: where the checkpoint came from
  columns,    \* cursor columns that shard_progress has: 0, 1 or 2
  version,    \* meta.schema_version, 1 while it is absent
  chunkSize,  \* meta.config_fingerprint, as the chunk size it records, or 0
  ckSeq,      \* shard_progress.committed_seq
  ckCur,      \* shard_progress.last_series/last_ts
  ckDone,     \* is there a shard_done row?
  ckTotal,    \* shard_done.total_chunks
  audit,      \* measurement_actions.points, 0 without a row
  phase,      \* where the process is, see Phases
  maxBytes,   \* the accumulator's bound in this run
  committed,  \* loadShard's local copy of the committed seq
  at,         \* the next point of the extraction
  seq,        \* Accumulator.seq
  buf,        \* Accumulator.buf, as the positions of its lines
  marker,     \* Accumulator.lastMarker: its cursor and its tally map
  maps,       \* the tally maps allocated by bump, by reference
  tally,      \* the running tally: a reference into maps, or Nil
  shared,     \* tallyShared
  baseline,   \* the tally as of the last chunk: a reference, or Nil
  outbox,     \* chunks submitted and not yet committed, oldest first
  runs        \* history: times the command was run

shard  == <<points, origin>>
schema == <<columns, version>>
ckpt   == <<ckSeq, ckCur, ckDone, ckTotal, audit>>
accum  == <<seq, buf, marker>>
locals == <<maxBytes, committed, at, seq, buf, marker, maps, tally, shared,
            baseline, outbox>>
counts == <<maps, tally, shared, baseline>>
vars == <<points, origin, columns, version, chunkSize, ckSeq, ckCur, ckDone,
          ckTotal, audit, phase, maxBytes, committed, at, seq, buf, marker,
          maps, tally, shared, baseline, outbox, runs>>

(***************************************************************************)
(* "down"; inside migrate: "alter" and "alter2" (about to add a column),   *)
(* "delete", "stamp"; "config" (about to run CheckConfig); in loadShard:   *)
(* "progress", "extract", "append" (inside Append, before the line is      *)
(* buffered), "full" (inside Append, after it), "drain".                   *)
(***************************************************************************)
Phases == {"down", "alter", "alter2", "delete", "stamp", "config", "progress",
           "extract", "append", "full", "drain"}

-----------------------------------------------------------------------------
(* What an uninterrupted run makes of a shard                              *)

Sent(p) == {i \in DOMAIN p : Resolution[p[i].m] # "skipped"}

\* The points of m among the first n.
Count(p, n, m) == Cardinality({i \in DOMAIN p : i <= n /\ p[i].m = m})

(***************************************************************************)
(* Cut(p, b)[i]: after i points, the number of the chunk being filled, its *)
(* bytes, and the chunk that the last line went into.                      *)
(***************************************************************************)
Cut(p, b) ==
  LET cut[i \in 0 .. Len(p)] ==
        IF i = 0 THEN [open |-> 0, bytes |-> 0, of |-> NoSeq]
        ELSE IF i \notin Sent(p) THEN cut[i-1]
        ELSE LET c == cut[i-1]
                 overflows == c.bytes > 0 /\ c.bytes + p[i].size > b
                 of == IF overflows THEN c.open + 1 ELSE c.open
                 bytes == IF overflows THEN p[i].size ELSE c.bytes + p[i].size
             IN  IF bytes >= b THEN [open |-> of + 1, bytes |-> 0, of |-> of]
                               ELSE [open |-> of, bytes |-> bytes, of |-> of]
  IN  cut

ChunkLines(p, b, k) == {i \in Sent(p) : Cut(p, b)[i].of = k}
NumChunks(p, b) == Cut(p, b)[Len(p)].of + 1

-----------------------------------------------------------------------------
ZeroCounts == [m \in Meas |-> 0]
FullCounts(p) == [m \in Meas |-> IF m \in Acted THEN Count(p, Len(p), m) ELSE 0]
NoMarker == [cur |-> NoCur, tally |-> Nil]

ForgetLocals ==
  /\ maxBytes' = 0
  /\ committed' = NoSeq
  /\ at' = 1
  /\ seq' = 0
  /\ buf' = {}
  /\ marker' = NoMarker
  /\ maps' = << >>
  /\ tally' = Nil
  /\ shared' = FALSE
  /\ baseline' = Nil
  /\ outbox' = << >>

(***************************************************************************)
(* The checkpoint is new, or was written by a version that had no cursor   *)
(* columns and stored a shard's action counts once, at its end, just       *)
(* before the done mark: "interrupted" within the shard, "orphaned"        *)
(* between the two (with at least one chunk, or "chunkless" when every     *)
(* point was skipped), or "finished".                                      *)
(***************************************************************************)
Init ==
  /\ points \in Shards
  /\ origin \in Origins
  /\ chunkSize \in (IF origin = "new" THEN {0} ELSE ChunkSizes)
  /\ columns = IF origin = "new" THEN 2 ELSE 0
  /\ version = 1
  /\ LET n == NumChunks(points, chunkSize) IN
     CASE origin = "new"         -> ckSeq = NoSeq
       [] origin = "interrupted" -> ckSeq \in 0 .. n-1
       [] origin = "orphaned"    -> n > 0 /\ ckSeq = n-1
       [] origin = "chunkless"   -> n = 0 /\ ckSeq = NoSeq
       [] origin = "finished"    -> ckSeq = n-1
  /\ ckCur = NoCur
  /\ ckDone = (origin = "finished")
  /\ ckTotal = IF ckDone THEN ckSeq + 1 ELSE 0
  /\ audit = IF origin \in {"new", "interrupted"} THEN ZeroCounts
             ELSE FullCounts(points)
  /\ phase = "down"
  /\ maxBytes = 0
  /\ committed = NoSeq
  /\ at = 1
  /\ seq = 0
  /\ buf = {}
  /\ marker = NoMarker
  /\ maps = << >>
  /\ tally = Nil
  /\ shared = FALSE
  /\ baseline = Nil
  /\ outbox = << >>
  /\ runs = 0

-----------------------------------------------------------------------------
(* Open: init's tables exist; migrate's statements commit one by one       *)

Open ==
  /\ phase = "down"
  /\ runs < MaxRuns
  /\ runs' = runs + 1
  /\ phase' = IF version = 2 THEN "config"
              ELSE IF columns = 0 THEN "alter" ELSE "delete"
  /\ UNCHANGED <<shard, schema, chunkSize, ckpt, locals>>

AddColumn ==
  /\ phase \in {"alter", "alter2"}
  /\ columns' = columns + 1
  /\ phase' = IF phase = "alter" THEN "alter2" ELSE "delete"
  /\ UNCHANGED <<shard, version, chunkSize, ckpt, locals, runs>>

\* Slip: the rows of a finished shard are deleted too.
OrphanedEvenIfDone == ckSeq # NoSeq

\* The DELETE's subquery: the shard has progress and is not done.
Orphaned == ckSeq # NoSeq /\ ~ ckDone

\* Slip: the rows are kept.
DeleteNothing ==
  /\ phase = "delete"
  /\ phase' = "stamp"
  /\ UNCHANGED <<shard, schema, chunkSize, ckpt, locals, runs>>

DeleteOrphans ==
  /\ phase = "delete"
  /\ audit' = IF Orphaned THEN ZeroCounts ELSE audit
  /\ phase' = "stamp"
  /\ UNCHANGED <<shard, schema, chunkSize, ckSeq, ckCur, ckDone, ckTotal, locals, runs>>

StampVersion ==
  /\ phase = "stamp"
  /\ version' = 2
  /\ phase' = "config"
  /\ UNCHANGED <<shard, columns, chunkSize, ckpt, locals, runs>>

\* Slip: the recorded settings are not compared.
SameConfigAlways(b) == TRUE

\* CheckConfig accepts: nothing is recorded yet, or the same settings are.
SameConfig(b) == chunkSize \in {0, b}

CheckConfig(b) ==
  /\ phase = "config"
  /\ IF SameConfig(b)
     THEN /\ chunkSize' = IF chunkSize = 0 THEN b ELSE chunkSize
          /\ maxBytes' = b
          /\ phase' = "progress"
     ELSE phase' = "down" /\ UNCHANGED <<chunkSize, maxBytes>>
  /\ UNCHANGED <<shard, schema, ckpt, committed, at, accum, counts, outbox, runs>>

-----------------------------------------------------------------------------
(* loadShard: where to resume                                              *)

Seekable == ckSeq >= 0 /\ ckCur # NoCur

StartSeq == IF Seekable THEN ckSeq + 1 ELSE 0

\* Extraction past the cursor; skipped points behind it are read again.
StartAt == IF Seekable THEN ckCur + 1 ELSE 1

\* The shard is done, or the row cannot be read for want of a column.
NothingToLoad == ckDone \/ columns < 2

StartShard ==
  /\ phase = "progress"
  /\ ~ NothingToLoad
  /\ committed' = ckSeq
  /\ seq' = StartSeq
  /\ at' = StartAt
  /\ phase' = "extract"
  /\ UNCHANGED <<shard, schema, chunkSize, ckpt, maxBytes, buf, marker, counts,
                 outbox, runs>>

StartEnds ==
  /\ phase = "progress"
  /\ NothingToLoad
  /\ phase' = "down"
  /\ ForgetLocals
  /\ UNCHANGED <<shard, schema, chunkSize, ckpt, runs>>

-----------------------------------------------------------------------------
(* The tally of acted-on points, copy-on-write                             *)

Tallied(r) == IF r = Nil THEN ZeroCounts ELSE maps[r]

\* Slip: a snapshot held by a marker is counted on in place.
MustCloneNever == tally = Nil

\* bump allocates when there is no map, or a marker holds the current one.
MustClone == tally = Nil \/ shared

Bump(m) ==
  IF MustClone
  THEN /\ maps' = Append(maps, [Tallied(tally) EXCEPT ![m] = @ + 1])
       /\ tally' = Len(maps) + 1
       /\ shared' = FALSE
       /\ UNCHANGED baseline
  ELSE /\ maps' = [maps EXCEPT ![tally][m] = @ + 1]
       /\ UNCHANGED <<tally, shared, baseline>>

\* tallyDeltas
Deltas(cur, base) ==
  [m \in Meas |-> IF Tallied(cur)[m] > Tallied(base)[m]
                  THEN Tallied(cur)[m] - Tallied(base)[m] ELSE 0]

Plus(f, g) == [m \in Meas |-> f[m] + g[m]]

-----------------------------------------------------------------------------
(* The point callback                                                      *)

SkipPoint ==
  /\ phase = "extract"
  /\ at <= Len(points)
  /\ Resolution[points[at].m] = "skipped"
  /\ Bump(points[at].m)
  /\ at' = at + 1
  /\ UNCHANGED <<shard, schema, chunkSize, ckpt, phase, maxBytes, committed,
                 accum, outbox, runs>>

ReadPoint ==
  /\ phase = "extract"
  /\ at <= Len(points)
  /\ \/ Resolution[points[at].m] = "renamed" /\ Bump(points[at].m)
     \/ Resolution[points[at].m] = "kept" /\ UNCHANGED counts
  /\ phase' = "append"
  /\ UNCHANGED <<shard, schema, chunkSize, ckpt, maxBytes, committed, at, accum,
                 outbox, runs>>

\* As many as there are pairs of an element and a number up to its value.
SumOver(f, S) == Cardinality(UNION {{x} \X (1 .. f[x]) : x \in S})
Bytes(S) == SumOver([i \in DOMAIN points |-> points[i].size], S)

\* The marker of the chunk's last line, the resume cursor of its commit.
ChunkCursor == marker.cur

\* doFlush and the flush callback: skip a committed chunk, or submit it.
Flush(after) ==
  /\ outbox' = IF seq <= committed THEN outbox
               ELSE Append(outbox,
                      [seq |-> seq, lines |-> buf, cur |-> ChunkCursor,
                       deltas |-> Deltas(marker.tally, baseline)])
  /\ baseline' = marker.tally
  /\ seq' = seq + 1
  /\ buf' = {}
  /\ phase' = after
  /\ UNCHANGED <<shard, schema, chunkSize, ckpt, maxBytes, committed, at, marker,
                 maps, tally, shared, runs>>

Overflows == buf # {} /\ Bytes(buf) + points[at].size > maxBytes

FlushBefore ==
  /\ phase = "append"
  /\ Overflows
  /\ Flush("append")

AppendLine ==
  /\ phase = "append"
  /\ ~ Overflows
  /\ buf' = buf \cup {at}
  /\ marker' = [cur |-> at, tally |-> tally]
  /\ shared' = TRUE
  /\ at' = at + 1
  /\ phase' = IF Bytes(buf) + points[at].size >= maxBytes THEN "full" ELSE "extract"
  /\ UNCHANGED <<shard, schema, chunkSize, ckpt, maxBytes, committed, seq, maps,
                 tally, baseline, outbox, runs>>

FlushFull == phase = "full" /\ Flush("extract")

\* The final Flush, then the drain barrier.
EndOfPoints ==
  /\ phase = "extract"
  /\ at > Len(points)
  /\ IF buf # {} THEN Flush("drain")
     ELSE /\ phase' = "drain"
          /\ UNCHANGED <<shard, schema, chunkSize, ckpt, maxBytes, committed, at,
                         accum, counts, outbox, runs>>

-----------------------------------------------------------------------------
(* The two transactions, and the end of a run                              *)

Commit ==
  /\ outbox # << >>
  /\ LET job == Head(outbox) IN
     /\ ckSeq' = IF job.seq > ckSeq THEN job.seq ELSE ckSeq
     /\ ckCur' = IF job.seq >= ckSeq THEN job.cur ELSE ckCur
     /\ audit' = Plus(audit, job.deltas)
  /\ outbox' = Tail(outbox)
  /\ UNCHANGED <<shard, schema, chunkSize, ckDone, ckTotal, phase, maxBytes,
                 committed, at, accum, counts, runs>>

\* What FinishShard adds for the points behind the last chunk.
FinalDeltas == Deltas(tally, baseline)

FinishShard ==
  /\ phase = "drain"
  /\ outbox = << >>
  /\ audit' = Plus(audit, FinalDeltas)
  /\ ckDone' = TRUE
  /\ ckTotal' = seq
  /\ phase' = "down"
  /\ ForgetLocals
  /\ UNCHANGED <<shard, schema, chunkSize, ckSeq, ckCur, runs>>

\* A crash, a failed statement of Open, or an error of the load.
Abort ==
  /\ phase # "down"
  /\ phase' = "down"
  /\ ForgetLocals
  /\ UNCHANGED <<shard, schema, chunkSize, ckpt, runs>>

Next ==
  \/ Open \/ AddColumn \/ DeleteOrphans \/ StampVersion
  \/ \E b \in ChunkSizes : CheckConfig(b)
  \/ StartShard \/ StartEnds
  \/ SkipPoint \/ ReadPoint \/ FlushBefore \/ AppendLine \/ FlushFull \/ EndOfPoints
  \/ Commit \/ FinishShard \/ Abort

Spec == Init /\ [][Next]_vars

-----------------------------------------------------------------------------
Chunks == [seq : 0 .. Len(points), lines : SUBSET DOMAIN points,
           cur : NoCur .. Len(points), deltas : [Meas -> Nat]]

TypeOK ==
  /\ points \in Shards /\ origin \in Origins
  /\ columns \in 0 .. 2
  /\ version \in {1, 2}
  /\ chunkSize \in {0} \cup ChunkSizes
  /\ ckSeq \in NoSeq .. Len(points)
  /\ ckCur \in NoCur .. Len(points)
  /\ ckDone \in BOOLEAN
  /\ ckTotal \in 0 .. Len(points)
  /\ audit \in [Meas -> Nat]
  /\ phase \in Phases
  /\ maxBytes \in {0} \cup ChunkSizes
  /\ committed \in NoSeq .. Len(points)
  /\ at \in 1 .. Len(points) + 1
  /\ seq \in 0 .. Len(points)
  /\ buf \subseteq DOMAIN points
  /\ marker \in [cur : NoCur .. Len(points), tally : Nil .. Len(maps)]
  /\ maps \in Seq([Meas -> Nat])
  /\ {tally, baseline} \subseteq Nil .. Len(maps)
  /\ shared \in BOOLEAN
  /\ outbox \in Seq(Chunks)
  /\ runs \in 0 .. MaxRuns

(* A resumed run cuts the chunks an uninterrupted one would have cut, after *)
(* any mix of seeks, legacy skips and crashes: what is submitted under a    *)
(* number is exactly the lines of that chunk, the cursor is the last line   *)
(* of the committed chunk, so that a seek starts one, and a done shard's    *)
(* total is its number of chunks (chunk.go, "flush boundaries are           *)
(* deterministic"; CheckConfig refuses other settings).                     *)
ChunksReproduced ==
  /\ \A i \in DOMAIN outbox :
       outbox[i].lines = ChunkLines(points, chunkSize, outbox[i].seq)
  /\ ckCur # NoCur => ckCur = Max(ChunkLines(points, chunkSize, ckSeq))
  /\ ckDone => ckTotal = NumChunks(points, chunkSize)

(* On a checkpoint of this version the audit is exact in every state: it   *)
(* counts the acted-on points at or before the cursor, and all of them     *)
(* once the shard is done (DESIGN.md, "exact across any number of          *)
(* crashes").                                                              *)
AuditExact ==
  origin = "new" =>
    \A m \in Acted :
      audit[m] = Count(points, IF ckDone THEN Len(points) ELSE ckCur, m)

AtMostOnce == \A m \in Acted : audit[m] <= Count(points, Len(points), m)

(* No point is counted twice, over any crashes and resumes, on a checkpoint *)
(* of this version or on one migrate has upgraded: the counts of a shard    *)
(* that an earlier version left without its done mark are dropped before    *)
(* the resume counts them again (migrate, DeleteOrphans).  The exception is *)
(* a shard that had no chunk: OrphansRebuilt.                               *)
CountedOnce == origin # "chunkless" => AtMostOnce

(* After an upgrade nothing is counted twice either: "Those orphaned rows   *)
(* are deleted - the resume re-derives the shard fully and rebuilds them"   *)
(* (the comment of migrate).  Not so for a shard whose points were all      *)
(* skipped: it has counts and no progress row, by which they are looked up. *)
OrphansRebuilt == origin # "new" => AtMostOnce

(* The audit trail and total of a done shard are final: no upgrade or      *)
(* rerun touches them ("rows for DONE shards are final and kept").         *)
DoneIsFinal == [][ckDone => UNCHANGED ckpt]_vars
=============================================================================
