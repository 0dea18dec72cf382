------------------------------ MODULE V3Source ------------------------------
(***************************************************************************)
(* What tsm2arc reads from an InfluxDB 3 object store: setupV3FS           *)
(* (cmd/tsm2arc/v3.go) folds the snapshot manifests and the table index    *)
(* into the live file set, lists the write-ahead log, reads the catalog,   *)
(* decodes the log files no snapshot covers, and checks that every live    *)
(* file exists; the checkpoint's fingerprint then ties a resumed load to   *)
(* the source it began with.  One table; the server that writes the store  *)
(* is external, and may be stopped (for good or for a while) at any point. *)
(*                                                                         *)
(* Write w is the only content of log file w.  Snapshot s persists the     *)
(* writes above the mark of snapshot s - 1 as Parquet file s.  The n-th    *)
(* catalog log file adds column n, and write w uses columns 1 .. needs[w]. *)
(***************************************************************************)
EXTENDS Integers, FiniteSets, SequencesExt

CONSTANTS
  MaxWrites,     \* bound on the writes
  MaxSnapshots,  \* bound on the snapshots
  MaxColumns,    \* bound on the columns, that is on the catalog's log files
  MaxRuns,       \* bound on the runs of tsm2arc
  MaxSteps       \* bound on the server's steps while one run reads the store

ASSUME BoundsAssumption == {MaxWrites, MaxSnapshots, MaxColumns, MaxRuns, MaxSteps} \subseteq Nat

VARIABLES
  \* The store, written by the server.
  needs,      \* the writes so far: write w needs columns 1 .. needs[w]
  wal,        \* log files present under wal/
  snaps,      \* manifests: [mark |-> WAL high-water mark, removed |-> files]
  index,      \* db-indices: [files, floor]; floor 0 while there is none
  deltas,     \* snapshots that have a delta under table-snapshots/
  objects,    \* Parquet files present under dbs/
  compactor,  \* Enterprise compactor state present
  server,     \* the server's own set of live files
  \* tsm2arc.
  run,        \* the current run, see Idle
  runs,       \* runs started
  checkpoint, \* what the checkpoint store keeps of the first accepted run
  touched     \* the server has acted since the run that made it began

store == <<needs, wal, snaps, index, deltas, objects, compactor, server>>
vars  == <<store, run, runs, checkpoint, touched>>

NoCheckpoint == [fp |-> <<>>]

Idle == [pc |-> "idle", why |-> "", skip |-> FALSE, seen |-> 0, mark |-> 0,
         index |-> [files |-> {}, floor |-> 0], live |-> {}, pending |-> {},
         catalog |-> "none", columns |-> {}, decoded |-> {},
         steps |-> 0,        \* steps of the server since the run began
         swept |-> FALSE,    \* it removed a log file this run still needed
         gone |-> {},        \* files it had removed when the run began
         flushed |-> 0]      \* writes it had flushed when the log was listed

written == Len(needs)
columns == IF needs = <<>> THEN 0 ELSE Last(needs)   \* log files of the catalog
Files   == 1 .. Len(snaps)
Mark(s) == IF s = 0 THEN 0 ELSE snaps[s].mark
WritesOf(f) == Mark(f - 1) + 1 .. Mark(f)

Init ==
  /\ needs = <<>> /\ wal = {} /\ snaps = <<>>
  /\ index = [files |-> {}, floor |-> 0] /\ deltas = {} /\ objects = {}
  /\ compactor = FALSE /\ server = {}
  /\ run = Idle /\ runs = 0 /\ checkpoint = NoCheckpoint /\ touched = FALSE

-----------------------------------------------------------------------------
(* The server (external).                                                  *)

Busy == run.pc # "idle"

Counted(r) == IF Busy THEN [r EXCEPT !.steps = @ + 1] ELSE r

MayAct == \/ run.pc = "idle"
          \/ run.pc \notin {"refused", "done"} /\ run.steps < MaxSteps

Noticed == /\ MayAct
           /\ run' = Counted(run)
           /\ touched' = (checkpoint # NoCheckpoint)
           /\ UNCHANGED <<runs, checkpoint>>

\* A write is flushed to a new log file, after a column it may bring.
Write ==
  \E n \in {columns, columns + 1} :
    /\ written < MaxWrites /\ n \in 1 .. MaxColumns
    /\ needs' = Append(needs, n)
    /\ wal' = wal \cup {written + 1}
    /\ UNCHANGED <<snaps, index, deltas, objects, compactor, server>>
    /\ Noticed

(***************************************************************************)
(* A standing assumption about the server: a manifest that removes files   *)
(* comes with its delta, after those of the manifests before it.  Any      *)
(* other delta may lag.  BuildLiveSet needs it, because it applies all     *)
(* deltas after all manifests.                                             *)
(***************************************************************************)
Prompt(drop) == drop # {}

\* A snapshot persists a prefix of the open writes and may drop older files.
Snapshot ==
  \E hi \in Mark(Len(snaps)) + 1 .. written, drop \in SUBSET server :
    LET s == Len(snaps) + 1 IN
    /\ s <= MaxSnapshots
    /\ snaps' = Append(snaps, [mark |-> hi, removed |-> drop])
    /\ objects' = objects \cup {s}
    /\ server' = (server \ drop) \cup {s}
    /\ Prompt(drop) => \A t \in Files : t <= index.floor \/ t \in deltas
    /\ deltas' = IF Prompt(drop) THEN deltas \cup {s} ELSE deltas
    /\ UNCHANGED <<needs, wal, index, compactor>>
    /\ Noticed

WriteDelta ==
  \E s \in Files :
    /\ s > index.floor /\ \A d \in deltas : d < s
    /\ deltas' = deltas \cup {s}
    /\ UNCHANGED <<needs, wal, snaps, index, objects, compactor, server>>
    /\ Noticed

\* Merging, retention and hard deletes rewrite the index, not the manifests.
RewriteIndex ==
  \E purge \in SUBSET server :
    /\ snaps # <<>>
    /\ index' = [files |-> server \ purge, floor |-> Len(snaps)]
    /\ server' = server \ purge
    /\ UNCHANGED <<needs, wal, snaps, deltas, objects, compactor>>
    /\ Noticed

\* Merged deltas are deleted, the oldest first.
DropDelta ==
  \E d \in deltas :
    /\ d <= index.floor /\ \A e \in deltas : d <= e
    /\ deltas' = deltas \ {d}
    /\ UNCHANGED <<needs, wal, snaps, index, objects, compactor, server>>
    /\ Noticed

\* Objects go after the metadata, or, on Enterprise, behind its back.
Compact ==
  /\ ~compactor
  /\ compactor' = TRUE
  /\ UNCHANGED <<needs, wal, snaps, index, deltas, objects, server>>
  /\ Noticed

DeleteObject ==
  \E f \in objects :
    /\ f \notin server \/ compactor
    /\ objects' = objects \ {f}
    /\ UNCHANGED <<needs, wal, snaps, index, deltas, compactor, server>>
    /\ Noticed

\* A log file is removed some time after a snapshot has covered it, the
\* oldest first.
CleanWAL ==
  \E w \in wal :
    /\ w <= Mark(Len(snaps)) /\ (\A v \in wal : w <= v) /\ MayAct
    /\ wal' = wal \ {w}
    /\ run' = Counted([run EXCEPT
                 !.swept = @ \/ (run.pc \in {"index", "deltas", "wal"} /\ w > run.mark)])
    /\ touched' = (checkpoint # NoCheckpoint)
    /\ UNCHANGED <<needs, snaps, index, deltas, objects, compactor,
                   server, runs, checkpoint>>

Server == \/ Write \/ Snapshot \/ WriteDelta \/ RewriteIndex
          \/ DropDelta \/ Compact \/ DeleteObject \/ CleanWAL

-----------------------------------------------------------------------------
(* tsm2arc.                                                                *)

Refuse(why) == /\ run' = [run EXCEPT !.pc = "refused", !.why = why]
               /\ UNCHANGED <<store, runs, checkpoint, touched>>

Becomes(next) == /\ run' = next
                 /\ UNCHANGED <<store, runs, checkpoint, touched>>

Start ==
  \E skip \in BOOLEAN :
    /\ run.pc = "idle" /\ runs < MaxRuns
    /\ runs' = runs + 1
    /\ run' = [Idle EXCEPT !.pc = IF compactor THEN "refused" ELSE "manifests",
                           !.why = IF compactor THEN "compactor" ELSE "",
                           !.skip = skip, !.gone = Files \ server]
    /\ UNCHANGED <<store, checkpoint, touched>>

\* A manifest never changes, so what was listed can be read at any time.
NewestMark(n) == Mark(n)

LoadSnapshots ==
  /\ run.pc = "manifests"
  /\ Becomes([run EXCEPT !.pc = "index", !.seen = Len(snaps), !.mark = NewestMark(Len(snaps))])

LoadIndex ==
  /\ run.pc = "index"
  /\ Becomes([run EXCEPT !.pc = "deltas", !.index = index])

\* One manifest, or one delta, on top of what is already applied.
AppliedAlways(floor, files, s) == (files \cup {s}) \ snaps[s].removed   \* Slip: no floor
AppliedAdds(floor, files, s) == IF s <= floor THEN files ELSE files \cup {s}   \* Slip
Applied(floor, files, s) ==
  IF s <= floor THEN files ELSE (files \cup {s}) \ snaps[s].removed

\* BuildLiveSet: the index, then every manifest, then every delta.
BuildLiveSet(n, ix, ds) ==
  LET manifests[s \in 0 .. n] ==
        IF s = 0 THEN ix.files ELSE Applied(ix.floor, manifests[s-1], s)
      withDeltas[s \in 0 .. Len(snaps)] ==
        IF s = 0 THEN manifests[n]
        ELSE IF s \in ds THEN Applied(ix.floor, withDeltas[s-1], s) ELSE withDeltas[s-1]
  IN  withDeltas[Len(snaps)]

LoadDeltas ==
  /\ run.pc = "deltas"
  /\ Becomes([run EXCEPT !.pc = "wal", !.live = BuildLiveSet(run.seen, run.index, deltas),
                              !.index.files = {}])

UnsnapshottedAfter(mark) == {w \in wal : w > mark + 1}   \* Slip: off by one
Unsnapshotted(mark) == {w \in wal : w > mark}

CheckWAL ==
  /\ run.pc = "wal"
  /\ Becomes([run EXCEPT !.pc = "catalog", !.pending = Unsnapshotted(run.mark), !.flushed = written])

\* loadJSONCatalog: the checkpoint, then every log above its sequence.
ReplayedCheckpoint(n, total) == 1 .. n   \* Slip: no log replay
Replayed(n, total) == (1 .. n) \cup {l \in 1 .. total : l > n}

\* The checkpoint lags behind by any number of log files.  A binary catalog
\* may be unreadable; the JSON tree of before the upgrade, if there is one,
\* is then used, and known to be stale.
LoadCatalog ==
  /\ run.pc = "catalog"
  /\ \E n \in 0 .. columns :
       \/ Becomes([run EXCEPT !.pc = "decode", !.catalog = "fresh", !.columns = Replayed(n, columns)])
       \/ Becomes([run EXCEPT !.pc = "decode", !.catalog = "stale", !.columns = 1 .. n])
       \/ Becomes([run EXCEPT !.pc = "decode"])

MissingColumn(ws, cols) == \E w \in ws : ~(1 .. needs[w] \subseteq cols)

DecodeWAL ==
  /\ run.pc = "decode"
  /\ \/ /\ run.pending = {} \/ run.skip
        /\ Becomes([run EXCEPT !.pc = "reconcile"])
     \/ /\ run.pending # {} /\ ~run.skip
        /\ IF run.catalog # "fresh" THEN Refuse("catalog")
           ELSE IF ~(run.pending \subseteq wal) THEN Refuse("vanished")
           ELSE IF MissingColumn(run.pending, run.columns) THEN Refuse("column")
           ELSE Becomes([run EXCEPT !.pc = "reconcile", !.decoded = run.pending,
                                              !.pending = {}])

Dangling == run.live \ objects

\* Without a manifest and an index, a delta brings the table, and a file.
NoTable == run.seen = 0 /\ run.index.floor = 0 /\ run.live = {} /\ run.decoded = {}

\* Then the names: a table without a catalog entry cannot be routed.
Reconcile ==
  /\ run.pc = "reconcile"
  /\ IF Dangling # {} THEN Refuse("dangling")
     ELSE IF NoTable THEN Refuse("empty")
     ELSE IF run.columns = {} THEN Refuse("names")
     ELSE Becomes([run EXCEPT !.pc = "config"])

FingerprintOfFiles(r) == <<r.live, r.mark>>   \* Slip: no decoded log
Fingerprint(r) == <<r.live, r.mark, Max({0} \cup r.decoded)>>

Input(r) == [live |-> r.live, decoded |-> r.decoded]

\* CheckConfig: the first run stores its fingerprint, a later one must match.
CheckConfig ==
  /\ run.pc = "config"
  /\ IF checkpoint = NoCheckpoint
     THEN /\ checkpoint' = [fp |-> Fingerprint(run), input |-> Input(run),
                          skip |-> run.skip, swept |-> run.swept]
          /\ run' = [run EXCEPT !.pc = "loading"]
          /\ touched' = (run.steps > 0)
          /\ UNCHANGED <<store, runs>>
     ELSE IF checkpoint.fp = Fingerprint(run)
          THEN Becomes([run EXCEPT !.pc = "loading"])
          ELSE Refuse("settings")

\* Extraction opens each live file; a file that vanished or has a tag the
\* catalog did not list fails the run, like any other error or a crash.
Load ==
  /\ run.pc = "loading"
  /\ \/ /\ run.live \subseteq objects
        /\ ~MissingColumn(UNION {WritesOf(f) : f \in run.live}, run.columns)
        /\ Becomes([run EXCEPT !.pc = "done"])
     \/ Becomes(Idle)

Exit == run.pc \in {"refused", "done"} /\ Becomes(Idle)

Tool == \/ Start \/ LoadSnapshots \/ LoadIndex \/ LoadDeltas \/ CheckWAL \/ LoadCatalog
        \/ DecodeWAL \/ Reconcile \/ CheckConfig \/ Load \/ Exit

Next == Server \/ Tool

Spec == Init /\ [][Next]_vars

-----------------------------------------------------------------------------
(* Properties.                                                             *)

Indexes == [files : SUBSET Files, floor : 0 .. Len(snaps)]

Runs == [pc : {"idle", "manifests", "index", "deltas", "wal", "catalog", "decode", "reconcile",
               "config", "loading", "refused", "done"},
         why : {"", "compactor", "catalog", "vanished", "column", "dangling", "empty", "names",
                "settings"},
         skip : BOOLEAN, seen : 0 .. Len(snaps), mark : 0 .. written, index : Indexes,
         live : SUBSET Files, pending : SUBSET (1 .. written),
         catalog : {"none", "fresh", "stale"}, columns : SUBSET (1 .. columns),
         decoded : SUBSET (1 .. written), steps : 0 .. MaxSteps, swept : BOOLEAN,
         gone : SUBSET Files, flushed : 0 .. written]

Checkpoints == [fp : (SUBSET Nat) \X Nat \X Nat,
                input : [live : SUBSET Nat, decoded : SUBSET Nat],
                skip : BOOLEAN, swept : BOOLEAN]

\* Types of all variables.
TypeOK ==
  /\ needs \in Seq(1 .. MaxColumns) /\ wal \subseteq 1 .. written
  /\ snaps \in Seq([mark : 1 .. written, removed : SUBSET Files])
  /\ index \in Indexes /\ deltas \subseteq Files
  /\ objects \subseteq Files /\ server \subseteq Files
  /\ compactor \in BOOLEAN
  /\ run \in Runs /\ runs \in 0 .. MaxRuns /\ touched \in BOOLEAN
  /\ checkpoint = NoCheckpoint \/ checkpoint \in Checkpoints

Accepted == run.pc \in {"config", "loading", "done"}

\* Nothing is left behind: a write flushed before the log was listed is in a
\* live file or in a decoded log file, unless the server deleted its file.
\* The server may be running meanwhile, as long as it does not remove a log
\* file between the reading of the manifests and the listing of the log.
NothingMissed ==
  Accepted /\ ~run.skip /\ ~run.swept =>
    \A w \in 1 .. run.flushed :
      w \in run.decoded \/ \E f \in run.live \cup (Files \ server) : w \in WritesOf(f)

\* A file the server had dropped before the run began, by retention or by a
\* delete, is not migrated.
NothingResurrected == Accepted => run.live \cap run.gone = {}

\* The catalog is read after the data it describes, with all its log files:
\* no column of a live file or of a log file is ever missing from it.
CatalogCoversData ==
  /\ run.why # "column"
  /\ run.pc = "loading" /\ run.catalog = "fresh" =>
       ~MissingColumn(run.decoded \cup UNION {WritesOf(f) : f \in run.live}, run.columns)

\* A store nobody touches is refused only for what cannot be migrated: a
\* compactor's traces, an unreadable catalog, no table; never because the
\* live set was computed wrongly, nor because of the run's own checkpoint.
RefusedForCause ==
  run.pc = "refused" /\ run.steps = 0 =>
    \/ run.why \in {"compactor", "empty"}
    \/ run.why \in {"catalog", "names"} /\ run.catalog # "fresh"
    \/ run.why = "dangling" /\ ~(server \subseteq objects)
    \/ run.why = "settings" /\ (touched \/ run.skip # checkpoint.skip)

\* A resumed load has the input it began with.
SameInput ==
  run.pc \in {"loading", "done"} /\ ~run.swept /\ ~checkpoint.swept =>
    Input(run) = checkpoint.input
=============================================================================
