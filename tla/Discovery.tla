----------------------------- MODULE Discovery ------------------------------
(***************************************************************************)
(* What a run migrates from an InfluxDB 1.x or 2.x directory: Detect and   *)
(* Walk (internal/discover), and main's steps around them, which find the  *)
(* log directory and the names of 2.x buckets and drop system buckets and  *)
(* filtered-out databases.  The layout is guessed from the shape of the    *)
(* tree, and any directory in it may be unreadable to the operator.        *)
(*                                                                         *)
(* A file system is a function from paths, sequences of names, to what is  *)
(* there: "dir", "locked" (a directory that cannot be entered or listed),  *)
(* "file", or "empty" (a file of 0 bytes).                                 *)
(***************************************************************************)
EXTENDS Integers, SequencesExt

CONSTANTS
  Sources,    \* the cases: [fs, datadir, waldir, filter, internal, bolt,
              \*  version, root], see Truth below
  Numeric,    \* names that are decimal numbers
  BucketIDs,  \* names of 16 hexadecimal digits
  TSMFiles,   \* names that end in .tsm
  WALFiles    \* names that end in .wal

VARIABLES
  source,    \* the case at hand
  pc,        \* "detect", "walk", "names", "ok", "unreadable", "none" or "v3"
  dataDir, version,   \* what Detect returned
  walDir,    \* the directory logs are read from, as <<path>>, or NoDir
  shards     \* what is to be migrated

vars == <<source, pc, dataDir, version, walDir, shards>>

NoDir == <<>>   \* no --waldir; a given one is <<path>>

fs == source.fs

-----------------------------------------------------------------------------
(* The file system, as os.ReadDir and os.Stat show it.                     *)

Blocked(p) == \E n \in 1 .. Len(p) - 1 :
                SubSeq(p, 1, n) \in DOMAIN fs /\ fs[SubSeq(p, 1, n)] = "locked"

IsDir(p) == p \in DOMAIN fs /\ ~Blocked(p) /\ fs[p] \in {"dir", "locked"}

Denied(p) == Blocked(p) \/ (p \in DOMAIN fs /\ fs[p] = "locked")
Readable(p) == IsDir(p) /\ fs[p] = "dir"

Entries(p) == IF Readable(p)
              THEN {Last(q) : q \in {q \in DOMAIN fs : q # <<>> /\ Front(q) = p}}
              ELSE {}

Dirs(p) == {n \in Entries(p) : IsDir(Append(p, n))}

\* globSorted: a directory that cannot be read has no files.
Glob(p, names) == {n \in Entries(p) : n \in names /\ ~IsDir(Append(p, n))}

-----------------------------------------------------------------------------
(* Detection.                                                              *)

IsEngineData(p) == \E b \in Dirs(p) \cap BucketIDs : IsDir(p \o <<b, "autogen">>)

Markers == {"wal", "snapshots", "dbs", "catalog", "catalogs", "cv2", "pt_snapshots"}
V3NodeMarkers(p) == Cardinality({m \in Markers : IsDir(Append(p, m))})

DetectV3(p) == \/ V3NodeMarkers(p) >= 2
               \/ \E n \in Dirs(p) : V3NodeMarkers(Append(p, n)) >= 2

RPs(p) == {q \in {p \o <<db, rp>> : db \in Dirs(p), rp \in UNION {Dirs(Append(p, d)) : d \in Dirs(p)}} :
             IsDir(q) /\ Last(q) # "_series"}

Shaped1x(p) == \E q \in RPs(p) : Dirs(q) \cap Numeric # {}

Unreadable1xTop(p) == Denied(p)   \* Slip: the levels below are not probed
Unreadable1x(p) == \/ Denied(p)
                   \/ \E db \in Dirs(p) : Denied(Append(p, db))
                   \/ \E q \in RPs(p) : Denied(q)

\* A 2.x tree, a 3.x store, a directory of 1.x's shape, and failing these one
\* that may have that shape but could not be read.
Detect(p) ==
  LET in2x == <<p \o <<"engine", "data">>, Append(p, "data"), p>>
      in1x == Tail(in2x)
      engine == SelectInSeq(in2x, IsEngineData)   \* 0 if there is none
      shaped == SelectInSeq(in1x, Shaped1x)
      denied == SelectInSeq(in1x, Unreadable1x)
  IN  IF engine > 0       THEN <<in2x[engine], "2.x">>
      ELSE IF DetectV3(p) THEN <<p, "3.x">>
      ELSE IF shaped > 0  THEN <<in1x[shaped], "1.x">>
      ELSE IF denied > 0  THEN <<in1x[denied], "1.x">>
      ELSE                     <<p, "unknown">>

-----------------------------------------------------------------------------
(* The run.                                                                *)

Init == /\ source \in Sources /\ pc = "detect"
        /\ dataDir = <<>> /\ version = "" /\ walDir = NoDir /\ shards = {}

\* A 2.x log lies beside the data, unless --waldir says otherwise.
BesideData(dir) == Append(Front(dir), "wal")

DetectLayout ==
  LET found == Detect(source.datadir) IN
  /\ pc = "detect"
  /\ dataDir' = found[1] /\ version' = found[2]
  /\ walDir' = IF found[2] = "2.x" /\ source.waldir = NoDir /\ IsDir(BesideData(found[1]))
               THEN <<BesideData(found[1])>> ELSE source.waldir
  /\ pc' = IF found[2] = "3.x" THEN "v3" ELSE "walk"
  /\ UNCHANGED <<source, shards>>

\* Buckets are filtered by name, so not before their names are known.
Included(db) == /\ db = "_internal" => source.internal
                /\ version = "2.x" \/ source.filter = {} \/ db \in source.filter

HasData(p, files) == \E f \in files : fs[Append(p, f)] = "file"

\* A shard directory, with its files.
ShardAt(db, rp, id) ==
  [source |-> db, name |-> db, rp |-> rp, id |-> id,
   tsm |-> Glob(dataDir \o <<db, rp, id>>, TSMFiles),
   wal |-> IF walDir = NoDir THEN {} ELSE Glob(walDir[1] \o <<db, rp, id>>, WALFiles)]

WorthTSM(s) == s.tsm # {}   \* Slip: only flushed data counts
Worth(s) == \/ s.tsm # {}
            \/ s.wal # {} /\ HasData(walDir[1] \o <<s.source, s.rp, s.id>>, s.wal)

Walk ==
  LET dbs    == {db \in Dirs(dataDir) : Included(db)}
      rps(db) == Dirs(Append(dataDir, db))
      found  == UNION {{ShardAt(db, rp, id) : id \in Dirs(dataDir \o <<db, rp>>)} :
                         <<db, rp>> \in {<<d, r>> \in dbs \X UNION {rps(d) : d \in dbs} : r \in rps(d)}}
      failed == \/ ~Readable(dataDir)
                \/ \E db \in dbs : \/ ~Readable(Append(dataDir, db))
                                   \/ \E rp \in rps(db) : ~Readable(dataDir \o <<db, rp>>)
  IN  /\ pc = "walk"
      /\ \/ failed /\ pc' = "unreadable" /\ UNCHANGED shards
         \/ ~failed /\ pc' = "names" /\ shards' = {s \in found : Worth(s)}
      /\ UNCHANGED <<source, dataDir, version, walDir>>

\* Without influxd.bolt a bucket goes by its ID, and none is a system bucket.
Name(id) == IF id \in DOMAIN source.bolt THEN source.bolt[id].name ELSE id
IsSystem(id) == id \in DOMAIN source.bolt /\ source.bolt[id].system

Resolved(found) ==
  {[s EXCEPT !.name = Name(s.source)] :
     s \in {s \in found : /\ ~IsSystem(s.source)
                          /\ source.filter = {} \/ Name(s.source) \in source.filter}}

ResolveNames ==
  /\ pc = "names"
  /\ shards' = IF version = "2.x" THEN Resolved(shards) ELSE shards
  /\ pc' = IF shards' = {} THEN "none" ELSE "ok"
  /\ UNCHANGED <<source, dataDir, version, walDir>>

Next == DetectLayout \/ Walk \/ ResolveNames

Spec == Init /\ [][Next]_vars

-----------------------------------------------------------------------------
(* Properties.  source.root is the data directory the case really has, and *)
(* source.version its real version.                                        *)

Wanted(db) ==
  LET name == IF source.version = "2.x" THEN Name(db) ELSE db IN
  /\ (source.version = "1.x" /\ db = "_internal") => source.internal
  /\ source.version = "2.x" => ~IsSystem(db)
  /\ source.filter = {} \/ name \in source.filter

Under(p, n) == {q \in DOMAIN fs : Len(q) = Len(p) + n /\ SubSeq(q, 1, Len(p)) = p}

\* The last n names of a path.
Suffix(q, n) == SubSeq(q, Len(q) - n + 1, Len(q))

LogRoot == IF source.waldir # NoDir THEN source.waldir
           ELSE IF source.version = "2.x" THEN <<BesideData(source.root)>> ELSE NoDir

\* Unless a permission stops it, a run finds every file that holds data of a
\* database it was asked for and that can be read, in a log too, at whichever
\* level of the tree --datadir points, under the name it should have; and it
\* does not go on past such a database or retention policy it cannot read.
NothingOverlooked ==
  pc \in {"ok", "none", "v3"} /\ source.version # "3.x" =>
    /\ \A q \in Under(source.root, 4) :
         Wanted(Suffix(q, 4)[1]) /\ Last(q) \in TSMFiles /\ ~Blocked(q) =>
           \E s \in shards : <<s.source, s.rp, s.id>> = Front(Suffix(q, 4)) /\ Last(q) \in s.tsm
    /\ LogRoot # NoDir =>
         \A q \in Under(LogRoot[1], 4) :
           /\ Wanted(Suffix(q, 4)[1]) /\ fs[q] = "file" /\ ~Blocked(q)
           /\ IsDir(source.root \o Front(Suffix(q, 4)))
           => \E s \in shards : <<s.source, s.rp, s.id>> = Front(Suffix(q, 4)) /\ Last(q) \in s.wal
    /\ \A s \in shards : /\ Wanted(s.source)
                         /\ s.name = IF source.version = "2.x" THEN Name(s.source) ELSE s.source
    /\ \A n \in {1, 2} : \A q \in Under(source.root, n) :
         pc = "ok" /\ fs[q] = "locked" => ~Wanted(Suffix(q, n)[1])

\* A retention policy whose name is a number looks like a shard from the
\* level above, where its database looks like a policy.
NumericPolicy == \E q \in DOMAIN fs : Len(q) = Len(source.root) + 2 /\ Last(q) \in Numeric

\* A permission error stops the run only where it needs the permission: a
\* 1.x database that is not to be migrated may be unreadable, as long as it
\* is not taken for a bucket and no retention policy is named by a number.
FailsForCause ==
  pc = "unreadable" /\ ~NumericPolicy =>
    \/ Denied(source.root) \/ Denied(source.datadir)
    \/ \E n \in {1, 2} : \E q \in Under(source.root, n) :
         fs[q] = "locked" /\ ("2.x" \in {version, source.version} \/ Wanted(Suffix(q, n)[1]))
=============================================================================
