----------------------------- MODULE FileHandles -----------------------------
(***************************************************************************)
(* The TSM files a shard's extraction has open, and the parsed indexes it  *)
(* keeps of them: the fileSet and blockStream of internal/extract, the     *)
(* scans of indexShard and buildTasks, the index cache of                  *)
(* cmd/tsm2arc/run.go and the two ways internal/tsm opens a file.          *)
(*                                                                         *)
(* A unit is what is merged together: one stream for each key of a file,   *)
(* with the number of its blocks in the time window.  The serial           *)
(* extraction merges its units one after the other through one fileSet,    *)
(* the split one several at a time, each through a fileSet of its own; all *)
(* go through one index cache.  What the values are is left to             *)
(* SeriesMerge, and when a task may start to SplitExtraction.  A file is   *)
(* known by its version: the size and the mtime that an index was parsed   *)
(* at, and that change together with the content.                          *)
(***************************************************************************)
EXTENDS Integers, Sequences, FiniteSets, SequencesExt, FiniteSetsExt

CONSTANTS Files,       \* the TSM files of the shard
          Size,        \* Size[f][v]: Index.ApproxBytes of version v of the file
          Budget,      \* --index-cache
          MaxWorkers,  \* the largest --shard-split
          MaxVersion,  \* bound: versions of a file
          Shards       \* the shards considered: sequences of runs

\* What is merged together, a stream for each key of a file; a run is a
\* sequence of units.
Units == Seq([file : Files, blocks : Nat])

ASSUME ConstantsAssumption ==
  /\ IsFiniteSet(Files)
  /\ Size \in [Files -> [1 .. MaxVersion -> Nat]]
  /\ Budget \in Nat
  /\ MaxWorkers \in Nat \ {0}
  /\ MaxVersion \in Nat \ {0}
  /\ Shards \subseteq Seq(Seq(Units))

Scanner == 0                   \* the goroutine that indexes and plans
Workers == 1 .. MaxWorkers     \* those that merge
Actors == {Scanner} \cup Workers

NoVersion == 0
NoHandle == [version |-> NoVersion, index |-> NoVersion]

VARIABLES
  version,   \* version[f]: of the file on disk
  cache,     \* indexCache.idx: the version an index was parsed at, if any
  used,      \* indexCache.used
  fds,       \* file descriptors the process has open on TSM files
  split,     \* --shard-split: merges at a time, 1 for the serial path
  scan,      \* the files still to be opened before the first merge
  plan,      \* the units still to be merged
  pc,        \* what an actor is doing
  target,    \* target[a]: the file it is opening
  handle,    \* handle[a]: the file it has parsed, not yet noted in the cache
  rs,        \* rs[a][f]: fileSet.rs, the version opened and the index's
  refs,      \* refs[w][f]: fileSet.refs
  unit,      \* unit[w]: the streams it merges
  str,       \* str[w][i]: how far stream i is
  failed     \* the extraction has failed

files   == <<version, cache, used>>
vars == <<version, cache, used, fds, split, scan, plan, pc, target, handle, rs,
          refs, unit, str, failed>>

(***************************************************************************)
(* "idle"; inside indexCache.open: "cached" (it found an index), "parse",  *)
(* "store"; the scanner with its file open, "scanned"; "merge".            *)
(* A stream is "new", "loaded" (it has its entries, and no value at hand), *)
(* "head" (the merge has seen its next value) or "released".               *)
(***************************************************************************)

\* The units of a shard: its runs one after the other, by windows if split.
UnitsOf(sh) == FlattenSeq(sh)
FilesOfRun(run) ==
  UNION {{run[u][i].file : i \in 1 .. Len(run[u])} : u \in 1 .. Len(run)}

\* indexShard opens every file; buildTasks every file of every run again.
ScanOf(sh, n) ==
  LET index == SetToSeq(Files)
      tasks == FlattenSeq([r \in 1 .. Len(sh) |-> SetToSeq(FilesOfRun(sh[r]))])
  IN IF n = 1 THEN index ELSE index \o tasks

Init ==
  /\ version = [f \in Files |-> 1]
  /\ cache = [f \in Files |-> NoVersion]
  /\ used = 0
  /\ fds = 0
  /\ split \in 1 .. MaxWorkers
  /\ \E sh \in Shards :
       /\ (split = 1 => \A r \in 1 .. Len(sh) : Len(sh[r]) = 1)
       /\ plan = UnitsOf(sh)
       /\ scan = ScanOf(sh, split)
  /\ pc = [a \in Actors |-> "idle"]
  /\ target \in [Actors -> {CHOOSE f \in Files : TRUE}]
  /\ handle = [a \in Actors |-> NoHandle]
  /\ rs = [a \in Actors |-> [f \in Files |-> NoHandle]]
  /\ refs = [w \in Workers |-> [f \in Files |-> 0]]
  /\ unit = [w \in Workers |-> << >>]
  /\ str = [w \in Workers |-> << >>]
  /\ failed = FALSE

\* Somebody writes to the data directory during the migration.
ChangeFile(f) ==
  /\ version[f] < MaxVersion
  /\ version' = [version EXCEPT ![f] = @ + 1]
  /\ UNCHANGED <<cache, used, fds, split, scan, plan, pc, target, handle, rs,
                 refs, unit, str, failed>>

-----------------------------------------------------------------------------
(* indexCache.open, and the opening of a file by internal/tsm              *)

IsOpen(a, f) == rs[a][f] # NoHandle

\* Under the lock: is there an index?
LookUp(a, f) ==
  /\ target' = [target EXCEPT ![a] = f]
  /\ pc' = [pc EXCEPT ![a] = IF cache[f] # NoVersion THEN "cached" ELSE "parse"]
  /\ UNCHANGED <<files, fds, split, scan, plan, handle, rs, refs, unit, str, failed>>

Opened(a, h) ==
  /\ rs' = [rs EXCEPT ![a][target[a]] = h]
  /\ pc' = [pc EXCEPT ![a] = IF a = Scanner THEN "scanned" ELSE "merge"]

\* The open fails, or the extraction does for another reason: every stream is
\* released and closeAll closes what is left.
Fails(a) ==
  /\ failed' = TRUE
  /\ pc' = [pc EXCEPT ![a] = "idle"]
  /\ fds' = fds - Cardinality({f \in Files : IsOpen(a, f)})
  /\ rs' = [rs EXCEPT ![a] = [f \in Files |-> NoHandle]]
  /\ IF a = Scanner THEN UNCHANGED <<refs, unit, str>>
     ELSE /\ refs' = [refs EXCEPT ![a] = [f \in Files |-> 0]]
          /\ unit' = [unit EXCEPT ![a] = << >>]
          /\ str' = [str EXCEPT ![a] = << >>]
  /\ UNCHANGED <<files, split, scan, plan, target, handle>>

\* Slip: the size and the mtime are not compared.
Unchanged(f) == TRUE

\* OpenWithIndex's test.
SameFile(f) == version[f] = cache[f]

OpenWithIndex(a) ==
  /\ pc[a] = "cached"
  /\ SameFile(target[a])
  /\ fds' = fds + 1
  /\ Opened(a, [version |-> version[target[a]], index |-> cache[target[a]]])
  /\ UNCHANGED <<files, split, scan, plan, target, handle, refs, unit, str, failed>>

\* The file has changed since its index was parsed, or cannot be opened.
OpenWithIndexFails(a) == pc[a] = "cached" /\ Fails(a)

\* Outside the lock: two actors may parse the same file at once.
OpenAndParse(a) ==
  /\ pc[a] = "parse"
  /\ fds' = fds + 1
  /\ handle' = [handle EXCEPT ![a] = [version |-> version[target[a]],
                                     index |-> version[target[a]]]]
  /\ pc' = [pc EXCEPT ![a] = "store"]
  /\ UNCHANGED <<files, split, scan, plan, target, rs, refs, unit, str, failed>>

OpenAndParseFails(a) == pc[a] = "parse" /\ Fails(a)

\* The index is kept if it fits and no other actor was first.
Room(f, bytes) == used + bytes <= Budget /\ cache[f] = NoVersion

StoreIndex(a) ==
  /\ pc[a] = "store"
  /\ LET f == target[a]
         bytes == Size[f][handle[a].index] IN
     IF Budget > 0 /\ Room(f, bytes)
     THEN /\ cache' = [cache EXCEPT ![f] = handle[a].index]
          /\ used' = used + bytes
     ELSE UNCHANGED <<cache, used>>
  /\ Opened(a, handle[a])
  /\ handle' = [handle EXCEPT ![a] = NoHandle]
  /\ UNCHANGED <<version, fds, split, scan, plan, target, refs, unit, str, failed>>

-----------------------------------------------------------------------------
(* The scans before the first merge: one file open at a time               *)

ScanFile ==
  /\ pc[Scanner] = "idle" /\ scan # << >> /\ ~ failed
  /\ LookUp(Scanner, Head(scan))

ScanClose ==
  /\ pc[Scanner] = "scanned"
  /\ rs' = [rs EXCEPT ![Scanner][target[Scanner]] = NoHandle]
  /\ fds' = fds - 1
  /\ scan' = Tail(scan)
  /\ pc' = [pc EXCEPT ![Scanner] = "idle"]
  /\ UNCHANGED <<files, split, plan, target, handle, refs, unit, str, failed>>

-----------------------------------------------------------------------------
(* The merge of a unit                                                     *)

StreamsOn(u, f) == {i \in 1 .. Len(u) : u[i].file = f}

\* newBlockStream, for every stream of the unit.
TakeUnit(w) ==
  /\ w <= split
  /\ pc[w] = "idle" /\ pc[Scanner] = "idle" /\ scan = << >>
  /\ plan # << >> /\ ~ failed
  /\ LET u == Head(plan) IN
     /\ unit' = [unit EXCEPT ![w] = u]
     /\ str' = [str EXCEPT ![w] = [i \in 1 .. Len(u) |->
                                     [at |-> "new", left |-> u[i].blocks]]]
     /\ refs' = [refs EXCEPT ![w] = [f \in Files |->
                                       refs[w][f] + Cardinality(StreamsOn(u, f))]]
  /\ plan' = Tail(plan)
  /\ pc' = [pc EXCEPT ![w] = "merge"]
  /\ UNCHANGED <<files, fds, split, scan, target, handle, rs, failed>>

Merging(w, i, at) == pc[w] = "merge" /\ i \in DOMAIN str[w] /\ str[w][i].at = at
FileOf(w, i) == unit[w][i].file

\* fileSet.get, when the file is not open.
GetFile(w, i) ==
  /\ Merging(w, i, "new") \/ (Merging(w, i, "loaded") /\ str[w][i].left > 0)
  /\ ~ IsOpen(w, FileOf(w, i))
  /\ LookUp(w, FileOf(w, i))

LoadIndex(w, i) ==
  /\ Merging(w, i, "new")
  /\ IsOpen(w, FileOf(w, i))
  /\ str' = [str EXCEPT ![w][i].at = "loaded"]
  /\ UNCHANGED <<files, fds, split, scan, plan, pc, target, handle, rs, refs,
                 unit, failed>>

LoadNext(w, i) ==
  /\ Merging(w, i, "loaded") /\ str[w][i].left > 0
  /\ IsOpen(w, FileOf(w, i))
  /\ str' = [str EXCEPT ![w][i] = [at |-> "head", left |-> @.left - 1]]
  /\ UNCHANGED <<files, fds, split, scan, plan, pc, target, handle, rs, refs,
                 unit, failed>>

\* Slip: the file is closed with the first of its streams.
LastReferenceAny(n) == TRUE

\* What is left of a file's references after a release.
LastReference(n) == n = 1

\* finish, which releases: the file is closed with its last stream.
EndStream(w, i) ==
  /\ Merging(w, i, "loaded") /\ str[w][i].left = 0
  /\ str' = [str EXCEPT ![w][i].at = "released"]
  /\ LET f == FileOf(w, i)
         close == LastReference(refs[w][f]) /\ IsOpen(w, f) IN
     /\ refs' = [refs EXCEPT ![w][f] = @ - 1]
     /\ rs' = IF close THEN [rs EXCEPT ![w][f] = NoHandle] ELSE rs
     /\ fds' = IF close THEN fds - 1 ELSE fds
  /\ UNCHANGED <<files, split, scan, plan, pc, target, handle, unit, failed>>

\* The merge has seen every stream's next value and takes the earliest ones.
Consume(w) ==
  LET heads == {i \in DOMAIN str[w] : str[w][i].at = "head"} IN
  /\ pc[w] = "merge"
  /\ \A i \in DOMAIN str[w] : str[w][i].at \in {"head", "released"}
  /\ \E S \in SUBSET heads \ {{}} :
       str' = [str EXCEPT ![w] = [i \in DOMAIN @ |->
                 IF i \in S THEN [@[i] EXCEPT !.at = "loaded"] ELSE @[i]]]
  /\ UNCHANGED <<files, fds, split, scan, plan, pc, target, handle, rs, refs,
                 unit, failed>>

\* A block that cannot be read or decoded.
ReadFails(w, i) ==
  /\ Merging(w, i, "new") \/ (Merging(w, i, "loaded") /\ str[w][i].left > 0)
  /\ IsOpen(w, FileOf(w, i))
  /\ Fails(w)

UnitDone(w) ==
  /\ pc[w] = "merge"
  /\ \A i \in DOMAIN str[w] : str[w][i].at = "released"
  /\ pc' = [pc EXCEPT ![w] = "idle"]
  /\ unit' = [unit EXCEPT ![w] = << >>]
  /\ str' = [str EXCEPT ![w] = << >>]
  /\ UNCHANGED <<files, fds, split, scan, plan, target, handle, rs, refs, failed>>

Next ==
  \/ \E f \in Files : ChangeFile(f)
  \/ ScanFile \/ ScanClose
  \/ \E a \in Actors :
       \/ OpenWithIndex(a) \/ OpenWithIndexFails(a)
       \/ OpenAndParse(a) \/ OpenAndParseFails(a) \/ StoreIndex(a)
  \/ \E w \in Workers :
       \/ TakeUnit(w) \/ Consume(w) \/ UnitDone(w)
       \/ \E i \in DOMAIN str[w] :
            GetFile(w, i) \/ LoadIndex(w, i) \/ LoadNext(w, i) \/ EndStream(w, i)
              \/ ReadFails(w, i)

Spec == Init /\ [][Next]_vars

-----------------------------------------------------------------------------
(* Properties *)

\* The files that a stream of the unit has read, and that one may still read.
Begun(w) == {FileOf(w, i) : i \in {j \in DOMAIN str[w] : str[w][j].at # "new"}}
Needed(w) == {FileOf(w, i) : i \in {j \in DOMAIN str[w] : str[w][j].at # "released"}}

(* A file stays open from its first read to the end of its last stream and *)
(* no longer: none is opened a second time within a unit, whichever of its *)
(* streams ends first, and no descriptor is left to nobody, not even by a  *)
(* refused index or a failed merge (the comments of fileSet and of         *)
(* blockStream.release).                                                   *)
HeldWhileNeeded ==
  /\ \A w \in Workers :
       LET held == {f \in Files : IsOpen(w, f)} IN
       Begun(w) \cap Needed(w) \subseteq held /\ held \subseteq Needed(w)
  /\ fds = Cardinality({x \in Actors \X Files : IsOpen(x[1], x[2])})
             + Cardinality({a \in Actors : pc[a] = "store"})

\* As many as there are pairs of an element and a number up to its value.
SumOver(f, S) == Cardinality(UNION {{x} \X (1 .. f[x]) : x \in S})

\* What the cache holds of a file, in bytes.
Kept == [f \in Files |-> IF cache[f] = NoVersion THEN 0 ELSE Size[f][cache[f]]]

(* The cache is sound however its actors interleave: its running total is  *)
(* the size of what it holds and within the budget, though actors that     *)
(* parsed the same file at once all come to store it, and an index taken   *)
(* from it is used on that version of the file only (OpenWithIndex: "a     *)
(* mismatch fails loudly").                                                *)
CacheSound ==
  /\ used = SumOver(Kept, Files)
  /\ used <= Budget
  /\ \A a \in Actors, f \in Files : rs[a][f].index = rs[a][f].version
=============================================================================
