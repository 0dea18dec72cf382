------------------------------ MODULE LoadRun ------------------------------
(***************************************************************************)
(* One load after another into one checkpoint: load (cmd/tsm2arc/run.go)   *)
(* checks every measurement name before the first request (census.go) and  *)
(* then migrates the shards a bounded number at a time; the first error    *)
(* cancels the shards in flight, and a later run resumes what is not done. *)
(*                                                                         *)
(* A shard is a sequence of parts, in the order of extraction; a part is   *)
(* the data of one name in one block or log entry.  Here a chunk is one    *)
(* part: how loadShard cuts, sends and commits its chunks is ShardLoad's   *)
(* and ChunkAudit's subject.                                               *)
(***************************************************************************)
EXTENDS Naturals, FiniteSets, Sequences

CONSTANTS
  N,         \* number of shards; the jobs are 1 .. N
  Workers,   \* cfg.workers: --workers, at least 1
  Sources,   \* [kind |-> "tsm" or "v3", parts |-> for each shard its parts]
  Names,     \* measurement names
  Valid,     \* those Arc accepts
  Flags,     \* what an operator may pass: [policy, map, waldir]
  MaxRuns    \* bound: runs of the program

Jobs == 1 .. N

\* in: a point of it is in [start, end]; edge: its block meets the window but
\* no point of it is in there; out: neither.
Parts == [name : Names, span : {"in", "edge", "out"}, home : {"tsm", "wal"}]

ASSUME ConstantsAssumption ==
  /\ N \in Nat \ {0} /\ Workers \in Nat \ {0} /\ MaxRuns \in Nat
  /\ \A src \in Sources :
       /\ src.kind \in {"tsm", "v3"}
       /\ src.parts \in [Jobs -> Seq(Parts)]
       /\ src.kind = "v3" =>
            \A s \in Jobs : \A i, j \in DOMAIN src.parts[s] :
              src.parts[s][i].name = src.parts[s][j].name /\ src.parts[s][i].home = "tsm"
  /\ Valid \subseteq Names
  /\ \A f \in Flags :
       /\ f.policy \in {"fail", "skip", "map"}
       /\ f.map \subseteq Names
       /\ f.waldir \in BOOLEAN

VARIABLES
  source,    \* the data directory, the same for every run
  config,    \* checkpoint: <<>>, or <<the fingerprint>>
  done,      \* checkpoint: shards marked done
  progress,  \* checkpoint: the part of each shard's cursor, 0 without one
  arc,       \* the parts Arc holds, per shard
  runs, flags,
  phase,     \* "down", "census", "load"
  toCheck,   \* shards the census has still to read
  names,     \* the names it has found
  failed,    \* g.err: "none", or the first error of the group
  cancelled, \* gctx is cancelled
  next,      \* the first job not yet launched
  job,       \* "queued", "running", "posting", "over"
  at,        \* the part a job is at
  sent,      \* this run has put a request on the wire
  outcome    \* what the last run returned: "none" if it was killed

ckpt == <<config, done, progress>>
census == <<toCheck, names>>
group == <<failed, cancelled, next, job, at>>
vars == <<source, ckpt, arc, runs, flags, phase, census, group, sent, outcome>>

-----------------------------------------------------------------------------
(* Names.                                                                  *)

PartsOf(s) == source.parts[s]
Fingerprint(f) == [policy |-> f.policy, map |-> f.map]

Resolve(n) ==
  IF n \in flags.map THEN "renamed"
  ELSE IF n \in Valid THEN "pass"
  ELSE [fail |-> "invalid", skip |-> "skipped", map |-> "renamed"][flags.policy]

\* Without --waldir discovery lists no log files.
Listed(p) == p.home = "wal" => flags.waldir

\* A shard with nothing listed is not a job, and is never marked done.
Discovered(s) == \E i \in DOMAIN PartsOf(s) : Listed(PartsOf(s)[i])

Emitted(p) == Listed(p) /\ p.span = "in"

\* Slip: the log is not looked at.
IntersectsBlocks(p) == p.span # "out" /\ p.home = "tsm"

\* A block counts if it meets the window, a log value if it is in it.
Intersects(p) == p.span = "in" \/ (p.span = "edge" /\ p.home = "tsm")

\* A 3.x table counts by its name alone, whatever its data.
NamesOf(s) ==
  {p.name : p \in {q \in {PartsOf(s)[i] : i \in DOMAIN PartsOf(s)} :
                     Listed(q) /\ (source.kind = "v3" \/ Intersects(q))}}

\* The shards the census reads: 3.x tables even if they are done.
Counted == IF source.kind = "v3" THEN Jobs ELSE Jobs \ done

-----------------------------------------------------------------------------
(* A run begins: main, and censusMeasurements.                             *)

Init ==
  /\ source \in Sources
  /\ config = <<>> /\ done = {} /\ progress = [s \in Jobs |-> 0]
  /\ arc = [s \in Jobs |-> {}]
  /\ runs = 0 /\ flags \in Flags
  /\ phase = "down"
  /\ toCheck = {} /\ names = {}
  /\ failed = "none" /\ cancelled = FALSE /\ next = 1
  /\ job = [s \in Jobs |-> "queued"] /\ at = [s \in Jobs |-> 0]
  /\ sent = FALSE
  /\ outcome = "none"

StartRun(f) ==
  /\ phase = "down" /\ runs < MaxRuns
  /\ config \in {<<>>, <<Fingerprint(f)>>}
  /\ config' = <<Fingerprint(f)>>
  /\ runs' = runs + 1 /\ flags' = f
  /\ phase' = IF f.policy = "fail" THEN "census" ELSE "load"
  /\ toCheck' = Counted /\ names' = {}
  /\ failed' = "none" /\ cancelled' = FALSE /\ next' = 1
  /\ job' = [s \in Jobs |-> "queued"] /\ at' = [s \in Jobs |-> 0]
  /\ sent' = FALSE
  /\ outcome' = "none"
  /\ UNCHANGED <<source, done, progress, arc>>

\* CheckConfig: a resume with other names or another policy.
RefuseRun(f) ==
  /\ phase = "down" /\ runs < MaxRuns
  /\ config \notin {<<>>, <<Fingerprint(f)>>}
  /\ runs' = runs + 1 /\ flags' = f
  /\ failed' = "none" /\ sent' = FALSE
  /\ outcome' = "refused"
  /\ UNCHANGED <<source, ckpt, arc, phase, census, cancelled, next, job, at>>

Return(result) ==
  /\ phase' = "down"
  /\ outcome' = result

CensusShard(s) ==
  /\ phase = "census" /\ s \in toCheck
  /\ toCheck' = toCheck \ {s}
  /\ names' = names \cup NamesOf(s)
  /\ UNCHANGED <<source, ckpt, arc, runs, flags, phase, group, sent, outcome>>

\* A file or the checkpoint cannot be read; the 3.x census reads nothing.
CensusFails ==
  /\ phase = "census" /\ toCheck # {}
  /\ source.kind = "tsm"
  /\ Return("failed")
  /\ UNCHANGED <<source, ckpt, arc, runs, flags, census, group, sent>>

CensusDone == phase = "census" /\ toCheck = {}

Invalid == {n \in names : Resolve(n) = "invalid"}

CensusRefuses ==
  /\ CensusDone /\ Invalid # {}
  /\ Return("census")
  /\ UNCHANGED <<source, ckpt, arc, runs, flags, census, group, sent>>

CensusPasses ==
  /\ CensusDone /\ Invalid = {}
  /\ phase' = "load"
  /\ UNCHANGED <<source, ckpt, arc, runs, flags, census, group, sent, outcome>>

-----------------------------------------------------------------------------
(* The group of shards: errgroup over loadShard.                           *)

\* Slip: a shard that failed keeps its place.
BusyUnlessDone == {s \in Jobs : job[s] # "queued" /\ (job[s] = "over" => s \notin done)}

Busy == {s \in Jobs : job[s] \in {"running", "posting"}}

\* Behind the cursor, or at the start.
ResumePart(s) == progress[s] + 1

\* g.Go waits for a place and goes on launching after a failure; a shard done
\* returns at once.
Launch ==
  /\ phase = "load" /\ next <= N
  /\ Cardinality(Busy) < Workers
  /\ next' = next + 1
  /\ job' = [job EXCEPT ![next] = IF next \in done \/ ~Discovered(next) THEN "over" ELSE "running"]
  /\ at' = [at EXCEPT ![next] = ResumePart(next)]
  /\ UNCHANGED <<source, ckpt, arc, runs, flags, phase, census, failed, cancelled, sent, outcome>>

\* Slip: the last error wins.
FirstErrorLast(e) == e

FirstError(e) == IF failed = "none" THEN e ELSE failed

End(s, e) ==
  /\ job' = [job EXCEPT ![s] = "over"]
  /\ failed' = FirstError(e)
  /\ cancelled' = TRUE
  /\ UNCHANGED <<next, at>>

Current(s) == PartsOf(s)[at[s]]
Extracting(s) == phase = "load" /\ job[s] = "running"
AtPart(s) == Extracting(s) /\ at[s] <= Len(PartsOf(s))
Meets(s, resolution) == AtPart(s) /\ Emitted(Current(s)) /\ Resolve(Current(s).name) = resolution
Kept(s) == Meets(s, "pass") \/ Meets(s, "renamed")

\* Pruned unread, or of a skipped name.
PassOver(s) ==
  /\ AtPart(s)
  /\ Emitted(Current(s)) => Resolve(Current(s).name) = "skipped"
  /\ at' = [at EXCEPT ![s] = @ + 1]
  /\ UNCHANGED <<source, ckpt, arc, runs, flags, phase, census, failed, cancelled, next, job, sent, outcome>>

\* A chunk goes out unless the context is cancelled.
Post(s) ==
  /\ Kept(s)
  /\ ~ cancelled
  /\ job' = [job EXCEPT ![s] = "posting"]
  /\ sent' = TRUE
  /\ UNCHANGED <<source, ckpt, arc, runs, flags, phase, census, failed, cancelled, next, at, outcome>>

Stored(s) == [arc EXCEPT ![s] = @ \cup {at[s]}]

Commit(s) ==
  /\ phase = "load" /\ job[s] = "posting"
  /\ arc' = Stored(s)
  /\ progress' = [progress EXCEPT ![s] = at[s]]
  /\ job' = [job EXCEPT ![s] = "running"]
  /\ at' = [at EXCEPT ![s] = @ + 1]
  /\ UNCHANGED <<source, config, done, runs, flags, phase, census, failed, cancelled, next, sent, outcome>>

\* Arc's last answer is an error, or there is none; the data may be stored.
PostFails(s) ==
  /\ phase = "load" /\ job[s] = "posting"
  /\ arc' \in {arc, Stored(s)}
  /\ End(s, IF cancelled THEN "cancelled" ELSE "failed")
  /\ UNCHANGED <<source, ckpt, runs, flags, phase, census, sent, outcome>>

\* submit, or the request itself, finds the context cancelled.
StopCancelled(s) ==
  /\ Kept(s)
  /\ cancelled
  /\ End(s, "cancelled")
  /\ UNCHANGED <<source, ckpt, arc, runs, flags, phase, census, sent, outcome>>

\* A point has an invalid name; or a file or the checkpoint cannot be read, or
\* the done mark not be written.
ShardFails(s) ==
  /\ Extracting(s)
  /\ End(s, IF Meets(s, "invalid") THEN "invalid" ELSE "failed")
  /\ UNCHANGED <<source, ckpt, arc, runs, flags, phase, census, sent, outcome>>

\* The done mark does not look at the context.
FinishShard(s) ==
  /\ Extracting(s) /\ ~ AtPart(s)
  /\ done' = done \cup {s}
  /\ job' = [job EXCEPT ![s] = "over"]
  /\ UNCHANGED <<source, config, progress, arc, runs, flags, phase, census, failed, cancelled, next, at, sent, outcome>>

AllOver == \A s \in Jobs : job[s] = "over"

LoadReturns ==
  /\ phase = "load" /\ AllOver
  /\ Return(IF failed = "none" THEN "ok" ELSE failed)
  /\ UNCHANGED <<source, ckpt, arc, runs, flags, census, group, sent>>

\* The process is killed, by a signal or otherwise: main installs no handler.
\* A request on the wire may still be stored.
Crash ==
  /\ phase # "down"
  /\ Return("none")
  /\ \E stored \in SUBSET {s \in Jobs : job[s] = "posting"} :
       arc' = [s \in Jobs |-> IF s \in stored THEN arc[s] \cup {at[s]} ELSE arc[s]]
  /\ job' = [s \in Jobs |-> IF job[s] = "posting" THEN "over" ELSE job[s]]
  /\ UNCHANGED <<source, ckpt, runs, flags, census, failed, cancelled, next, at, sent>>

ShardStep(s) ==
  \/ PassOver(s) \/ Post(s) \/ Commit(s) \/ PostFails(s)
  \/ StopCancelled(s) \/ ShardFails(s) \/ FinishShard(s)

LoadStep == CensusFails \/ CensusRefuses \/ CensusPasses \/ Launch \/ LoadReturns

Next ==
  \/ \E f \in Flags : StartRun(f) \/ RefuseRun(f)
  \/ \E s \in Jobs : CensusShard(s) \/ ShardStep(s)
  \/ LoadStep
  \/ Crash

Spec == Init /\ [][Next]_vars

\* The goroutines run; a request ends, at the latest when its attempts time out.
FairSpec ==
  /\ Spec
  /\ WF_vars(LoadStep)
  /\ \A s \in Jobs : WF_vars(CensusShard(s)) /\ WF_vars(ShardStep(s))

-----------------------------------------------------------------------------
(* Properties.                                                             *)

\* Types of all variables.
TypeOK ==
  /\ source \in Sources
  /\ config \in {<<>>} \cup {<<Fingerprint(f)>> : f \in Flags}
  /\ done \subseteq Jobs
  /\ progress \in [Jobs -> Nat] /\ arc \in [Jobs -> SUBSET Nat]
  /\ job \in [Jobs -> {"queued", "running", "posting", "over"}] /\ at \in [Jobs -> Nat]
  /\ \A s \in Jobs : /\ progress[s] \in 0 .. Len(PartsOf(s))
                     /\ arc[s] \subseteq DOMAIN PartsOf(s)
                     /\ at[s] \in 0 .. Len(PartsOf(s)) + 1
  /\ runs \in 0 .. MaxRuns /\ flags \in Flags
  /\ phase \in {"down", "census", "load"}
  /\ toCheck \subseteq Jobs /\ names \subseteq Names
  /\ failed \in {"none", "failed", "invalid", "cancelled"}
  /\ cancelled \in BOOLEAN /\ sent \in BOOLEAN
  /\ next \in 1 .. N + 1
  /\ outcome \in {"none", "refused", "census", "ok", "failed", "invalid", "cancelled"}

\* Under the fail policy one invalid name with data to migrate, in any shard
\* that is not done, keeps every shard from sending anything, and no shard
\* fails on a name after the census: what the census reads from indexes and
\* logs is never less than what extraction emits (census.go's first comment).
BadNamesStopEverything ==
  flags.policy = "fail" =>
    /\ failed # "invalid"
    /\ sent => \A s \in Jobs \ done : \A i \in progress[s] + 1 .. Len(PartsOf(s)) :
                 Emitted(PartsOf(s)[i]) => Resolve(PartsOf(s)[i].name) # "invalid"

Wanted(s) ==
  {i \in DOMAIN PartsOf(s) : Emitted(PartsOf(s)[i]) /\ Resolve(PartsOf(s)[i].name) \in {"pass", "renamed"}}

\* What the operator may conclude from a run: success means that every shard
\* discovered is done and that all its wanted blocks are in Arc; an error is the
\* first one and never another shard's cancellation; and the census complains
\* of a 1.x/2.x name only if data of it meets the window in a shard not done.
OutcomeHonest ==
  /\ outcome = "ok" =>
       /\ {s \in Jobs : Discovered(s)} \subseteq done
       /\ \A s \in Jobs : \A i \in Wanted(s) : PartsOf(s)[i].home = "tsm" => i \in arc[s]
  /\ outcome # "cancelled"
  /\ outcome = "census" /\ source.kind = "tsm" =>
       \E s \in Jobs \ done : \E i \in DOMAIN PartsOf(s) :
         PartsOf(s)[i].span # "out" /\ Resolve(PartsOf(s)[i].name) = "invalid"

\* Every run ends, whichever shards fail: the places of failed shards are
\* given back and the launches after a failure end as well.
RunReturns == phase # "down" ~> phase = "down"

\* A later run with the log directory adds what the log holds
\* (docs/RUNBOOK.md, WAL coverage check).
RerunAddsLog == outcome = "ok" /\ flags.waldir => \A s \in Jobs : Wanted(s) \subseteq arc[s]
=============================================================================
