---------------------------- MODULE LoadRunProofs ----------------------------
(***************************************************************************)
(* Proofs about LoadRun, for any number of shards, workers, runs and       *)
(* names, and any data.                                                    *)
(***************************************************************************)
EXTENDS LoadRun, TLAPS

Active(s) == phase = "load" /\ job[s] \in {"running", "posting"}

(* The census: what it has found are the names of the shards it has read.  *)
CensusSound ==
  phase = "census" =>
    /\ flags.policy = "fail" /\ ~ sent
    /\ toCheck \subseteq Counted
    /\ \A s \in Counted \ toCheck : NamesOf(s) \subseteq names
    /\ \A n \in names : \E s \in Counted : n \in NamesOf(s)

(* A load that has passed it finds no invalid name in what is left to do.  *)
Clean ==
  flags.policy = "fail" /\ (sent \/ phase = "load") =>
    \A s \in Jobs \ done : \A n \in NamesOf(s) : Resolve(n) # "invalid"

(* The group's error, and what became of its jobs.                         *)
Group ==
  /\ failed # "cancelled"
  /\ flags.policy = "fail" => failed # "invalid"
  /\ phase = "load" /\ cancelled => failed # "none"
  /\ phase = "census" => failed = "none"
  /\ \A s \in Jobs : job[s] = "posting" => at[s] \in DOMAIN PartsOf(s)
  /\ \A s \in Jobs : Active(s) => s \notin done
  /\ \A s \in Jobs : phase = "load" /\ job[s] = "over" /\ failed = "none"
                       => s \in done \/ ~ Discovered(s)

(* Before the first launch, and from a job's launch on.                    *)
Idle == phase = "census" => ~ cancelled /\ \A s \in Jobs : job[s] = "queued"

Started == \A s \in Jobs : job[s] \in {"running", "posting"} => at[s] >= 1

(* A run has no outcome before it ends.                                    *)
Running == phase # "down" => outcome = "none"

(* What a run does with a name depends on the fingerprint of its flags     *)
(* only, so that a resume goes on with what an earlier run has begun.      *)
ResolveAs(c, n) ==
  IF n \in c.map THEN "renamed"
  ELSE IF n \in Valid THEN "pass"
  ELSE [fail |-> "invalid", skip |-> "skipped", map |-> "renamed"][c.policy]

WantedAs(c, s) ==
  {i \in DOMAIN PartsOf(s) :
     /\ PartsOf(s)[i].home = "tsm" /\ PartsOf(s)[i].span = "in"
     /\ ResolveAs(c, PartsOf(s)[i].name) \in {"pass", "renamed"}}

Fingerprinted ==
  /\ phase # "down" \/ outcome = "ok" => config = <<Fingerprint(flags)>>
  /\ config = <<>> => done = {} /\ \A s \in Jobs : progress[s] = 0

Delivered ==
  config # <<>> =>
    \A s \in Jobs : \A i \in WantedAs(config[1], s) :
      s \in done \/ i <= progress[s] \/ (Active(s) /\ i < at[s]) => i \in arc[s]

(* What the last run has told the operator.                                *)
Told ==
  /\ outcome = "ok" => {s \in Jobs : Discovered(s)} \subseteq done
  /\ outcome # "cancelled"
  /\ outcome = "census" /\ source.kind = "tsm" =>
       \E s \in Jobs \ done : \E i \in DOMAIN PartsOf(s) :
         PartsOf(s)[i].span # "out" /\ Resolve(PartsOf(s)[i].name) = "invalid"

IInv ==
  /\ TypeOK
  /\ CensusSound
  /\ Clean
  /\ Group
  /\ Idle
  /\ Started
  /\ Running
  /\ Fingerprinted
  /\ Delivered
  /\ Told

-----------------------------------------------------------------------------
(* Types                                                                   *)

\* What a source and flags are.
LEMMA Shapes ==
  ASSUME TypeOK
  PROVE  /\ N \in Nat \ {0}
         /\ source.kind \in {"tsm", "v3"} /\ source.parts \in [Jobs -> Seq(Parts)]
         /\ flags.policy \in {"fail", "skip", "map"} /\ flags \in Flags
         /\ \A s \in Jobs :
              /\ s \in Nat /\ PartsOf(s) \in Seq(Parts)
              /\ Len(PartsOf(s)) \in Nat /\ DOMAIN PartsOf(s) = 1 .. Len(PartsOf(s))
              /\ progress[s] \in Nat /\ progress[s] <= Len(PartsOf(s))
              /\ at[s] \in Nat /\ at[s] <= Len(PartsOf(s)) + 1
<1>1. /\ N \in Nat \ {0}
      /\ source.kind \in {"tsm", "v3"} /\ source.parts \in [Jobs -> Seq(Parts)]
      /\ flags.policy \in {"fail", "skip", "map"} /\ flags \in Flags
  BY ConstantsAssumption DEF TypeOK
<1>2. \A s \in Jobs : s \in Nat /\ PartsOf(s) \in Seq(Parts)
  BY <1>1 DEF Jobs, PartsOf
<1>3. \A s \in Jobs : Len(PartsOf(s)) \in Nat /\ DOMAIN PartsOf(s) = 1 .. Len(PartsOf(s))
  BY <1>2
<1>4. \A s \in Jobs : /\ progress[s] \in Nat /\ progress[s] <= Len(PartsOf(s))
                      /\ at[s] \in Nat /\ at[s] <= Len(PartsOf(s)) + 1
  BY <1>3 DEF TypeOK
<1>5. QED
  BY <1>1, <1>2, <1>3, <1>4

LEMMA TypeInit == Init => TypeOK
<1>1. SUFFICES ASSUME Init PROVE TypeOK
  OBVIOUS
<1>2. /\ N \in Nat \ {0} /\ MaxRuns \in Nat
      /\ source.parts \in [Jobs -> Seq(Parts)]
  BY <1>1, ConstantsAssumption DEF Init
<1>3. \A s \in Jobs : Len(PartsOf(s)) \in Nat
  BY <1>2 DEF PartsOf
<1>4. 0 \in 0 .. MaxRuns /\ 1 \in 1 .. N + 1
  BY <1>2
<1>5. \A s \in Jobs : progress[s] \in 0 .. Len(PartsOf(s)) /\ at[s] \in 0 .. Len(PartsOf(s)) + 1
                      /\ arc[s] \subseteq DOMAIN PartsOf(s)
  BY <1>1, <1>3 DEF Init
<1>6. /\ progress \in [Jobs -> Nat] /\ arc \in [Jobs -> SUBSET Nat]
      /\ job \in [Jobs -> {"queued", "running", "posting", "over"}] /\ at \in [Jobs -> Nat]
  BY <1>1 DEF Init
<1>7. QED
  BY <1>1, <1>4, <1>5, <1>6 DEF Init, TypeOK

(* An active job is at a part that Arc may be given.                       *)
LEMMA AtParts ==
  ASSUME TypeOK, NEW s \in Jobs, AtPart(s)
  PROVE  at[s] + 1 <= Len(PartsOf(s)) + 1 /\ at[s] + 1 \in Nat
BY Shapes DEF AtPart

LEMMA TypeNext ==
  ASSUME IInv, Next
  PROVE  TypeOK'
<1> USE DEF IInv
<1>n. /\ TypeOK /\ N \in Nat \ {0} /\ MaxRuns \in Nat /\ runs \in Nat /\ next \in Nat
      /\ \A s \in Jobs : Len(PartsOf(s)) \in Nat /\ DOMAIN PartsOf(s) = 1 .. Len(PartsOf(s))
                         /\ progress[s] \in Nat /\ progress[s] <= Len(PartsOf(s))
                         /\ at[s] \in Nat /\ at[s] <= Len(PartsOf(s)) + 1
  BY Shapes, ConstantsAssumption DEF TypeOK
<1>p. source' = source
  BY DEF Next, StartRun, RefuseRun, CensusShard, ShardStep, PassOver, Post, Commit,
         PostFails, StopCancelled, ShardFails, FinishShard, LoadStep, CensusFails,
         CensusRefuses, CensusPasses, Launch, LoadReturns, Crash
<1>q. \A s \in Jobs : PartsOf(s)' = PartsOf(s)
  BY <1>p DEF PartsOf
<1>z. [s \in Jobs |-> "queued"] \in [Jobs -> {"queued", "running", "posting", "over"}]
      /\ [s \in Jobs |-> 0] \in [Jobs -> Nat]
  OBVIOUS
<1>1. ASSUME NEW f \in Flags, StartRun(f) PROVE TypeOK'
  <2>1. runs + 1 \in 0 .. MaxRuns /\ 1 \in 1 .. N + 1
    BY <1>1, <1>n DEF StartRun
  <2>2. Counted \subseteq Jobs
    BY DEF Counted
  <2>3. \A s \in Jobs : at'[s] = 0
    BY <1>1 DEF StartRun
  <2>4. \A s \in Jobs : at'[s] \in 0 .. Len(PartsOf(s)) + 1
    BY <2>3, <1>n
  <2>5. config' \in {<<>>} \cup {<<Fingerprint(g)>> : g \in Flags}
    BY <1>1 DEF StartRun
  <2>6. UNCHANGED <<source, done, progress, arc>> /\ runs' = runs + 1 /\ flags' = f
        /\ phase' \in {"census", "load"} /\ toCheck' = Counted /\ names' = {}
        /\ failed' = "none" /\ cancelled' = FALSE /\ next' = 1 /\ sent' = FALSE
        /\ outcome' = "none"
        /\ job' = [s \in Jobs |-> "queued"] /\ at' = [s \in Jobs |-> 0]
    BY <1>1 DEF StartRun
  <2>7. QED
    BY <2>1, <2>2, <2>4, <2>5, <2>6, <1>n, <1>q, <1>z DEF TypeOK
<1>2. ASSUME NEW f \in Flags, RefuseRun(f) PROVE TypeOK'
  <2>1. runs + 1 \in 0 .. MaxRuns
    BY <1>2, <1>n DEF RefuseRun
  <2>2. QED
    BY <1>2, <2>1, <1>n, <1>q DEF TypeOK, RefuseRun, ckpt, census
<1>3. ASSUME NEW s \in Jobs, CensusShard(s) PROVE TypeOK'
  <2>1. NamesOf(s) \subseteq Names
    <3>1. PartsOf(s) \in Seq(Parts) /\ DOMAIN PartsOf(s) = 1 .. Len(PartsOf(s))
      BY Shapes, <1>n
    <3>2. \A i \in DOMAIN PartsOf(s) : PartsOf(s)[i] \in Parts
      BY <3>1
    <3>3. \A p \in Parts : p.name \in Names
      BY DEF Parts
    <3>4. QED
      BY <3>2, <3>3 DEF NamesOf
  <2>2. QED
    BY <1>3, <2>1, <1>n, <1>q DEF TypeOK, CensusShard, ckpt, group
<1>4. CASE CensusFails \/ CensusRefuses \/ CensusPasses
  BY <1>4, <1>n, <1>q DEF TypeOK, CensusFails, CensusRefuses, CensusPasses, Return, ckpt,
     census, group
<1>5. CASE LoadReturns
  BY <1>5, <1>n, <1>q DEF TypeOK, LoadReturns, Return, ckpt, census, group
<1>6. CASE Launch
  <2>1. next \in Jobs /\ next + 1 \in 1 .. N + 1
    BY <1>6, <1>n, SMTT(20) DEF Launch, Jobs, TypeOK
  <2>2. ResumePart(next) \in 0 .. Len(PartsOf(next)) + 1 /\ ResumePart(next) \in Nat
    BY <2>1, <1>n DEF ResumePart
  <2>3. at' = [at EXCEPT ![next] = ResumePart(next)]
        /\ job' = [job EXCEPT ![next] = IF next \in done \/ ~Discovered(next) THEN "over" ELSE "running"]
    BY <1>6 DEF Launch
  <2>4. at' \in [Jobs -> Nat] /\ job' \in [Jobs -> {"queued", "running", "posting", "over"}]
    BY <2>1, <2>2, <2>3, <1>n DEF TypeOK
  <2>5. \A s \in Jobs : at'[s] \in 0 .. Len(PartsOf(s)) + 1
    BY <2>1, <2>2, <2>3, <1>n DEF TypeOK
  <2>6. QED
    BY <1>6, <2>1, <2>4, <2>5, <1>n, <1>q DEF TypeOK, Launch, ckpt, census
<1>7. ASSUME NEW s \in Jobs, PassOver(s) PROVE TypeOK'
  <2>1. at[s] + 1 \in 0 .. Len(PartsOf(s)) + 1 /\ at[s] + 1 \in Nat
    BY <1>7, <1>n DEF PassOver, AtPart
  <2>2. at' = [at EXCEPT ![s] = at[s] + 1]
    BY <1>7 DEF PassOver
  <2>3. at' \in [Jobs -> Nat] /\ \A r \in Jobs : at'[r] \in 0 .. Len(PartsOf(r)) + 1
    BY <2>1, <2>2, <1>n DEF TypeOK
  <2>4. QED
    BY <1>7, <2>3, <1>n, <1>q DEF TypeOK, PassOver, ckpt, census
<1>8. ASSUME NEW s \in Jobs, Post(s) PROVE TypeOK'
  <2>1. job' \in [Jobs -> {"queued", "running", "posting", "over"}]
    BY <1>8, <1>n DEF Post, TypeOK
  <2>2. QED
    BY <1>8, <2>1, <1>n, <1>q DEF TypeOK, Post, ckpt, census
<1>9. ASSUME NEW s \in Jobs, job[s] = "posting"
      PROVE  /\ Stored(s) \in [Jobs -> SUBSET Nat]
             /\ \A r \in Jobs : Stored(s)[r] \subseteq DOMAIN PartsOf(r)
  <2>1. at[s] \in DOMAIN PartsOf(s) /\ at[s] \in Nat
    BY <1>9, <1>n DEF Group
  <2>2. QED
    BY <2>1, <1>n DEF Stored, TypeOK
<1>10. ASSUME NEW s \in Jobs, Commit(s) PROVE TypeOK'
  <2>1. at[s] \in 1 .. Len(PartsOf(s)) /\ job[s] = "posting"
    BY <1>10, <1>n DEF Group, Commit
  <2>2. at[s] + 1 \in 0 .. Len(PartsOf(s)) + 1 /\ at[s] + 1 \in Nat /\ at[s] \in 0 .. Len(PartsOf(s))
    BY <2>1, <1>n
  <2>3. at' = [at EXCEPT ![s] = at[s] + 1] /\ progress' = [progress EXCEPT ![s] = at[s]]
        /\ job' = [job EXCEPT ![s] = "running"] /\ arc' = Stored(s)
    BY <1>10 DEF Commit
  <2>4. at' \in [Jobs -> Nat] /\ \A r \in Jobs : at'[r] \in 0 .. Len(PartsOf(r)) + 1
    BY <2>2, <2>3, <1>n DEF TypeOK
  <2>5. progress' \in [Jobs -> Nat] /\ \A r \in Jobs : progress'[r] \in 0 .. Len(PartsOf(r))
    BY <2>2, <2>3, <1>n DEF TypeOK
  <2>6. job' \in [Jobs -> {"queued", "running", "posting", "over"}]
    BY <2>3, <1>n DEF TypeOK
  <2>7. arc' \in [Jobs -> SUBSET Nat] /\ \A r \in Jobs : arc'[r] \subseteq DOMAIN PartsOf(r)
    BY <2>1, <2>3, <1>9
  <2>8. QED
    BY <1>10, <2>4, <2>5, <2>6, <2>7, <1>n, <1>q DEF TypeOK, Commit, census
<1>11. ASSUME NEW s \in Jobs, NEW e \in {"failed", "invalid", "cancelled"}, End(s, e),
              UNCHANGED <<source, ckpt, runs, flags, phase, census, sent, outcome>>,
              arc' = arc \/ (job[s] = "posting" /\ arc' = Stored(s))
       PROVE  TypeOK'
  <2>1. job' \in [Jobs -> {"queued", "running", "posting", "over"}]
        /\ failed' \in {"none", "failed", "invalid", "cancelled"}
        /\ cancelled' = TRUE /\ UNCHANGED <<next, at>>
    BY <1>11, <1>n DEF End, FirstError, TypeOK
  <2>2. arc' \in [Jobs -> SUBSET Nat] /\ \A r \in Jobs : arc'[r] \subseteq DOMAIN PartsOf(r)
    BY <1>11, <1>9, <1>n DEF TypeOK
  <2>3. QED
    BY <1>11, <2>1, <2>2, <1>n, <1>q DEF TypeOK, ckpt, census
<1>12. ASSUME NEW s \in Jobs, PostFails(s) PROVE TypeOK'
  BY <1>12, <1>11 DEF PostFails
<1>13. ASSUME NEW s \in Jobs, StopCancelled(s) PROVE TypeOK'
  BY <1>13, <1>11 DEF StopCancelled
<1>14. ASSUME NEW s \in Jobs, ShardFails(s) PROVE TypeOK'
  BY <1>14, <1>11 DEF ShardFails
<1>15. ASSUME NEW s \in Jobs, FinishShard(s) PROVE TypeOK'
  <2>1. job' \in [Jobs -> {"queued", "running", "posting", "over"}]
    BY <1>15, <1>n DEF FinishShard, TypeOK
  <2>2. QED
    BY <1>15, <2>1, <1>n, <1>q DEF TypeOK, FinishShard, census
<1>16. CASE Crash
  <2>1. PICK stored \in SUBSET {s \in Jobs : job[s] = "posting"} :
          arc' = [s \in Jobs |-> IF s \in stored THEN arc[s] \cup {at[s]} ELSE arc[s]]
    BY <1>16 DEF Crash
  <2>2. \A s \in stored : at[s] \in DOMAIN PartsOf(s) /\ at[s] \in Nat
    BY <2>1, <1>n DEF Group
  <2>3. arc' \in [Jobs -> SUBSET Nat] /\ \A r \in Jobs : arc'[r] \subseteq DOMAIN PartsOf(r)
    BY <2>1, <2>2, <1>n DEF TypeOK
  <2>4. job' \in [Jobs -> {"queued", "running", "posting", "over"}]
    BY <1>16, <1>n DEF Crash, TypeOK
  <2>5. QED
    BY <1>16, <2>3, <2>4, <1>n, <1>q DEF TypeOK, Crash, Return, ckpt, census
<1>17. QED
  BY <1>1, <1>2, <1>3, <1>4, <1>5, <1>6, <1>7, <1>8, <1>10, <1>12, <1>13, <1>14,
     <1>15, <1>16 DEF Next, ShardStep, LoadStep

-----------------------------------------------------------------------------
(* The census                                                              *)

\* Without the fail policy no name is invalid.
LEMMA InvalidFails ==
  ASSUME TypeOK, NEW n, Resolve(n) = "invalid"
  PROVE  flags.policy = "fail"
BY Shapes DEF Resolve

(* The parts of a shard that extraction emits have names the census finds: *)
(* it looks at the same parts, and at more of them.                        *)
LEMMA CensusSeesAll ==
  ASSUME TypeOK, NEW s \in Jobs, NEW i \in DOMAIN PartsOf(s), Emitted(PartsOf(s)[i])
  PROVE  PartsOf(s)[i].name \in NamesOf(s)
BY DEF Emitted, NamesOf, Intersects

\* The names depend on the data and on the flags alone.
LEMMA NamesStay ==
  ASSUME UNCHANGED <<source, flags>>
  PROVE  /\ \A s \in Jobs : NamesOf(s)' = NamesOf(s)
         /\ \A n : Resolve(n)' = Resolve(n)
         /\ \A s \in Jobs : PartsOf(s)' = PartsOf(s)
         /\ \A s \in Jobs : Discovered(s)' = Discovered(s)
BY DEF NamesOf, Resolve, PartsOf, Listed, Intersects, Discovered

\* What the steps of a run leave as it is.
LEMMA Fixed ==
  ASSUME Next
  PROVE  /\ source' = source
         /\ phase = "down" \/ UNCHANGED <<flags, config, runs>>
         /\ done \subseteq done'
         /\ phase # "load" => done' = done
BY DEF Next, StartRun, RefuseRun, CensusShard, ShardStep, PassOver, Post, Commit,
       PostFails, StopCancelled, ShardFails, FinishShard, LoadStep, CensusFails,
       CensusRefuses, CensusPasses, Launch, LoadReturns, Crash, ckpt, Extracting

LEMMA CensusSoundNext ==
  ASSUME IInv, Next
  PROVE  CensusSound'
<1> USE DEF IInv
<1>1. ASSUME NEW f \in Flags, StartRun(f) PROVE CensusSound'
  <2>1. phase' = (IF f.policy = "fail" THEN "census" ELSE "load") /\ flags' = f
        /\ sent' = FALSE /\ toCheck' = Counted /\ names' = {} /\ UNCHANGED <<source, done>>
    BY <1>1 DEF StartRun
  <2>2. Counted' = Counted
    BY <2>1 DEF Counted
  <2>3. QED
    BY <2>1, <2>2 DEF CensusSound
<1>2. ASSUME NEW f \in Flags, RefuseRun(f) PROVE CensusSound'
  BY <1>2 DEF RefuseRun, CensusSound
<1>3. ASSUME NEW s \in Jobs, CensusShard(s) PROVE CensusSound'
  <2>1. UNCHANGED <<source, flags, done, phase, sent>> /\ phase = "census" /\ s \in toCheck
        /\ toCheck' = toCheck \ {s} /\ names' = names \cup NamesOf(s)
    BY <1>3 DEF CensusShard, ckpt
  <2>2. Counted' = Counted /\ Counted \subseteq Jobs
    BY <2>1 DEF Counted
  <2>3. \A r \in Counted : NamesOf(r)' = NamesOf(r)
    BY <2>1, <2>2, NamesStay
  <2>4. s \in Counted
    BY <2>1 DEF CensusSound
  <2>5. \A r \in Counted \ toCheck' : NamesOf(r) \subseteq names'
    BY <2>1 DEF CensusSound
  <2>6. \A n \in names' : \E r \in Counted : n \in NamesOf(r)
    BY <2>1, <2>4 DEF CensusSound
  <2>7. QED
    BY <2>1, <2>2, <2>3, <2>5, <2>6 DEF CensusSound
<1>4. CASE phase' # "census"
  BY <1>4 DEF CensusSound
<1>5. QED
  <2>1. CASE CensusFails \/ CensusRefuses \/ CensusPasses \/ LoadReturns \/ Crash
    BY <2>1, <1>4 DEF CensusFails, CensusRefuses, CensusPasses, LoadReturns, Crash, Return
  <2>2. CASE Launch \/ \E s \in Jobs : ShardStep(s)
    BY <2>2, <1>4 DEF Launch, ShardStep, PassOver, Post, Commit, PostFails, StopCancelled,
       ShardFails, FinishShard, Kept, Meets, AtPart, Extracting
  <2>3. QED
    BY <1>1, <1>2, <1>3, <2>1, <2>2 DEF Next, LoadStep

LEMMA CleanNext ==
  ASSUME IInv, Next
  PROVE  Clean'
<1> USE DEF IInv
<1>n. TypeOK /\ Clean
  OBVIOUS
<1>1. ASSUME NEW f \in Flags, StartRun(f) PROVE Clean'
  BY <1>1 DEF StartRun, Clean
<1>2. ASSUME NEW f \in Flags, RefuseRun(f) PROVE Clean'
  BY <1>2 DEF RefuseRun, Clean
<1>3. CASE CensusPasses
  <2>1. UNCHANGED <<source, flags, done>> /\ phase = "census" /\ toCheck = {} /\ Invalid = {}
    BY <1>3 DEF CensusPasses, CensusDone, ckpt
  <2>2. \A n \in names : Resolve(n) # "invalid"
    BY <2>1 DEF Invalid
  <2>3. Jobs \ done \subseteq Counted
    BY DEF Counted
  <2>4. \A s \in Jobs \ done : NamesOf(s) \subseteq names
    BY <2>1, <2>3 DEF CensusSound
  <2>5. QED
    BY <2>1, <2>2, <2>4, NamesStay DEF Clean
<1>4. CASE /\ UNCHANGED <<source, flags>> /\ done \subseteq done'
           /\ sent' \/ phase' = "load" => sent \/ phase = "load"
  <2>1. \A s \in Jobs : NamesOf(s)' = NamesOf(s)
    BY <1>4, NamesStay
  <2>2. \A n : Resolve(n)' = Resolve(n)
    BY <1>4, NamesStay
  <2>3. SUFFICES ASSUME flags'.policy = "fail", sent' \/ phase' = "load",
                        NEW s \in Jobs \ done', NEW n \in NamesOf(s)'
                 PROVE  Resolve(n)' # "invalid"
    BY DEF Clean
  <2>4. s \in Jobs \ done /\ n \in NamesOf(s) /\ flags.policy = "fail" /\ (sent \/ phase = "load")
    BY <2>1, <2>3, <1>4
  <2>5. QED
    BY <2>2, <2>4 DEF Clean
<1>5. CASE \/ CensusFails \/ CensusRefuses \/ LoadReturns \/ Crash \/ Launch
           \/ \E s \in Jobs : CensusShard(s)
  BY <1>4, <1>5 DEF CensusFails, CensusRefuses, LoadReturns, Crash, Return, Launch,
     CensusShard, ckpt
<1>6. ASSUME NEW s \in Jobs, ShardStep(s) PROVE Clean'
  <2>1. phase = "load"
    BY <1>6 DEF ShardStep, PassOver, Post, Commit, PostFails, StopCancelled,
       ShardFails, FinishShard, Kept, Meets, AtPart, Extracting
  <2>2. UNCHANGED <<source, flags>> /\ done \subseteq done'
    BY <1>6 DEF ShardStep, PassOver, Post, Commit, PostFails, StopCancelled,
       ShardFails, FinishShard, ckpt
  <2>3. QED
    BY <2>1, <2>2, <1>4
<1>7. QED
  BY <1>1, <1>2, <1>3, <1>5, <1>6 DEF Next, LoadStep

-----------------------------------------------------------------------------
(* The group of shards                                                     *)

LEMMA GroupNext ==
  ASSUME IInv, Next
  PROVE  Group'
<1> USE DEF IInv
<1>n. /\ TypeOK /\ Group
      /\ job \in [Jobs -> {"queued", "running", "posting", "over"}]
      /\ at \in [Jobs -> Nat] /\ next \in 1 .. N + 1 /\ N \in Nat
      /\ cancelled \in BOOLEAN
  BY Shapes DEF TypeOK
<1>g. /\ failed # "cancelled"
      /\ flags.policy = "fail" => failed # "invalid"
      /\ phase = "load" /\ cancelled => failed # "none"
      /\ phase = "census" => failed = "none"
      /\ \A s \in Jobs : job[s] = "posting" => at[s] \in DOMAIN PartsOf(s)
      /\ \A s \in Jobs : Active(s) => s \notin done
      /\ \A s \in Jobs : phase = "load" /\ job[s] = "over" /\ failed = "none"
                           => s \in done \/ ~ Discovered(s)
  BY <1>n DEF Group
<1>p. source' = source /\ \A s \in Jobs : PartsOf(s)' = PartsOf(s)
  BY Fixed DEF PartsOf
<1>1. ASSUME NEW f \in Flags, StartRun(f) PROVE Group'
  <2>1. failed' = "none" /\ cancelled' = FALSE /\ \A s \in Jobs : job'[s] = "queued"
    BY <1>1 DEF StartRun
  <2>2. QED
    BY <2>1 DEF Group, Active
<1>2. ASSUME NEW f \in Flags, RefuseRun(f) PROVE Group'
  <2>1. failed' = "none" /\ phase = "down" /\ UNCHANGED <<phase, job, at>>
    BY <1>2 DEF RefuseRun
  <2>2. QED
    BY <2>1, <1>g, <1>p DEF Group, Active
<1>3. ASSUME UNCHANGED <<flags, failed, cancelled, job, at, done>>,
             phase' = phase \/ phase' = "down" \/ (phase = "census" /\ phase' = "load"),
             phase' = "load" /\ phase # "load" => ~ cancelled /\ \A s \in Jobs : job[s] = "queued"
      PROVE  Group'
  <2>1. \A s \in Jobs : Discovered(s)' = Discovered(s)
    BY <1>3, <1>p, NamesStay
  <2>2. CASE phase' = phase \/ phase' = "down"
    BY <2>1, <2>2, <1>3, <1>g, <1>p DEF Group, Active
  <2>3. CASE phase' = "load" /\ phase # "load"
    BY <2>1, <2>3, <1>3, <1>g, <1>p DEF Group, Active
  <2>4. QED
    BY <2>2, <2>3, <1>3
<1>4. CASE CensusFails \/ CensusRefuses \/ LoadReturns \/ \E s \in Jobs : CensusShard(s)
  BY <1>4, <1>3 DEF CensusFails, CensusRefuses, LoadReturns, Return, CensusShard, ckpt, group
<1>6. CASE Launch
  <2>1. next \in Jobs
    BY <1>6, <1>n DEF Launch, Jobs
  <2>2. /\ UNCHANGED <<flags, failed, cancelled, done, phase>> /\ phase = "load"
        /\ job' = [job EXCEPT ![next] = IF next \in done \/ ~Discovered(next) THEN "over" ELSE "running"]
        /\ at' = [at EXCEPT ![next] = ResumePart(next)]
    BY <1>6 DEF Launch, ckpt
  <2>3. \A s \in Jobs : Discovered(s)' = Discovered(s)
    BY <2>2, <1>p, NamesStay
  <2>4. \A s \in Jobs : s # next => job'[s] = job[s] /\ at'[s] = at[s]
    BY <2>2, <1>n
  <2>5. job'[next] = IF next \in done \/ ~Discovered(next) THEN "over" ELSE "running"
    BY <2>1, <2>2, <1>n
  <2>6. \A s \in Jobs : job'[s] = "posting" => at'[s] \in DOMAIN PartsOf(s)'
    BY <2>4, <2>5, <1>g, <1>p
  <2>7. \A s \in Jobs : Active(s)' => s \notin done'
    BY <2>2, <2>4, <2>5, <1>g DEF Active
  <2>8. \A s \in Jobs : phase' = "load" /\ job'[s] = "over" /\ failed' = "none"
                          => s \in done' \/ ~ Discovered(s)'
    BY <2>2, <2>3, <2>4, <2>5, <1>g
  <2>9. QED
    BY <2>2, <2>6, <2>7, <2>8, <1>g DEF Group
<1>7. ASSUME NEW s \in Jobs,
             UNCHANGED <<flags, failed, cancelled, phase>>, phase = "load", Active(s),
             \/ job' = job /\ done' = done
             \/ job' = [job EXCEPT ![s] = "running"] /\ done' = done
             \/ job' = [job EXCEPT ![s] = "over"] /\ done' = done \cup {s},
             \A r \in Jobs : r # s => at'[r] = at[r],
             job'[s] # "posting"
      PROVE  Group'
  <2>1. \A r \in Jobs : Discovered(r)' = Discovered(r)
    BY <1>7, <1>p, NamesStay
  <2>2. \A r \in Jobs : r # s => job'[r] = job[r] /\ (r \in done' <=> r \in done)
    BY <1>7, <1>n
  <2>3. (job'[s] = "running" /\ s \notin done') \/ (job'[s] = "over" /\ s \in done')
    BY <1>7, <1>n, <1>g DEF Active
  <2>4. \A r \in Jobs : job'[r] = "posting" => at'[r] \in DOMAIN PartsOf(r)'
    BY <2>2, <1>7, <1>g, <1>p
  <2>5. \A r \in Jobs : Active(r)' => r \notin done'
    BY <2>2, <2>3, <1>7, <1>g DEF Active
  <2>6. \A r \in Jobs : phase' = "load" /\ job'[r] = "over" /\ failed' = "none"
                          => r \in done' \/ ~ Discovered(r)'
    BY <2>1, <2>2, <2>3, <1>7, <1>g
  <2>7. QED
    BY <2>4, <2>5, <2>6, <1>7, <1>g DEF Group
<1>8. ASSUME NEW s \in Jobs, PassOver(s) PROVE Group'
  <2>1. job[s] = "running" /\ phase = "load"
    BY <1>8 DEF PassOver, AtPart, Extracting
  <2>2. job' = job /\ done' = done /\ UNCHANGED <<flags, failed, cancelled, phase>>
        /\ at' = [at EXCEPT ![s] = at[s] + 1]
    BY <1>8 DEF PassOver, ckpt
  <2>3. \A r \in Jobs : r # s => at'[r] = at[r]
    BY <2>2, <1>n
  <2>4. QED
    BY <2>1, <2>2, <2>3, <1>7 DEF Active
<1>9. ASSUME NEW s \in Jobs, Commit(s) PROVE Group'
  <2>1. job[s] = "posting" /\ phase = "load"
    BY <1>9 DEF Commit
  <2>2. job' = [job EXCEPT ![s] = "running"] /\ done' = done
        /\ UNCHANGED <<flags, failed, cancelled, phase>>
        /\ at' = [at EXCEPT ![s] = at[s] + 1]
    BY <1>9 DEF Commit
  <2>3. job'[s] = "running" /\ \A r \in Jobs : r # s => at'[r] = at[r]
    BY <2>2, <1>n
  <2>4. QED
    BY <2>1, <2>2, <2>3, <1>7 DEF Active
<1>10. ASSUME NEW s \in Jobs, FinishShard(s) PROVE Group'
  <2>1. job[s] = "running" /\ phase = "load"
    BY <1>10 DEF FinishShard, Extracting
  <2>2. job' = [job EXCEPT ![s] = "over"] /\ done' = done \cup {s} /\ at' = at
        /\ UNCHANGED <<flags, failed, cancelled, phase>>
    BY <1>10 DEF FinishShard
  <2>3. job'[s] = "over"
    BY <2>2, <1>n
  <2>4. QED
    BY <2>1, <2>2, <2>3, <1>7 DEF Active
<1>11. ASSUME NEW s \in Jobs, Post(s) PROVE Group'
  <2>1. job[s] = "running" /\ phase = "load" /\ at[s] <= Len(PartsOf(s)) /\ ~ cancelled
    BY <1>11 DEF Post, Kept, Meets, AtPart, Extracting
  <2>2. job' = [job EXCEPT ![s] = "posting"]
        /\ UNCHANGED <<flags, failed, cancelled, phase, done, at>>
    BY <1>11 DEF Post, ckpt
  <2>3. at[s] \in DOMAIN PartsOf(s)
    <3>1. at[s] >= 1
      BY <1>11, <2>1 DEF IInv, Started
    <3>2. QED
      BY <2>1, <3>1, <1>n, Shapes
  <2>4. \A r \in Jobs : r # s => job'[r] = job[r]
    BY <2>2, <1>n
  <2>5. job'[s] = "posting"
    BY <2>2, <1>n
  <2>6. \A r \in Jobs : Discovered(r)' = Discovered(r)
    BY <2>2, <1>p, NamesStay
  <2>7. \A r \in Jobs : job'[r] = "posting" => at'[r] \in DOMAIN PartsOf(r)'
    BY <2>2, <2>3, <2>4, <1>g, <1>p
  <2>8. \A r \in Jobs : Active(r)' => r \notin done'
    BY <2>1, <2>2, <2>4, <1>g DEF Active
  <2>9. \A r \in Jobs : phase' = "load" /\ job'[r] = "over" /\ failed' = "none"
                          => r \in done' \/ ~ Discovered(r)'
    BY <2>2, <2>4, <2>5, <2>6, <1>g
  <2>10. QED
    BY <2>2, <2>7, <2>8, <2>9, <1>g DEF Group
<1>12. ASSUME NEW s \in Jobs, NEW e \in {"failed", "invalid", "cancelled"}, End(s, e),
              UNCHANGED <<flags, phase, done>>, phase = "load",
              e = "cancelled" => cancelled,
              e = "invalid" => flags.policy # "fail"
       PROVE  Group'
  <2>1. job' = [job EXCEPT ![s] = "over"] /\ failed' = (IF failed = "none" THEN e ELSE failed)
        /\ cancelled' = TRUE /\ at' = at
    BY <1>12 DEF End, FirstError
  <2>2. failed' # "none" /\ failed' # "cancelled"
        /\ (flags'.policy = "fail" => failed' # "invalid")
    BY <2>1, <1>12, <1>g
  <2>3. \A r \in Jobs : job'[r] = "posting" => job[r] = "posting"
    BY <2>1, <1>n
  <2>4. \A r \in Jobs : Active(r)' => Active(r)
    BY <2>1, <1>12, <1>n DEF Active
  <2>5. QED
    BY <2>1, <2>2, <2>3, <2>4, <1>12, <1>g, <1>p DEF Group
<1>13. ASSUME NEW s \in Jobs, PostFails(s) PROVE Group'
  BY <1>13, <1>12 DEF PostFails, ckpt
<1>14. ASSUME NEW s \in Jobs, StopCancelled(s) PROVE Group'
  BY <1>14, <1>12 DEF StopCancelled, ckpt, Kept, Meets, AtPart, Extracting
<1>15. ASSUME NEW s \in Jobs, ShardFails(s) PROVE Group'
  <2>1. job[s] = "running" /\ phase = "load" /\ UNCHANGED <<flags, phase, done>>
        /\ End(s, IF Meets(s, "invalid") THEN "invalid" ELSE "failed")
    BY <1>15 DEF ShardFails, Extracting, ckpt
  <2>2. ASSUME Meets(s, "invalid"), flags.policy = "fail" PROVE FALSE
    <3>1. at[s] <= Len(PartsOf(s)) /\ Emitted(PartsOf(s)[at[s]])
          /\ Resolve(PartsOf(s)[at[s]].name) = "invalid"
      BY <2>2 DEF Meets, AtPart, Current
    <3>2. at[s] >= 1
      BY <2>1 DEF IInv, Started
    <3>3. at[s] \in DOMAIN PartsOf(s)
      BY <3>1, <3>2, <1>n, Shapes
    <3>4. PartsOf(s)[at[s]].name \in NamesOf(s)
      BY <3>1, <3>3, <1>n, CensusSeesAll
    <3>5. s \notin done
      BY <2>1, <1>g DEF Active
    <3>6. QED
      BY <2>1, <2>2, <3>1, <3>4, <3>5 DEF Clean
  <2>3. QED
    BY <2>1, <2>2, <1>12
<1>16. CASE Crash
  <2>1. phase' = "down" /\ UNCHANGED <<flags, failed, at>>
        /\ job' = [s \in Jobs |-> IF job[s] = "posting" THEN "over" ELSE job[s]]
    BY <1>16 DEF Crash, Return
  <2>2. \A s \in Jobs : job'[s] # "posting"
    BY <2>1
  <2>3. QED
    BY <2>1, <2>2, <1>g DEF Group, Active
<1>17. CASE CensusPasses
  <2>1. UNCHANGED <<flags, failed, cancelled, job, at, done>> /\ phase = "census" /\ phase' = "load"
    BY <1>17 DEF CensusPasses, CensusDone, ckpt, group
  <2>2. ~ cancelled /\ \A s \in Jobs : job[s] = "queued"
    BY <2>1 DEF Idle
  <2>3. QED
    BY <2>1, <2>2, <1>3
<1>18. QED
  BY <1>1, <1>2, <1>4, <1>6, <1>8, <1>9, <1>10, <1>11, <1>13, <1>14, <1>15, <1>16, <1>17
  DEF Next, LoadStep, ShardStep

LEMMA IdleNext ==
  ASSUME IInv, Next
  PROVE  Idle'
<1>1. CASE phase' # "census"
  BY <1>1 DEF Idle
<1>2. ASSUME NEW f \in Flags, StartRun(f) PROVE Idle'
  BY <1>2 DEF StartRun, Idle
<1>3. ASSUME NEW f \in Flags, RefuseRun(f) PROVE Idle'
  BY <1>3, <1>1 DEF RefuseRun
<1>4. ASSUME NEW s \in Jobs, CensusShard(s) PROVE Idle'
  BY <1>4 DEF CensusShard, group, Idle, IInv
<1>5. CASE CensusFails \/ CensusRefuses \/ CensusPasses \/ LoadReturns \/ Crash
  BY <1>5, <1>1 DEF CensusFails, CensusRefuses, CensusPasses, LoadReturns, Crash, Return
<1>6. CASE Launch \/ \E s \in Jobs : ShardStep(s)
  BY <1>6, <1>1 DEF Launch, ShardStep, PassOver, Post, Commit, PostFails, StopCancelled,
     ShardFails, FinishShard, Kept, Meets, AtPart, Extracting
<1>7. QED
  BY <1>2, <1>3, <1>4, <1>5, <1>6 DEF Next, LoadStep

LEMMA StartedNext ==
  ASSUME IInv, Next
  PROVE  Started'
<1>n. /\ TypeOK /\ job \in [Jobs -> {"queued", "running", "posting", "over"}]
      /\ at \in [Jobs -> Nat] /\ next \in 1 .. N + 1 /\ N \in Nat
  BY Shapes DEF TypeOK, IInv
<1>s. \A s \in Jobs : at[s] \in Nat /\ (job[s] \in {"running", "posting"} => at[s] >= 1)
  BY <1>n DEF IInv, Started
<1>1. ASSUME NEW f \in Flags, StartRun(f) PROVE Started'
  BY <1>1 DEF StartRun, Started
<1>2. CASE /\ at' = at
           /\ \A s \in Jobs : job'[s] \in {"running", "posting"} => job[s] \in {"running", "posting"}
  BY <1>2, <1>s DEF Started
<1>3. CASE \/ CensusFails \/ CensusRefuses \/ CensusPasses \/ LoadReturns
           \/ (\E s \in Jobs : CensusShard(s)) \/ (\E f \in Flags : RefuseRun(f))
  BY <1>3, <1>2 DEF CensusFails, CensusRefuses, CensusPasses, LoadReturns, CensusShard,
     RefuseRun, group
<1>4. CASE Crash
  BY <1>4, <1>2, <1>n DEF Crash
<1>5. ASSUME NEW s \in Jobs, Post(s) PROVE Started'
  <2>1. job' = [job EXCEPT ![s] = "posting"] /\ job[s] = "running" /\ at' = at
    BY <1>5 DEF Post, Kept, Meets, AtPart, Extracting
  <2>2. QED
    BY <2>1, <1>2, <1>n
<1>6. ASSUME NEW s \in Jobs, PostFails(s) \/ StopCancelled(s) \/ ShardFails(s) \/ FinishShard(s)
      PROVE  Started'
  <2>1. job' = [job EXCEPT ![s] = "over"] /\ at' = at
    BY <1>6 DEF PostFails, StopCancelled, ShardFails, FinishShard, End
  <2>2. QED
    BY <2>1, <1>2, <1>n
<1>7. ASSUME NEW s \in Jobs, PassOver(s) \/ Commit(s) PROVE Started'
  <2>1. at' = [at EXCEPT ![s] = at[s] + 1]
        /\ \A r \in Jobs : r # s => job'[r] = job[r]
    BY <1>7, <1>n DEF PassOver, Commit
  <2>2. at'[s] >= 1 /\ \A r \in Jobs : r # s => at'[r] = at[r]
    BY <2>1, <1>n, <1>s
  <2>3. QED
    BY <2>1, <2>2, <1>s DEF Started
<1>8. CASE Launch
  <2>1. next \in Jobs
    BY <1>8, <1>n DEF Launch, Jobs
  <2>2. at' = [at EXCEPT ![next] = ResumePart(next)]
        /\ \A r \in Jobs : r # next => job'[r] = job[r]
    BY <1>8, <1>n DEF Launch
  <2>3. ResumePart(next) \in Nat /\ ResumePart(next) >= 1
    BY <2>1, <1>n, Shapes DEF ResumePart
  <2>4. at'[next] >= 1 /\ \A r \in Jobs : r # next => at'[r] = at[r]
    BY <2>1, <2>2, <2>3, <1>n
  <2>5. QED
    BY <2>2, <2>4, <1>s DEF Started
<1>9. QED
  BY <1>1, <1>3, <1>4, <1>5, <1>6, <1>7, <1>8 DEF Next, LoadStep, ShardStep

-----------------------------------------------------------------------------
(* What is delivered                                                       *)

LEMMA FingerprintedNext ==
  ASSUME IInv, Next
  PROVE  Fingerprinted'
<1>i. /\ phase # "down" \/ outcome = "ok" => config = <<Fingerprint(flags)>>
      /\ config = <<>> => done = {} /\ \A s \in Jobs : progress[s] = 0
  BY DEF IInv, Fingerprinted
<1>1. ASSUME NEW f \in Flags, StartRun(f) PROVE Fingerprinted'
  <2>1. config' = <<Fingerprint(f)>> /\ flags' = f
    BY <1>1 DEF StartRun
  <2>2. config' # <<>>
    BY <2>1
  <2>3. QED
    BY <2>1, <2>2 DEF Fingerprinted, Fingerprint
<1>2. ASSUME NEW f \in Flags, RefuseRun(f) PROVE Fingerprinted'
  BY <1>2, <1>i DEF RefuseRun, Fingerprinted, ckpt
<1>3. CASE phase # "down" /\ UNCHANGED <<flags, config>>
  <2>1. config' # <<>> /\ config' = <<Fingerprint(flags)>>
    BY <1>3, <1>i
  <2>2. QED
    BY <2>1, <1>3 DEF Fingerprinted, Fingerprint
<1>4. CASE CensusFails \/ CensusRefuses \/ CensusPasses \/ LoadReturns \/ Crash
           \/ \E s \in Jobs : CensusShard(s)
  BY <1>4, <1>3 DEF CensusFails, CensusRefuses, CensusDone, CensusPasses, LoadReturns,
     Crash, CensusShard, ckpt
<1>5. CASE Launch \/ \E s \in Jobs : ShardStep(s)
  BY <1>5, <1>3 DEF Launch, ShardStep, PassOver, Post, Commit, PostFails, StopCancelled,
     ShardFails, FinishShard, Kept, Meets, AtPart, Extracting, ckpt
<1>6. QED
  BY <1>1, <1>2, <1>4, <1>5 DEF Next, LoadStep

(* In a run a wanted part of a block is resolved by the fingerprint.       *)
LEMMA Resolves ==
  ASSUME IInv, phase # "down" \/ outcome = "ok"
  PROVE  /\ config # <<>>
         /\ \A n : ResolveAs(config[1], n) = Resolve(n)
         /\ \A s \in Jobs : \A i \in WantedAs(config[1], s) :
              /\ i \in DOMAIN PartsOf(s) /\ Emitted(PartsOf(s)[i])
              /\ Resolve(PartsOf(s)[i].name) \in {"pass", "renamed"}
         /\ \A s \in Jobs : \A i \in Wanted(s) :
              PartsOf(s)[i].home = "tsm" => i \in WantedAs(config[1], s)
<1>1. config = <<Fingerprint(flags)>>
  BY DEF IInv, Fingerprinted
<1>2. config # <<>> /\ config[1].policy = flags.policy /\ config[1].map = flags.map
  BY <1>1 DEF Fingerprint
<1>3. \A n : ResolveAs(config[1], n) = Resolve(n)
  BY <1>2 DEF ResolveAs, Resolve
<1>4. QED
  BY <1>2, <1>3 DEF WantedAs, Wanted, Emitted, Listed

LEMMA DeliveredNext ==
  ASSUME IInv, Next
  PROVE  Delivered'
<1>n. /\ TypeOK /\ job \in [Jobs -> {"queued", "running", "posting", "over"}]
      /\ at \in [Jobs -> Nat] /\ next \in 1 .. N + 1 /\ N \in Nat
      /\ progress \in [Jobs -> Nat] /\ arc \in [Jobs -> SUBSET Nat]
      /\ \A s \in Jobs : DOMAIN PartsOf(s) = 1 .. Len(PartsOf(s)) /\ Len(PartsOf(s)) \in Nat
  BY Shapes DEF IInv, TypeOK
<1>d. config # <<>> =>
        \A s \in Jobs : \A i \in WantedAs(config[1], s) :
          s \in done \/ i <= progress[s] \/ (Active(s) /\ i < at[s]) => i \in arc[s]
  BY DEF IInv, Delivered
<1>p. source' = source /\ \A c, s : WantedAs(c, s)' = WantedAs(c, s)
  BY Fixed DEF WantedAs, PartsOf, ResolveAs
<1>1. ASSUME NEW f \in Flags, StartRun(f) PROVE Delivered'
  <2>1. UNCHANGED <<done, progress, arc>> /\ config \in {<<>>, <<Fingerprint(f)>>}
        /\ config' = <<Fingerprint(f)>> /\ \A s \in Jobs : job'[s] = "queued"
    BY <1>1 DEF StartRun
  <2>2. \A s \in Jobs : ~ Active(s)'
    BY <2>1 DEF Active
  <2>3. CASE config = <<>>
    <3>1. done = {} /\ \A s \in Jobs : progress[s] = 0
      BY <2>3 DEF IInv, Fingerprinted
    <3>2. \A s \in Jobs : \A i \in WantedAs(config'[1], s) : i \in Nat /\ ~ (i <= 0)
      BY <1>n DEF WantedAs
    <3>3. QED
      BY <2>1, <2>2, <3>1, <3>2, <1>p DEF Delivered
  <2>4. CASE config # <<>>
    <3>1. config' = config
      BY <2>1, <2>4
    <3>2. QED
      BY <2>1, <2>2, <2>4, <3>1, <1>d, <1>p DEF Delivered
  <2>5. QED
    BY <2>3, <2>4
<1>2. CASE /\ UNCHANGED <<config, done, progress>>
           /\ \A s \in Jobs : arc[s] \subseteq arc'[s]
           /\ \A s \in Jobs : Active(s)' => Active(s) /\ at'[s] = at[s]
  BY <1>2, <1>d, <1>p DEF Delivered
<1>3. CASE \/ CensusFails \/ CensusRefuses \/ LoadReturns
           \/ (\E s \in Jobs : CensusShard(s)) \/ (\E f \in Flags : RefuseRun(f))
  <2>1. UNCHANGED <<config, done, progress, arc, job, at>> /\ (phase' = phase \/ phase' = "down")
    BY <1>3 DEF CensusFails, CensusRefuses, LoadReturns, CensusShard, RefuseRun, group,
       ckpt, Return
  <2>2. \A s \in Jobs : Active(s)' => Active(s) /\ at'[s] = at[s]
    BY <2>1 DEF Active
  <2>3. QED
    BY <2>1, <2>2, <1>2
<1>4. CASE CensusPasses
  <2>1. UNCHANGED <<config, done, progress, arc, job, at>> /\ phase = "census"
    BY <1>4 DEF CensusPasses, CensusDone, ckpt, group
  <2>2. \A s \in Jobs : ~ Active(s)'
    BY <2>1 DEF Active, IInv, Idle
  <2>3. QED
    BY <2>1, <2>2, <1>2
<1>5. CASE Crash
  <2>1. UNCHANGED <<config, done, progress>> /\ \A s \in Jobs : ~ Active(s)'
    BY <1>5 DEF Crash, Return, Active, ckpt
  <2>2. \A s \in Jobs : arc[s] \subseteq arc'[s]
    BY <1>5, <1>n DEF Crash
  <2>3. QED
    BY <2>1, <2>2, <1>2
<1>6. ASSUME NEW s \in Jobs, PostFails(s) \/ StopCancelled(s) \/ ShardFails(s)
      PROVE  Delivered'
  <2>1. UNCHANGED <<config, done, progress, at, phase>> /\ (arc' = arc \/ arc' = Stored(s))
        /\ job' = [job EXCEPT ![s] = "over"]
    BY <1>6 DEF PostFails, StopCancelled, ShardFails, End, ckpt
  <2>2. \A r \in Jobs : arc[r] \subseteq arc'[r]
    BY <2>1, <1>n DEF Stored
  <2>3. \A r \in Jobs : Active(r)' => Active(r) /\ at'[r] = at[r]
    BY <2>1, <1>n DEF Active
  <2>4. QED
    BY <2>1, <2>2, <2>3, <1>2
<1>7. ASSUME NEW s \in Jobs, Post(s) PROVE Delivered'
  <2>1. UNCHANGED <<config, done, progress, at, phase, arc>>
        /\ job' = [job EXCEPT ![s] = "posting"] /\ job[s] = "running"
    BY <1>7 DEF Post, Kept, Meets, AtPart, Extracting, ckpt
  <2>2. \A r \in Jobs : Active(r)' => Active(r) /\ at'[r] = at[r]
    BY <2>1, <1>n DEF Active
  <2>3. QED
    BY <2>1, <2>2, <1>2
<1>8. CASE Launch
  <2>1. next \in Jobs /\ UNCHANGED <<config, done, progress, phase, arc>>
    BY <1>8, <1>n DEF Launch, Jobs, ckpt
  <2>2. at' = [at EXCEPT ![next] = progress[next] + 1]
        /\ \A r \in Jobs : r # next => job'[r] = job[r]
    BY <1>8, <1>n DEF Launch, ResumePart
  <2>3. at'[next] = progress[next] + 1 /\ \A r \in Jobs : r # next => at'[r] = at[r]
    BY <2>1, <2>2, <1>n
  <2>4. \A i \in DOMAIN PartsOf(next) : i < at'[next] => i <= progress[next]
    BY <2>1, <2>3, <1>n
  <2>5. \A i \in WantedAs(config[1], next) : i < at'[next] => i <= progress[next]
    BY <2>4 DEF WantedAs
  <2>6. \A r \in Jobs : r # next /\ Active(r)' => Active(r)
    BY <2>1, <2>2 DEF Active
  <2>7. QED
    BY <2>1, <2>3, <2>5, <2>6, <1>d, <1>p DEF Delivered
<1>9. ASSUME NEW s \in Jobs, PassOver(s) PROVE Delivered'
  <2>1. /\ UNCHANGED <<config, done, progress, phase, arc, job>>
        /\ at' = [at EXCEPT ![s] = at[s] + 1] /\ phase = "load" /\ job[s] = "running"
        /\ (Emitted(Current(s)) => Resolve(Current(s).name) = "skipped")
    BY <1>9 DEF PassOver, AtPart, Extracting, ckpt
  <2>2. at[s] \notin WantedAs(config[1], s)
    BY <2>1, Resolves DEF Current
  <2>3. at'[s] = at[s] + 1 /\ \A r \in Jobs : r # s => at'[r] = at[r]
    BY <2>1, <1>n
  <2>4. \A i \in DOMAIN PartsOf(s) : i < at[s] + 1 => i < at[s] \/ i = at[s]
    BY <1>n
  <2>5. \A i \in WantedAs(config[1], s) : i < at'[s] => i < at[s]
    BY <2>2, <2>3, <2>4 DEF WantedAs
  <2>6. \A r \in Jobs : Active(r)' <=> Active(r)
    BY <2>1 DEF Active
  <2>7. QED
    BY <2>1, <2>3, <2>5, <2>6, <1>d, <1>p DEF Delivered
<1>10. ASSUME NEW s \in Jobs, Commit(s) PROVE Delivered'
  <2>1. /\ UNCHANGED <<config, done, phase>> /\ phase = "load" /\ job[s] = "posting"
        /\ at' = [at EXCEPT ![s] = at[s] + 1] /\ job' = [job EXCEPT ![s] = "running"]
        /\ progress' = [progress EXCEPT ![s] = at[s]]
        /\ arc' = [arc EXCEPT ![s] = @ \cup {at[s]}]
    BY <1>10 DEF Commit, Stored
  <2>2. /\ at'[s] = at[s] + 1 /\ progress'[s] = at[s] /\ arc'[s] = arc[s] \cup {at[s]}
        /\ \A r \in Jobs : r # s => at'[r] = at[r] /\ progress'[r] = progress[r]
                                    /\ arc'[r] = arc[r] /\ job'[r] = job[r]
    BY <2>1, <1>n
  <2>3. Active(s)
    BY <2>1 DEF Active
  <2>4. \A i \in DOMAIN PartsOf(s) : i < at[s] + 1 \/ i <= at[s] => i < at[s] \/ i = at[s]
    BY <1>n
  <2>5. \A i \in WantedAs(config[1], s) :
          i <= progress'[s] \/ i < at'[s] => i < at[s] \/ i = at[s]
    BY <2>2, <2>4 DEF WantedAs
  <2>6. \A r \in Jobs : r # s /\ Active(r)' => Active(r)
    BY <2>1, <2>2 DEF Active
  <2>7. QED
    BY <2>1, <2>2, <2>3, <2>5, <2>6, <1>d, <1>p DEF Delivered
<1>11. ASSUME NEW s \in Jobs, FinishShard(s) PROVE Delivered'
  <2>1. /\ UNCHANGED <<config, progress, phase, arc, at>> /\ phase = "load" /\ job[s] = "running"
        /\ done' = done \cup {s} /\ job' = [job EXCEPT ![s] = "over"]
        /\ ~ (at[s] <= Len(PartsOf(s)))
    BY <1>11 DEF FinishShard, AtPart, Extracting
  <2>2. Active(s)
    BY <2>1 DEF Active
  <2>3. \A i \in DOMAIN PartsOf(s) : i < at[s]
    BY <2>1, <1>n
  <2>4. \A i \in WantedAs(config[1], s) : i < at[s]
    BY <2>3 DEF WantedAs
  <2>5. \A r \in Jobs : Active(r)' => Active(r)
    BY <2>1, <1>n DEF Active
  <2>6. QED
    BY <2>1, <2>2, <2>4, <2>5, <1>d, <1>p DEF Delivered
<1>12. QED
  BY <1>1, <1>3, <1>4, <1>5, <1>6, <1>7, <1>8, <1>9, <1>10, <1>11
  DEF Next, LoadStep, ShardStep

-----------------------------------------------------------------------------
(* What the operator is told                                               *)

LEMMA ToldNext ==
  ASSUME IInv, Next
  PROVE  Told'
<1>t. Told /\ TypeOK
  BY DEF IInv
<1>1. CASE outcome' \in {"none", "refused", "failed", "invalid"}
  BY <1>1 DEF Told
<1>2. CASE CensusRefuses
  <2>1. phase = "census" /\ toCheck = {} /\ Invalid # {} /\ outcome' = "census"
        /\ UNCHANGED <<source, flags, done>>
    BY <1>2 DEF CensusRefuses, CensusDone, Return, ckpt
  <2>2. PICK n \in names : Resolve(n) = "invalid"
    BY <2>1 DEF Invalid
  <2>3. PICK s \in Counted : n \in NamesOf(s)
    BY <2>1 DEF IInv, CensusSound
  <2>4. PICK i \in DOMAIN PartsOf(s) :
          PartsOf(s)[i].name = n /\ (source.kind = "v3" \/ Intersects(PartsOf(s)[i]))
    BY <2>3 DEF NamesOf
  <2>5. ASSUME source.kind = "tsm"
        PROVE  s \in Jobs \ done /\ PartsOf(s)[i].span # "out"
    BY <2>3, <2>4, <2>5 DEF Counted, Intersects
  <2>6. \A r \in Jobs : PartsOf(r)' = PartsOf(r)
    BY <2>1, NamesStay
  <2>7. Resolve(n)' = Resolve(n)
    BY <2>1, NamesStay
  <2>8. source.kind = "tsm" =>
          \E r \in Jobs \ done : \E j \in DOMAIN PartsOf(r) :
            PartsOf(r)[j].span # "out" /\ Resolve(PartsOf(r)[j].name) = "invalid"
    BY <2>2, <2>4, <2>5
  <2>9. \A m : Resolve(m)' = Resolve(m)
    BY <2>1, NamesStay
  <2>10. QED
    BY <2>1, <2>6, <2>8, <2>9 DEF Told
<1>3. CASE LoadReturns
  <2>1. phase = "load" /\ AllOver /\ outcome' = (IF failed = "none" THEN "ok" ELSE failed)
        /\ UNCHANGED <<source, flags, done>>
    BY <1>3 DEF LoadReturns, Return, ckpt
  <2>2. \A s \in Jobs : Discovered(s)' = Discovered(s)
    BY <2>1, NamesStay
  <2>3. failed = "none" => \A s \in Jobs : Discovered(s) => s \in done
    BY <2>1 DEF IInv, Group, AllOver
  <2>4. failed \in {"none", "failed", "invalid"}
    BY <1>t DEF TypeOK, IInv, Group
  <2>5. QED
    BY <2>1, <2>2, <2>3, <2>4 DEF Told
<1>4. ASSUME NEW s \in Jobs, CensusShard(s) PROVE Told'
  <2>1. UNCHANGED <<source, flags, done, outcome>>
    BY <1>4 DEF CensusShard, ckpt
  <2>2. /\ \A r \in Jobs : Discovered(r)' = Discovered(r) /\ PartsOf(r)' = PartsOf(r)
        /\ \A n : Resolve(n)' = Resolve(n)
    BY <2>1, NamesStay
  <2>3. QED
    BY <2>1, <2>2, <1>t DEF Told
<1>5. CASE CensusPasses
  <2>1. UNCHANGED <<source, flags, done, outcome>>
    BY <1>5 DEF CensusPasses, ckpt
  <2>2. /\ \A r \in Jobs : Discovered(r)' = Discovered(r) /\ PartsOf(r)' = PartsOf(r)
        /\ \A n : Resolve(n)' = Resolve(n)
    BY <2>1, NamesStay
  <2>3. QED
    BY <2>1, <2>2, <1>t DEF Told
<1>6. CASE Launch \/ \E s \in Jobs : ShardStep(s)
  <2>1. phase = "load" /\ outcome' = outcome
    BY <1>6 DEF Launch, ShardStep, PassOver, Post, Commit, PostFails, StopCancelled,
       ShardFails, FinishShard, Kept, Meets, AtPart, Extracting
  <2>2. outcome = "none"
    BY <2>1 DEF IInv, Running
  <2>3. QED
    BY <2>1, <2>2, <1>1
<1>7. CASE CensusFails \/ Crash
  BY <1>7, <1>1 DEF CensusFails, Crash, Return
<1>8. ASSUME NEW f \in Flags, StartRun(f) \/ RefuseRun(f) PROVE Told'
  BY <1>8, <1>1 DEF StartRun, RefuseRun
<1>9. QED
  BY <1>2, <1>3, <1>4, <1>5, <1>6, <1>7, <1>8 DEF Next, LoadStep

\* A run has no outcome before it ends.
LEMMA RunningNext ==
  ASSUME IInv, Next
  PROVE  Running'
BY DEF IInv, Running, Next, StartRun, RefuseRun, CensusShard, ShardStep, PassOver, Post,
   Commit, PostFails, StopCancelled, ShardFails, FinishShard, LoadStep, CensusFails,
   CensusRefuses, CensusPasses, CensusDone, Launch, LoadReturns, Crash, Return, Kept,
   Meets, AtPart, Extracting

-----------------------------------------------------------------------------
(* The invariant and the theorems                                          *)

LEMMA Initially == Init => IInv
<1>1. SUFFICES ASSUME Init PROVE IInv
  OBVIOUS
<1>2. /\ phase = "down" /\ outcome = "none" /\ sent = FALSE /\ failed = "none" /\ config = <<>>
      /\ done = {} /\ \A s \in Jobs : job[s] = "queued" /\ progress[s] = 0
  BY <1>1 DEF Init
<1>3. QED
  BY <1>1, <1>2, TypeInit DEF IInv, CensusSound, Clean, Group, Active, Idle, Started,
     Running, Fingerprinted, Delivered, Told

LEMMA Stutters == IInv /\ UNCHANGED vars => IInv'
<1>1. SUFFICES ASSUME IInv, UNCHANGED vars PROVE IInv'
  OBVIOUS
<1>2. UNCHANGED <<source, config, done, progress, arc, runs, flags, phase, toCheck, names,
                  failed, cancelled, next, job, at, sent, outcome>>
  BY <1>1 DEF vars, ckpt, census, group
<1>3. /\ \A r \in Jobs : Discovered(r)' = Discovered(r) /\ PartsOf(r)' = PartsOf(r)
                         /\ NamesOf(r)' = NamesOf(r)
      /\ \A n : Resolve(n)' = Resolve(n)
  BY <1>2, NamesStay
<1>4. TypeOK'
  BY <1>1, <1>2, <1>3 DEF IInv, TypeOK
<1>5. Counted' = Counted /\ Counted \subseteq Jobs
  BY <1>2 DEF Counted
<1>6. CensusSound'
  BY <1>1, <1>2, <1>3, <1>5 DEF IInv, CensusSound
<1>7. Clean'
  BY <1>1, <1>2, <1>3 DEF IInv, Clean
<1>8. Group' /\ Idle' /\ Started' /\ Running'
  BY <1>1, <1>2, <1>3 DEF IInv, Group, Active, Idle, Started, Running
<1>9. Fingerprinted'
  BY <1>1, <1>2 DEF IInv, Fingerprinted, Fingerprint
<1>10. \A c : \A s \in Jobs : WantedAs(c, s)' = WantedAs(c, s)
  BY <1>2 DEF WantedAs, ResolveAs, PartsOf
<1>11. Delivered'
  BY <1>1, <1>2, <1>10 DEF IInv, Delivered, Active
<1>12. Told'
  BY <1>1, <1>2, <1>3 DEF IInv, Told
<1>13. QED
  BY <1>4, <1>6, <1>7, <1>8, <1>9, <1>11, <1>12 DEF IInv

LEMMA Invariance == Spec => []IInv
<1>1. IInv /\ Next => IInv'
  <2>1. SUFFICES ASSUME IInv, Next PROVE IInv'
    OBVIOUS
  <2>2. TypeOK' /\ CensusSound' /\ Clean' /\ Group' /\ Idle' /\ Started' /\ Running'
    BY <2>1, TypeNext, CensusSoundNext, CleanNext, GroupNext, IdleNext, StartedNext, RunningNext
  <2>3. Fingerprinted' /\ Delivered' /\ Told'
    BY <2>1, FingerprintedNext, DeliveredNext, ToldNext
  <2>4. QED
    BY <2>2, <2>3 DEF IInv
<1>2. QED
  BY <1>1, Initially, Stutters, PTL DEF Spec

(* Every variable of a load has its type.                                  *)
THEOREM LoadTypeCorrect == Spec => []TypeOK
BY Invariance, PTL DEF IInv

(* Under the fail policy one invalid name with data to migrate keeps every *)
(* shard from sending anything, and no shard fails on a name after the     *)
(* census (censusMeasurements and Action.Resolve): the census reads names  *)
(* from indexes and logs and never sees less than what extraction emits.   *)
THEOREM CensusGuards == Spec => []BadNamesStopEverything
<1>1. ASSUME IInv PROVE BadNamesStopEverything
  <2>1. SUFFICES ASSUME flags.policy = "fail", sent,
                        NEW s \in Jobs \ done, NEW i \in progress[s] + 1 .. Len(PartsOf(s)),
                        Emitted(PartsOf(s)[i])
                 PROVE  Resolve(PartsOf(s)[i].name) # "invalid"
    BY <1>1 DEF BadNamesStopEverything, IInv, Group
  <2>2. i \in DOMAIN PartsOf(s)
    BY <1>1, Shapes DEF IInv
  <2>3. PartsOf(s)[i].name \in NamesOf(s)
    BY <1>1, <2>1, <2>2, CensusSeesAll DEF IInv
  <2>4. QED
    BY <1>1, <2>1, <2>3 DEF IInv, Clean
<1>2. QED
  BY <1>1, Invariance, PTL

(* A run that ends well has all that it should deliver in Arc, over any    *)
(* number of resumed runs; a run that fails tells the first error and not  *)
(* a shard that was cancelled for it; and the census complains of a name   *)
(* only when there is data of it (load in run.go, census.go).              *)
THEOREM OperatorTold == Spec => []OutcomeHonest
<1>1. ASSUME IInv PROVE OutcomeHonest
  <2>1. ASSUME outcome = "ok", NEW s \in Jobs, NEW i \in Wanted(s), PartsOf(s)[i].home = "tsm"
        PROVE  i \in arc[s]
    <3>1. i \in DOMAIN PartsOf(s) /\ Emitted(PartsOf(s)[i])
      BY <2>1 DEF Wanted
    <3>2. Discovered(s)
      BY <3>1 DEF Discovered, Emitted
    <3>3. s \in done
      BY <1>1, <2>1, <3>2 DEF IInv, Told
    <3>4. config # <<>> /\ i \in WantedAs(config[1], s)
      BY <1>1, <2>1, Resolves
    <3>5. QED
      BY <1>1, <3>3, <3>4 DEF IInv, Delivered
  <2>2. QED
    BY <1>1, <2>1 DEF IInv, Told, OutcomeHonest
<1>2. QED
  BY <1>1, Invariance, PTL
=============================================================================
