----------------------------- MODULE ShardLoad ------------------------------
(***************************************************************************)
(* The load of one shard: loadShard and its sender (cmd/tsm2arc/run.go),   *)
(* the HTTP sink's attempts (internal/sink) and the shard's checkpoint row *)
(* (internal/checkpoint), with Arc's import endpoint as the environment.   *)
(*                                                                         *)
(* Extraction is deterministic, so a shard is a fixed sequence of N        *)
(* chunks: chunk c is the data, and a sequence number is what the run      *)
(* calls it.  The two are kept apart (pos and seq), because a resume       *)
(* derives them from different columns of the checkpoint row.  How lines   *)
(* become chunks, and the audit counts a chunk carries, are in ChunkAudit. *)
(*                                                                         *)
(* The results channel needs no state of its own: its capacity is the      *)
(* number of tokens, so a worker never blocks on it, and results may       *)
(* arrive in any order anyway.  A result in it is a job in {"ok", "err"}.  *)
(***************************************************************************)
EXTENDS Integers, FiniteSets

CONSTANTS N,            \* number of chunks in the shard
          MaxInflight,  \* the largest --inflight an operator uses
          MaxRetries,   \* Sink.maxRetries: attempts after the first
          MaxRuns       \* bound: times the command is run on this shard

ASSUME ConstantsAssumption ==
  /\ N \in Nat
  /\ MaxInflight \in Nat \ {0}
  /\ MaxRetries \in Nat
  /\ MaxRuns \in Nat

Chunks == 0 .. N-1

NoSeq == -1   \* Progress without a row
NoCur == -1   \* last_series and last_ts are NULL

VARIABLES
  copies,      \* Arc: copies of each chunk: 0, 1, or 2 for "more than one"
  late,        \* Arc: chunks of abandoned attempts it may still persist
  ckSeq,       \* shard_progress.committed_seq, NoSeq without a row
  ckCur,       \* shard_progress.last_series/last_ts, as the chunk they end
  ckDone,      \* is there a shard_done row?
  ckTotal,     \* shard_done.total_chunks
  phase,       \* where the loadShard goroutine is
  pipelined,   \* --pipeline of this run
  inflight,    \* --inflight of this run, at least 1
  committed,   \* loadShard's local copy of the committed seq
  seq,         \* Accumulator.seq: the number of the next chunk
  pos,         \* the next chunk that extraction will produce
  next,        \* the committer's next seq to retire
  tokens,      \* tokens taken from the semaphore
  job,         \* job[s]: what has become of the chunk submitted as s
  attempt,     \* attempt[s]: the sink's attempt number for that chunk
  failed,      \* the committer has seen a failure, in seq order
  err,         \* sender.err # nil
  cancelled,   \* the run's context is done
  runs,        \* history: runs started, bounded by MaxRuns
  disturbed    \* history: has a failure, cancellation or crash happened?

arc      == <<copies, late>>
ckpt     == <<ckSeq, ckCur, ckDone, ckTotal>>
config   == <<pipelined, inflight, committed>>
history  == <<runs, disturbed>>
vars == <<copies, late, ckSeq, ckCur, ckDone, ckTotal, phase, pipelined,
          inflight, committed, seq, pos, next, tokens, job, attempt, failed,
          err, cancelled, runs, disturbed>>

(***************************************************************************)
(* A job is sent by a worker ("send": about to make an attempt, "wire": the *)
(* attempt is out, "stored": Arc has persisted it, the answer is still to  *)
(* come), then has a result ("ok", "err"), which the committer takes into  *)
(* its pending map ("pendOk", "pendErr") and retires in seq order.         *)
(***************************************************************************)
Posting == {"send", "wire", "stored"}
Pending == {"pendOk", "pendErr"}
JobStates == {"none", "retired", "ok", "err"} \cup Posting \cup Pending

(***************************************************************************)
(* "extract": reading points; "token", "handoff": inside submit; "inline": *)
(* submit without a pipeline; "drain": the barrier before the done mark;   *)
(* "unwind": the deferred wait of an error return; "finish": FinishShard.  *)
(* "down", "done", "failed": no loadShard is running on this shard.        *)
(***************************************************************************)
Running == {"extract", "token", "handoff", "inline", "drain", "unwind", "finish"}
Phases == Running \cup {"down", "done", "failed"}

DurableTypeOK ==   \* Arc, the checkpoint row, and the history
  /\ copies \in [Chunks -> 0 .. 2]
  /\ late \in SUBSET Chunks
  /\ ckSeq \in NoSeq .. N-1
  /\ ckCur \in NoCur .. N-1
  /\ ckDone \in BOOLEAN
  /\ ckTotal \in 0 .. N
  /\ runs \in 0 .. MaxRuns
  /\ disturbed \in BOOLEAN

JobTypeOK ==       \* the sender's jobs
  /\ job \in [Chunks -> JobStates]
  /\ attempt \in [Chunks -> 0 .. MaxRetries]

LocalTypeOK ==     \* the other locals of loadShard and its sender
  /\ phase \in Phases
  /\ pipelined \in BOOLEAN
  /\ inflight \in 1 .. MaxInflight
  /\ committed \in NoSeq .. N-1
  /\ seq \in 0 .. N
  /\ pos \in 0 .. N
  /\ next \in 0 .. N
  /\ tokens \in 0 .. MaxInflight
  /\ failed \in BOOLEAN
  /\ err \in BOOLEAN
  /\ cancelled \in BOOLEAN

TypeOK == DurableTypeOK /\ JobTypeOK /\ LocalTypeOK

(***************************************************************************)
(* The chunk of data that job s carries: within a run, sequence numbers    *)
(* and extraction advance together.                                        *)
(***************************************************************************)
DataOf(s) == s + (pos - seq)

PersistCopy(c) == copies' = [copies EXCEPT ![c] = IF @ = 0 THEN 1 ELSE 2]

NoJobs == [s \in Chunks |-> "none"]
NoAttempts == [s \in Chunks |-> 0]

\* The locals of loadShard and its sender, when there is none.
locals == <<pipelined, inflight, committed, seq, pos, next, tokens, attempt,
            failed, err, cancelled>>

ForgetLocals ==
  /\ pipelined' = TRUE
  /\ inflight' = 1
  /\ committed' = NoSeq
  /\ seq' = 0
  /\ pos' = 0
  /\ next' = 0
  /\ tokens' = 0
  /\ attempt' = NoAttempts
  /\ failed' = FALSE
  /\ err' = FALSE
  /\ cancelled' = FALSE

(***************************************************************************)
(* The checkpoint is fresh, or was left by a version that stored no cursor *)
(* and whose crash may have left one unrecorded chunk in Arc.              *)
(***************************************************************************)
Init ==
  /\ ckSeq \in NoSeq .. N-1
  /\ disturbed \in (IF ckSeq \in 0 .. N-2 THEN BOOLEAN ELSE {FALSE})
  /\ copies = [c \in Chunks |->
       IF c <= ckSeq \/ (disturbed /\ c = ckSeq + 1) THEN 1 ELSE 0]
  /\ late = {}
  /\ ckCur = NoCur
  /\ ckDone = FALSE
  /\ ckTotal = 0
  /\ phase = "down"
  /\ pipelined = TRUE
  /\ inflight = 1
  /\ committed = NoSeq
  /\ seq = 0
  /\ pos = 0
  /\ next = 0
  /\ tokens = 0
  /\ attempt = NoAttempts
  /\ failed = FALSE
  /\ err = FALSE
  /\ cancelled = FALSE
  /\ job = NoJobs
  /\ runs = 0

-----------------------------------------------------------------------------
(* Starting: IsShardDone, Progress, and the choice between the two resumes *)

Seekable == ckSeq >= 0 /\ ckCur # NoCur

\* Slip: the numbering of a seek skips one.
StartSeqOff == IF Seekable THEN ckSeq + 2 ELSE 0

\* NewAt's startSeq: a seek continues the numbering, a legacy resume restarts.
StartSeq == IF Seekable THEN ckSeq + 1 ELSE 0

\* Slip: the seek re-reads the chunk the cursor ends.
StartPosReread == IF Seekable THEN ckCur ELSE 0

\* Where extraction restarts: just after the cursor, or at the beginning.
StartPos == IF Seekable THEN ckCur + 1 ELSE 0

\* Slip: the committer waits for a seq that a legacy resume never submits.
FirstSeqFromStart == StartSeq

\* senderConfig.firstSeq, the first seq the committer waits for.
FirstSeq == ckSeq + 1

Start(k, pl) ==
  /\ phase \notin Running
  /\ runs < MaxRuns
  /\ ~ ckDone
  /\ runs' = runs + 1
  /\ phase' = "extract"
  /\ pipelined' = pl
  /\ inflight' = k
  /\ committed' = ckSeq
  /\ seq' = StartSeq
  /\ pos' = StartPos
  /\ next' = FirstSeq
  /\ tokens' = 0
  /\ job' = NoJobs
  /\ attempt' = NoAttempts
  /\ failed' = FALSE
  /\ err' = FALSE
  /\ cancelled' = FALSE
  /\ UNCHANGED <<arc, ckpt, disturbed>>

\* The rerun of a shard that is already done, or whose row cannot be read.
StartEnds ==
  /\ phase \notin Running
  /\ runs < MaxRuns
  /\ runs' = runs + 1
  /\ \/ ckDone /\ phase' = "done"
     \/ phase' = "failed"
  /\ job' = NoJobs
  /\ UNCHANGED <<arc, ckpt, locals, disturbed>>

-----------------------------------------------------------------------------
(* The extracting goroutine: the flush callback and submit                 *)

AdvanceChunk ==
  /\ seq' = seq + 1
  /\ pos' = pos + 1

\* Slip: the last committed chunk is not skipped.
AlreadyCommittedOff(s) == s < committed

\* The legacy resume's test in the flush callback.
AlreadyCommitted(s) == s <= committed

SkipChunk ==
  /\ phase = "extract"
  /\ pos < N
  /\ AlreadyCommitted(seq)
  /\ AdvanceChunk
  /\ UNCHANGED <<arc, ckpt, config, history, phase, next, tokens, job, attempt,
                 failed, err, cancelled>>

SubmitCheck ==
  /\ phase = "extract"
  /\ pos < N
  /\ ~ AlreadyCommitted(seq)
  /\ pipelined
  /\ phase' = IF err THEN "unwind" ELSE "token"
  /\ UNCHANGED <<arc, ckpt, config, history, seq, pos, next, tokens, job,
                 attempt, failed, err, cancelled>>

\* Slip: nothing bounds the chunks that are out.
TokenFreeAlways == TRUE

\* The token semaphore has room.
TokenFree == tokens < inflight

TakeToken ==
  /\ phase = "token"
  /\ TokenFree
  /\ tokens' = tokens + 1
  /\ phase' = "handoff"
  /\ UNCHANGED <<arc, ckpt, config, history, seq, pos, next, job, attempt,
                 failed, err, cancelled>>

IdleWorker == Cardinality({s \in Chunks : job[s] \in Posting}) < inflight

HandOff ==
  /\ phase = "handoff"
  /\ IdleWorker
  /\ job' = [job EXCEPT ![seq] = "send"]
  /\ attempt' = [attempt EXCEPT ![seq] = 0]
  /\ AdvanceChunk
  /\ phase' = "extract"
  /\ UNCHANGED <<arc, ckpt, config, history, next, tokens, failed, err, cancelled>>

\* submit returns ctx.Err(), giving a taken token back.
SubmitCancelled ==
  /\ phase \in {"token", "handoff"}
  /\ cancelled
  /\ tokens' = IF phase = "handoff" THEN tokens - 1 ELSE tokens
  /\ phase' = "unwind"
  /\ UNCHANGED <<arc, ckpt, config, history, seq, pos, next, job, attempt,
                 failed, err, cancelled>>

\* An extraction error or an invalid measurement name ends the shard.
ExtractFails ==
  /\ phase = "extract"
  /\ phase' = "unwind"
  /\ UNCHANGED <<arc, ckpt, config, history, seq, pos, next, tokens, job,
                 attempt, failed, err, cancelled>>

EndOfShard ==
  /\ phase = "extract"
  /\ pos = N
  /\ phase' = "drain"
  /\ UNCHANGED <<arc, ckpt, config, history, seq, pos, next, tokens, job,
                 attempt, failed, err, cancelled>>

-----------------------------------------------------------------------------
(* The checkpoint transaction of one chunk                                 *)

\* Slip: the upsert of an existing row leaves the cursor columns alone.
CommitTxStaleCursor(s) ==
  /\ ckSeq' = IF s > ckSeq THEN s ELSE ckSeq
  /\ ckCur' = IF ckSeq = NoSeq THEN DataOf(s) ELSE ckCur
  /\ UNCHANGED <<ckDone, ckTotal>>

CommitTx(s) ==
  /\ ckSeq' = IF s > ckSeq THEN s ELSE ckSeq
  /\ ckCur' = IF s >= ckSeq THEN DataOf(s) ELSE ckCur
  /\ UNCHANGED <<ckDone, ckTotal>>

(* Inline submit: the extracting goroutine posts and commits by itself     *)

InlineSubmit ==
  /\ phase = "extract"
  /\ pos < N
  /\ ~ AlreadyCommitted(seq)
  /\ ~ pipelined
  /\ phase' = "inline"
  /\ job' = [job EXCEPT ![seq] = "send"]
  /\ attempt' = [attempt EXCEPT ![seq] = 0]
  /\ UNCHANGED <<arc, ckpt, config, history, seq, pos, next, tokens, failed,
                 err, cancelled>>

InlineCommit ==
  /\ phase = "inline"
  /\ job[seq] = "ok"
  /\ CommitTx(seq)
  /\ job' = [job EXCEPT ![seq] = "retired"]
  /\ AdvanceChunk
  /\ phase' = "extract"
  /\ UNCHANGED <<arc, config, history, next, tokens, attempt, failed, err, cancelled>>

\* The post failed, or the commit of a posted chunk did.
InlineFails ==
  /\ phase = "inline"
  /\ job[seq] \in {"ok", "err"}
  /\ disturbed' = TRUE
  /\ job' = [job EXCEPT ![seq] = "retired"]
  /\ phase' = "unwind"
  /\ UNCHANGED <<arc, ckpt, config, runs, seq, pos, next, tokens, attempt,
                 failed, err, cancelled>>

-----------------------------------------------------------------------------
(* Sink.Send for job s, and Arc's answer                                   *)

Attempt(s) ==
  /\ job[s] = "send"
  /\ ~ cancelled
  /\ job' = [job EXCEPT ![s] = "wire"]
  /\ UNCHANGED <<arc, ckpt, config, history, phase, seq, pos, next, tokens,
                 attempt, failed, err, cancelled>>

\* Cancelled before an attempt or during the backoff: ctx.Err().
SendCancelled(s) ==
  /\ job[s] = "send"
  /\ cancelled
  /\ job' = [job EXCEPT ![s] = "err"]
  /\ attempt' = [attempt EXCEPT ![s] = 0]
  /\ UNCHANGED <<arc, ckpt, config, history, phase, seq, pos, next, tokens,
                 failed, err, cancelled>>

\* Arc persists the request before it answers 2xx.
Persist(s) ==
  /\ job[s] = "wire"
  /\ PersistCopy(DataOf(s))
  /\ job' = [job EXCEPT ![s] = "stored"]
  /\ UNCHANGED <<late, ckpt, config, history, phase, seq, pos, next, tokens,
                 attempt, failed, err, cancelled>>

\* A 200, whatever its body.
Accept(s) ==
  /\ job[s] = "stored"
  /\ job' = [job EXCEPT ![s] = "ok"]
  /\ attempt' = [attempt EXCEPT ![s] = 0]
  /\ UNCHANGED <<arc, ckpt, config, history, phase, seq, pos, next, tokens,
                 failed, err, cancelled>>

\* A 4xx other than 429 is permanent: nothing was imported, no retry.
Reject(s) ==
  /\ job[s] = "wire"
  /\ job' = [job EXCEPT ![s] = "err"]
  /\ attempt' = [attempt EXCEPT ![s] = 0]
  /\ disturbed' = TRUE
  /\ UNCHANGED <<arc, ckpt, config, runs, phase, seq, pos, next, tokens,
                 failed, err, cancelled>>

\* A transport error, timeout, 429 or 5xx.  Arc may have persisted the
\* request, or may still do so after the client has given the attempt up.
MayRetry(s) == attempt[s] < MaxRetries /\ ~ cancelled

AttemptFails(s) ==
  /\ job[s] \in {"wire", "stored"}
  /\ IF MayRetry(s)
     THEN /\ job' = [job EXCEPT ![s] = "send"]
          /\ attempt' = [attempt EXCEPT ![s] = @ + 1]
     ELSE /\ job' = [job EXCEPT ![s] = "err"]
          /\ attempt' = [attempt EXCEPT ![s] = 0]
  /\ \/ UNCHANGED late
     \/ job[s] = "wire" /\ late' = late \cup {DataOf(s)}
  /\ disturbed' = TRUE
  /\ UNCHANGED <<copies, ckpt, config, runs, phase, seq, pos, next, tokens,
                 failed, err, cancelled>>

\* Arc persists an abandoned request; another one may be behind it.
LatePersist(c) ==
  /\ c \in late
  /\ PersistCopy(c)
  /\ late' \in {late, late \ {c}}
  /\ UNCHANGED <<ckpt, config, history, phase, seq, pos, next, tokens, job,
                 attempt, failed, err, cancelled>>

-----------------------------------------------------------------------------
(* The committer                                                           *)

HeadPending == next \in Chunks /\ job[next] \in Pending

\* Receive one result into the pending map; an error stops new submits.
Receive(s) ==
  /\ pipelined
  /\ ~ HeadPending
  /\ job[s] \in {"ok", "err"}
  /\ job' = [job EXCEPT ![s] = IF @ = "ok" THEN "pendOk" ELSE "pendErr"]
  /\ err' = (err \/ job[s] = "err")
  /\ UNCHANGED <<arc, ckpt, config, history, phase, seq, pos, next, tokens,
                 attempt, failed, cancelled>>

RetireHead ==
  /\ HeadPending
  /\ job' = [job EXCEPT ![next] = "retired"]
  /\ tokens' = tokens - 1
  /\ next' = next + 1
  /\ UNCHANGED <<arc, config, runs, phase, seq, pos, attempt, cancelled>>

\* Slip: a later success is committed past a failure.
CommitNextDespiteFailure ==
  /\ RetireHead
  /\ job[next] = "pendOk"
  /\ CommitTx(next)
  /\ UNCHANGED <<failed, err, disturbed>>

\* The head's import succeeded: its seq, cursor and deltas are committed.
CommitNext ==
  /\ RetireHead
  /\ ~ failed
  /\ job[next] = "pendOk"
  /\ CommitTx(next)
  /\ UNCHANGED <<failed, err, disturbed>>

\* The head failed to send, or its commit returns an error.
FailNext ==
  /\ RetireHead
  /\ ~ failed
  /\ failed' = TRUE
  /\ err' = TRUE
  /\ disturbed' = TRUE
  /\ UNCHANGED ckpt

\* After a failure the rest is retired without being committed.
DiscardNext ==
  /\ RetireHead
  /\ failed
  /\ UNCHANGED <<ckpt, failed, err, disturbed>>

-----------------------------------------------------------------------------
(* wait, FinishShard, and the ends of a run                                *)

\* loadShard returns; its locals are gone, its sender's jobs are watched on.
Return(p) ==
  /\ phase' = p
  /\ ForgetLocals

\* Workers have exited, results is closed and the committer's loop is over.
Drained ==
  \/ ~ pipelined
  \/ /\ \A s \in Chunks : job[s] \notin Posting \cup {"ok", "err"}
     /\ ~ HeadPending

\* Slip: the drain barrier drops the sender's error.
WaitIgnoringError ==
  /\ phase = "drain"
  /\ Drained
  /\ phase' = "finish"
  /\ UNCHANGED <<arc, ckpt, history, job, locals>>

\* The barrier before the done mark.
Wait ==
  /\ phase = "drain"
  /\ Drained
  /\ IF err THEN Return("failed") ELSE phase' = "finish" /\ UNCHANGED locals
  /\ UNCHANGED <<arc, ckpt, history, job>>

\* Slip: an error return does not join the sender.
UnwindAbruptly ==
  /\ phase = "unwind"
  /\ Return("failed")
  /\ UNCHANGED <<arc, ckpt, history, job>>

\* The deferred wait of an error return.
Unwind ==
  /\ phase = "unwind"
  /\ Drained
  /\ Return("failed")
  /\ UNCHANGED <<arc, ckpt, history, job>>

Finish ==
  /\ phase = "finish"
  /\ ckDone' = TRUE
  /\ ckTotal' = seq
  /\ Return("done")
  /\ UNCHANGED <<arc, ckSeq, ckCur, history, job>>

FinishFails ==
  /\ phase = "finish"
  /\ Return("failed")
  /\ UNCHANGED <<arc, ckpt, history, job>>

\* Another shard has failed: the errgroup cancels the context of all.
Cancel ==
  /\ phase \in Running
  /\ ~ cancelled
  /\ cancelled' = TRUE
  /\ disturbed' = TRUE
  /\ UNCHANGED <<arc, ckpt, config, runs, phase, seq, pos, next, tokens, job,
                 attempt, failed, err>>

\* The process dies; requests already on the wire may still be persisted.
Crash ==
  /\ phase \in Running
  /\ phase' = "down"
  /\ late' = late \cup {DataOf(s) : s \in {t \in Chunks : job[t] = "wire"}}
  /\ job' = NoJobs
  /\ ForgetLocals
  /\ disturbed' = TRUE
  /\ UNCHANGED <<copies, ckpt, runs>>

-----------------------------------------------------------------------------
Extractor ==
  \/ SkipChunk \/ SubmitCheck \/ TakeToken \/ HandOff \/ SubmitCancelled
  \/ EndOfShard \/ InlineSubmit \/ InlineCommit \/ InlineFails
  \/ Wait \/ Unwind \/ Finish \/ FinishFails

Post(s) == Attempt(s) \/ SendCancelled(s)
Answer(s) == Accept(s) \/ Reject(s) \/ AttemptFails(s)
Committer == (\E s \in Chunks : Receive(s)) \/ CommitNext \/ FailNext \/ DiscardNext

Next ==
  \/ \E k \in 1 .. MaxInflight, pl \in BOOLEAN : Start(k, pl)
  \/ StartEnds
  \/ Extractor
  \/ ExtractFails
  \/ \E s \in Chunks : Post(s) \/ Persist(s) \/ Answer(s)
  \/ Committer
  \/ \E c \in Chunks : LatePersist(c)
  \/ Cancel
  \/ Crash

Spec == Init /\ [][Next]_vars

(***************************************************************************)
(* The goroutines of a live process are scheduled, and an attempt ends: it *)
(* is answered, or http.Client.Timeout fires.  Nothing obliges an operator *)
(* to rerun the command, Arc to persist a late request, or anything to     *)
(* fail.                                                                   *)
(***************************************************************************)
Fairness ==
  /\ WF_vars(Extractor)
  /\ WF_vars(Committer)
  /\ \A s \in Chunks : WF_vars(Post(s)) /\ WF_vars(Answer(s))

FairSpec == Spec /\ Fairness

-----------------------------------------------------------------------------
(* Every chunk at or before the committed seq is in Arc: a resume that     *)
(* never reads those chunks again loses nothing (checkpoint.go, "2xx ==    *)
(* durably persisted").                                                    *)
CommittedInArc == \A c \in Chunks : c <= ckSeq => copies[c] > 0

(* A done mark stands for the whole shard: every chunk is in Arc and the   *)
(* recorded total is the number of chunks, after any mix of seek and       *)
(* legacy resumes (the drain barrier of loadShard).                        *)
DoneIsComplete ==
  ckDone => /\ ckTotal = N
            /\ \A c \in Chunks : copies[c] > 0

(* What Arc holds, or may still come to hold, past the committed seq is    *)
(* within one chunk more than --inflight: the submit that passed its error *)
(* check before a failure is the one more (sender.submit).  The first run  *)
(* is bounded by its own --inflight, what several leave behind by the      *)
(* largest they used.                                                      *)
Ahead == IF runs = 1 /\ phase \in Running THEN inflight ELSE MaxInflight

OvershootBounded ==
  \A c \in Chunks :
    (copies[c] > 0 \/ c \in late \/ (phase \in Running /\ job[c] \in Posting))
      => c <= ckSeq + Ahead + 1

(* No chunk is imported twice unless a request failed, a run was cancelled *)
(* or the process died: reruns alone, after an extraction error or a       *)
(* failed read of the checkpoint, duplicate nothing, because the deferred  *)
(* wait commits whatever was acknowledged.                                 *)
OnceUnlessDisturbed == ~ disturbed => \A c \in Chunks : copies[c] <= 1

(* When loadShard has returned, its sender is at rest: no job is still     *)
(* being posted and no acknowledged one is left uncommitted behind a gap.  *)
SenderAtRest ==
  phase \in {"done", "failed"} => \A s \in Chunks : job[s] \in {"none", "retired"}

(* The committed seq advances one chunk at a time, and only onto a chunk   *)
(* that was acknowledged to this run, with its cursor moving along.        *)
CommitsInOrder ==
  [][ckSeq' # ckSeq => /\ ckSeq' = ckSeq + 1
                       /\ ckCur' = ckSeq'
                       /\ job[ckSeq'] \in {"ok", "pendOk"}]_vars

(* A run never posts a chunk whose import is already committed, on either  *)
(* resume path.                                                            *)
NeverResendsCommitted ==
  [][\A s \in Chunks : job[s] # "wire" /\ job'[s] = "wire"
       => DataOf(s) > ckSeq]_vars

(* Every run ends, with the shard done or an error: no chunk is stuck      *)
(* behind the semaphore or the pending map, and the drain comes to an end. *)
RunEnds == (phase \in Running) ~> (phase \notin Running)

(* The load implements the promise of LoadLedger.                          *)
Ledger == INSTANCE LoadLedger
  WITH Window <- MaxInflight + 1,
       stored <- {c \in Chunks : copies[c] > 0},
       acked  <- ckSeq + 1,
       done   <- ckDone
ImplementsLedger == Ledger!LSpec
=============================================================================
