-------------------------- MODULE ShardLoadProofs ---------------------------
(***************************************************************************)
(* Proofs about ShardLoad, for every number of chunks, --inflight, number  *)
(* of attempts and number of runs.  The invariant says where a run is in   *)
(* the shard: how seq, pos, next, the tokens and the committed seq relate, *)
(* and that the jobs alive are exactly those between next and seq.         *)
(***************************************************************************)
EXTENDS ShardLoad, TLAPS

Active == JobStates \ {"none", "retired"}
Acked == {"stored", "ok", "pendOk"}   \* jobs whose chunk Arc has persisted

(* Without a loadShard, and past its drain barrier, there are no jobs; a    *)
(* shard that is done stays so.                                            *)
AtRest ==
  /\ phase \notin Running \ {"finish"} => \A s \in Chunks : job[s] \notin Active
  /\ ckDone => phase \notin Running

(* The cursor ends the committed chunk, so a seek keeps data and numbers   *)
(* together, and so does every step of the run.                            *)
Aligned ==
  /\ ckCur # NoCur => ckCur = ckSeq
  /\ phase \in Running => pos = seq /\ committed <= ckSeq

(* Submitting happens past the committed prefix.                           *)
Submitting ==
  /\ phase \in {"token", "handoff"} => pipelined /\ committed < seq /\ seq < N
  /\ phase = "inline" => ~ pipelined /\ committed < seq /\ seq < N
  /\ phase \in {"drain", "finish"} => seq = N

(* The jobs alive are those between next and seq.                          *)
Window ==
  phase \in Running =>
    /\ \A s \in Chunks : job[s] \in Active =>
         \/ pipelined /\ next <= s /\ s < seq
         \/ phase = "inline" /\ s = seq /\ job[s] \notin Pending
    /\ pipelined =>
         \A s \in Chunks : next <= s /\ s < seq => job[s] \in Active

(* Where the committer stands, and how many tokens are out.                *)
Progress ==
  phase \in Running =>
    /\ IF pipelined
       THEN /\ ckSeq < next
            /\ seq < next => next = committed + 1
            /\ ~ failed => next = ckSeq + 1
            /\ failed => err
            /\ tokens = (IF seq < next THEN 0 ELSE seq - next)
                        + (IF phase = "handoff" THEN 1 ELSE 0)
            /\ tokens <= inflight
       ELSE /\ ckSeq = (IF seq <= committed THEN committed ELSE seq - 1)
            /\ ~ failed /\ ~ err

(* How far past the committed seq a run has got: one submit may pass after *)
(* its error check.                                                        *)
Reach ==
  /\ phase \in Running => seq <= ckSeq + inflight + 2
  /\ phase \in {"token", "handoff"} => seq <= ckSeq + inflight + 1
  /\ \A c \in Chunks :
       copies[c] > 0 \/ c \in late => c <= ckSeq + MaxInflight + 1

Stored ==
  /\ CommittedInArc
  /\ \A s \in Chunks : job[s] \in Acked => copies[s] > 0

Finished ==
  /\ phase = "finish" => ckSeq = N-1
  /\ ckDone => ckSeq = N-1 /\ ckTotal = N

IInv ==
  /\ TypeOK
  /\ AtRest
  /\ Aligned
  /\ Submitting
  /\ Window
  /\ Progress
  /\ Reach
  /\ Stored
  /\ Finished

(* Without a disturbance nothing fails, and a chunk is in Arc only if it   *)
(* is committed or its job is on the way to be.                            *)
Calm ==
  ~ disturbed =>
    /\ ~ cancelled /\ ~ err /\ ~ failed
    /\ late = {}
    /\ \A s \in Chunks : job[s] \notin {"err", "pendErr"}
    /\ \A c \in Chunks : copies[c] <= 1
    /\ \A c \in Chunks : copies[c] > 0 => c <= ckSeq \/ job[c] \in Acked

(* The first run finds at most one chunk of an earlier version past the    *)
(* committed seq, and gets no further past it than its own --inflight      *)
(* allows.                                                                 *)
FirstReach ==
  /\ runs = 0 => phase \notin Running
  /\ runs = 0 => \A c \in Chunks : copies[c] > 0 \/ c \in late => c <= ckSeq + 1
  /\ runs = 1 /\ phase \in Running =>
       \A c \in Chunks : copies[c] > 0 \/ c \in late => c <= ckSeq + inflight + 1
-----------------------------------------------------------------------------
USE ConstantsAssumption DEF Chunks, NoSeq, NoCur

(* The values the locals have when no loadShard runs are of their types.   *)
LEMMA RestTypes ==
  /\ NoAttempts \in [Chunks -> 0 .. MaxRetries]
  /\ NoJobs \in [Chunks -> JobStates]
  /\ \A s \in Chunks : NoJobs[s] = "none"
  BY DEF NoAttempts, NoJobs, JobStates

(* Every return from loadShard leaves the locals well typed.               *)
LEMMA ForgetTypes ==
  ASSUME ForgetLocals, phase' \in Phases
  PROVE  LocalTypeOK' /\ attempt' \in [Chunks -> 0 .. MaxRetries]
<1> USE DEF ForgetLocals
<1>1. attempt' \in [Chunks -> 0 .. MaxRetries]
  BY RestTypes
<1>2. pipelined' \in BOOLEAN /\ failed' \in BOOLEAN /\ err' \in BOOLEAN
      /\ cancelled' \in BOOLEAN
  OBVIOUS
<1>3. inflight' \in 1 .. MaxInflight /\ tokens' \in 0 .. MaxInflight
  OBVIOUS
<1>4. committed' \in NoSeq .. N-1 /\ seq' \in 0 .. N /\ pos' \in 0 .. N
      /\ next' \in 0 .. N
  OBVIOUS
<1>5. QED
  BY <1>1, <1>2, <1>3, <1>4 DEF LocalTypeOK

(* The checkpoint a load may start from is well typed.                     *)
LEMMA InitTypes == ASSUME Init PROVE TypeOK
<1> USE DEF Init
<1>1. DurableTypeOK
  <2>1. ckSeq \in NoSeq .. N-1 /\ ckCur \in NoCur .. N-1 /\ ckTotal \in 0 .. N
       /\ runs \in 0 .. MaxRuns
    OBVIOUS
  <2>2. disturbed \in BOOLEAN
    OBVIOUS
  <2>3. ckDone \in BOOLEAN
    OBVIOUS
  <2>4. copies \in [Chunks -> 0 .. 2] /\ late \in SUBSET Chunks
    OBVIOUS
  <2>5. QED
    BY <2>1, <2>2, <2>3, <2>4 DEF DurableTypeOK
<1>2. JobTypeOK
  BY RestTypes DEF JobTypeOK
<1>3. LocalTypeOK
  <2>1. pipelined \in BOOLEAN /\ failed \in BOOLEAN /\ err \in BOOLEAN
      /\ cancelled \in BOOLEAN
    OBVIOUS
  <2>2. phase \in Phases
    BY DEF Phases
  <2>3. inflight \in 1 .. MaxInflight /\ tokens \in 0 .. MaxInflight
      /\ committed \in NoSeq .. N-1 /\ seq \in 0 .. N /\ pos \in 0 .. N
      /\ next \in 0 .. N
    OBVIOUS
  <2>4. QED
    BY <2>1, <2>2, <2>3 DEF LocalTypeOK
<1>4. QED
  BY <1>1, <1>2, <1>3 DEF TypeOK

(* ... and satisfies the invariant.                                        *)
LEMMA InitIInv == ASSUME Init PROVE IInv
<1>1. AtRest /\ Aligned /\ Submitting /\ Window /\ Progress
  BY RestTypes DEF Init, AtRest, Aligned, Submitting, Window, Progress, Active,
       Running
<1>2. Reach
  BY DEF Init, Reach, Running
<1>3. Stored /\ Finished
  BY RestTypes DEF Init, Stored, CommittedInArc, Acked, Finished
<1>4. QED
  BY InitTypes, <1>1, <1>2, <1>3 DEF IInv

(* The run starts where the checkpoint says: on both resume paths a chunk  *)
(* and its number agree, and the committer waits for the first chunk that  *)
(* is submitted.                                                           *)
LEMMA StartIInv ==
  ASSUME IInv, NEW k \in 1 .. MaxInflight, NEW pl \in BOOLEAN,
         Start(k, pl)
  PROVE  IInv'
<1> USE DEF IInv, TypeOK, DurableTypeOK, JobTypeOK, LocalTypeOK, AtRest, Aligned,
            Submitting, Window, Progress, Reach, Stored, CommittedInArc, Finished,
            Running, Phases, JobStates, Active, Posting, Pending, Acked, arc, ckpt
<1>1. TypeOK'
  <2>1. DurableTypeOK'
    BY DEF Start
  <2>2. JobTypeOK'
    BY RestTypes DEF Start
  <2>3. LocalTypeOK'
    <3>1. phase' \in Phases /\ inflight' \in 1 .. MaxInflight
          /\ tokens' \in 0 .. MaxInflight
      BY DEF Start
    <3>2. pipelined' \in BOOLEAN /\ failed' \in BOOLEAN /\ err' \in BOOLEAN
          /\ cancelled' \in BOOLEAN
      BY DEF Start
    <3>3. committed' \in NoSeq .. N-1 /\ next' \in 0 .. N
      BY DEF Start, FirstSeq
    <3>4. seq' \in 0 .. N /\ pos' \in 0 .. N
      BY DEF Start, StartSeq, StartPos, Seekable
    <3>5. QED
      BY <3>1, <3>2, <3>3, <3>4
  <2>4. QED
    BY <2>1, <2>2, <2>3
<1>2. AtRest'
  BY RestTypes DEF Start
<1>3. Aligned'
  BY DEF Start, StartSeq, StartPos, Seekable
<1>4. Submitting'
  BY DEF Start
<1>5. Window'
  BY RestTypes DEF Start, StartSeq, FirstSeq, Seekable
<1>6. Progress'
  BY DEF Start, StartSeq, StartPos, FirstSeq, Seekable
<1>7. Reach'
  BY DEF Start, StartSeq, Seekable
<1>8. Stored'
  BY RestTypes DEF Start
<1>9. Finished'
  BY DEF Start
<1>10. QED
  BY <1>1, <1>2, <1>3, <1>4, <1>5, <1>6, <1>7, <1>8, <1>9 DEF IInv

(* A run that finds nothing to do, or cannot read the row, leaves all as   *)
(* it was.                                                                 *)
LEMMA StartEndsIInv == ASSUME IInv, StartEnds PROVE IInv'
  BY RestTypes DEF StartEnds, locals, IInv, TypeOK, DurableTypeOK, JobTypeOK,
        LocalTypeOK, AtRest, Aligned, Submitting, Window, Progress, Reach, Stored,
        CommittedInArc, Finished,
        Running, Phases, JobStates, Active, Posting, Pending, Acked, arc, ckpt

(* A job alive carries the chunk its number says.                          *)
LEMMA DataIsNumber ==
  ASSUME IInv, NEW s \in Chunks, job[s] \in Active
  PROVE  DataOf(s) = s /\ phase \in Running /\ s <= seq
  BY DEF IInv, TypeOK, LocalTypeOK, AtRest, Aligned, Window, DataOf, Running

(* A job alive is past the committed prefix and within reach of it.        *)
LEMMA ActiveReach ==
  ASSUME IInv, NEW s \in Chunks, job[s] \in Active
  PROVE  ckSeq < s /\ s <= ckSeq + inflight + 1 /\ s <= ckSeq + MaxInflight + 1
<1>1. phase \in Running
  BY DataIsNumber
<1>2. ckSeq < s
  BY <1>1 DEF IInv, TypeOK, DurableTypeOK, LocalTypeOK, Submitting, Window, Progress
<1>3. s <= ckSeq + inflight + 1 /\ s <= ckSeq + MaxInflight + 1
  BY <1>1 DEF IInv, TypeOK, DurableTypeOK, LocalTypeOK, Submitting, Window,
              Progress, Reach
<1>4. QED
  BY <1>2, <1>3

(* What Arc holds after it has persisted a chunk.                          *)
LEMMA PersistCopyGrows ==
  ASSUME DurableTypeOK, NEW c \in Chunks, PersistCopy(c)
  PROVE  /\ copies' \in [Chunks -> 0 .. 2]
         /\ copies'[c] > 0
         /\ \A d \in Chunks : d # c => copies'[d] = copies[d]
         /\ \A d \in Chunks : copies[d] > 0 => copies'[d] > 0
  BY DEF DurableTypeOK, PersistCopy

(* The extracting goroutine: what it submits lies past the committed       *)
(* prefix and takes its place at the end of the window.                    *)
LEMMA ExtractIInv ==
  ASSUME IInv, 
         SkipChunk \/ SubmitCheck \/ TakeToken \/ HandOff \/
         SubmitCancelled \/ ExtractFails \/ EndOfShard \/
         InlineSubmit \/ InlineCommit \/ InlineFails
  PROVE  IInv'
<1> USE DEF IInv, TypeOK, DurableTypeOK, JobTypeOK, LocalTypeOK, AtRest, Aligned,
            Submitting, Window, Progress, Reach, Stored, CommittedInArc, Finished,
            Running, Phases, JobStates, Active, Posting, Pending, Acked,
            arc, ckpt, config, history
<1>1. CASE SkipChunk
  BY <1>1 DEF SkipChunk, AdvanceChunk, AlreadyCommitted
<1>2. CASE SubmitCheck
  BY <1>2 DEF SubmitCheck, AlreadyCommitted
<1>3. CASE TakeToken
  BY <1>3 DEF TakeToken, TokenFree
<1>4. CASE HandOff
  BY <1>4 DEF HandOff, AdvanceChunk
<1>5. CASE SubmitCancelled
  BY <1>5 DEF SubmitCancelled
<1>6. CASE ExtractFails
  BY <1>6 DEF ExtractFails
<1>7. CASE EndOfShard
  BY <1>7 DEF EndOfShard
<1>8. CASE InlineSubmit
  BY <1>8 DEF InlineSubmit, AlreadyCommitted
<1>9. CASE InlineCommit
  BY <1>9 DEF InlineCommit, AdvanceChunk, CommitTx, DataOf
<1>10. CASE InlineFails
  BY <1>10 DEF InlineFails
<1>11. QED
  BY <1>1, <1>2, <1>3, <1>4, <1>5, <1>6, <1>7, <1>8, <1>9, <1>10

(* The sink, Arc, and the receipt of a result: copies only grow, within    *)
(* the reach of the run, and a job stays alive.                            *)
LEMMA SendIInv ==
  ASSUME IInv, NEW s \in Chunks,
         Attempt(s) \/ SendCancelled(s) \/ Persist(s) \/ Accept(s) \/
         Reject(s) \/ AttemptFails(s) \/ LatePersist(s) \/
         Receive(s)
  PROVE  IInv'
<1> USE DEF IInv, TypeOK, DurableTypeOK, JobTypeOK, LocalTypeOK, AtRest, Aligned,
            Submitting, Window, Progress, Reach, Stored, CommittedInArc, Finished,
            Running, Phases, JobStates, Active, Posting, Pending, Acked,
            arc, ckpt, config, history
<1>1. CASE Attempt(s)
  BY <1>1 DEF Attempt
<1>2. CASE SendCancelled(s)
  BY <1>2 DEF SendCancelled
<1>3. CASE Persist(s)
  <2>1. DataOf(s) = s /\ phase \in Running /\ s <= seq /\ PersistCopy(s)
    BY <1>3, DataIsNumber DEF Persist
  <2>2. DurableTypeOK'
    BY <1>3, <2>1, PersistCopyGrows DEF Persist
  <2>3. JobTypeOK' /\ LocalTypeOK'
    BY <1>3 DEF Persist
  <2>4. (AtRest /\ Aligned /\ Submitting /\ Window /\ Progress /\ Finished)'
    BY <1>3 DEF Persist
  <2>5. Reach' /\ Stored'
    BY <1>3, <2>1, PersistCopyGrows DEF Persist
  <2>6. QED
    BY <2>2, <2>3, <2>4, <2>5 DEF IInv
<1>4. CASE Accept(s)
  BY <1>4 DEF Accept
<1>5. CASE Reject(s)
  BY <1>5 DEF Reject
<1>6. CASE AttemptFails(s)
  <2>1. TypeOK'
    <3>1. DurableTypeOK'
      BY <1>6, DataIsNumber DEF AttemptFails
    <3>2. JobTypeOK'
      <4>1. CASE MayRetry(s)
        <5>1. attempt[s] + 1 \in 0 .. MaxRetries
          BY <4>1 DEF MayRetry
        <5>2. QED
          BY ONLY <1>6, <4>1, <5>1, JobTypeOK
             DEF AttemptFails, JobTypeOK, JobStates, Posting
      <4>2. CASE ~ MayRetry(s)
        BY <1>6, <4>2 DEF AttemptFails
      <4>3. QED
        BY <4>1, <4>2
    <3>3. LocalTypeOK'
      BY <1>6 DEF AttemptFails
    <3>4. QED
      BY <3>1, <3>2, <3>3
  <2>2. AtRest'
    BY <1>6 DEF AttemptFails
  <2>3. Aligned'
    BY <1>6 DEF AttemptFails
  <2>4. Submitting'
    BY <1>6 DEF AttemptFails
  <2>5. Window'
    BY <1>6, SMTT(20) DEF AttemptFails
  <2>6. Progress'
    BY <1>6 DEF AttemptFails
  <2>7. Reach'
    BY <1>6, DataIsNumber, ActiveReach DEF AttemptFails
  <2>8. Stored'
    BY <1>6 DEF AttemptFails
  <2>9. Finished'
    BY <1>6 DEF AttemptFails
  <2>10. QED
    BY <2>1, <2>2, <2>3, <2>4, <2>5, <2>6, <2>7, <2>8, <2>9 DEF IInv
<1>7. CASE LatePersist(s)
  BY <1>7 DEF LatePersist, PersistCopy
<1>8. CASE Receive(s)
  BY <1>8 DEF Receive, HeadPending
<1>9. QED
  BY <1>1, <1>2, <1>3, <1>4, <1>5, <1>6, <1>7, <1>8

(* The committer: next leaves the window at its lower end, and the         *)
(* committed seq follows it until the first failure.                       *)
LEMMA RetireIInv ==
  ASSUME IInv, 
         CommitNext \/ FailNext \/ DiscardNext
  PROVE  IInv'
<1> USE DEF IInv, TypeOK, DurableTypeOK, JobTypeOK, LocalTypeOK, AtRest, Aligned,
            Submitting, Window, Progress, Reach, Stored, CommittedInArc, Finished,
            Running, Phases, JobStates, Active, Posting, Pending, Acked,
            arc, ckpt, config, history, RetireHead, HeadPending
<1>1. CASE CommitNext
  BY <1>1 DEF CommitNext, CommitTx, DataOf
<1>2. CASE FailNext
  BY <1>2 DEF FailNext
<1>3. CASE DiscardNext
  BY <1>3 DEF DiscardNext
<1>4. QED
  BY <1>1, <1>2, <1>3

(* A run ends only when its window is empty; Cancel changes nothing else,  *)
(* and a crash forgets the run but not what it had on the wire.            *)
LEMMA EndIInv ==
  ASSUME IInv, 
         Wait \/ Unwind \/ Finish \/ FinishFails \/ Cancel \/ Crash
  PROVE  IInv'
<1> USE DEF IInv, TypeOK, DurableTypeOK, JobTypeOK, LocalTypeOK, AtRest, Aligned,
            Submitting, Window, Progress, Reach, Stored, CommittedInArc, Finished,
            Running, Phases, JobStates, Active, Posting, Pending, Acked,
            arc, ckpt, config, history
<1>1. CASE Wait
  <2>1. TypeOK'
    <3>1. CASE err
      <4>1. DurableTypeOK'
        BY <1>1 DEF Wait
      <4>2. LocalTypeOK' /\ JobTypeOK'
        BY <1>1, <3>1, ForgetTypes DEF Wait, Return
      <4>3. QED
        BY <4>1, <4>2
    <3>2. CASE ~ err
      BY <1>1, <3>2 DEF Wait, locals
    <3>3. QED
      BY <3>1, <3>2
  <2>2. AtRest'
    BY <1>1 DEF Wait, Drained, HeadPending, Return
  <2>3. Aligned' /\ Submitting' /\ Finished'
    <3>1. CASE err
      BY <1>1, <3>1 DEF Wait, Return
    <3>2. CASE ~ err
      <4>1. Finished'
        BY <1>1, <3>2 DEF Wait, Drained, HeadPending, locals
      <4>2. Aligned' /\ Submitting'
        BY <1>1, <3>2 DEF Wait, locals
      <4>3. QED
        BY <4>1, <4>2
    <3>3. QED
      BY <3>1, <3>2
  <2>4. Window'
    BY <1>1 DEF Wait, Return, ForgetLocals, locals
  <2>5. Progress'
    BY <1>1 DEF Wait, Return, ForgetLocals, locals
  <2>6. Reach'
    BY <1>1 DEF Wait, Return, ForgetLocals, locals
  <2>7. Stored'
    BY <1>1 DEF Wait, Return, ForgetLocals, locals
  <2>8. QED
    BY <2>1, <2>2, <2>3, <2>4, <2>5, <2>6, <2>7 DEF IInv
<1>2. CASE Unwind
  <2>1. TypeOK'
    <3>1. phase' \in Phases
      BY <1>2 DEF Unwind, Return
    <3>2. DurableTypeOK'
      BY <1>2 DEF Unwind, Return
    <3>3. LocalTypeOK' /\ JobTypeOK'
      BY <1>2, <3>1, ForgetTypes DEF Unwind, Return
    <3>4. QED
      BY <3>2, <3>3 DEF TypeOK
  <2>2. AtRest'
    BY <1>2 DEF Unwind, Drained, HeadPending, Return
  <2>3. Aligned' /\ Submitting' /\ Finished'
    BY <1>2 DEF Unwind, Return
  <2>4. Window'
    BY <1>2 DEF Unwind, Return
  <2>5. Progress'
    BY <1>2 DEF Unwind, Return
  <2>6. Reach'
    BY <1>2 DEF Unwind, Return
  <2>7. Stored'
    BY <1>2 DEF Unwind, Return
  <2>8. QED
    BY <2>1, <2>2, <2>3, <2>4, <2>5, <2>6, <2>7 DEF IInv
<1>3. CASE Finish
  <2>1. TypeOK'
    <3>1. phase' \in Phases
      BY <1>3 DEF Finish, Return
    <3>2. DurableTypeOK'
      BY <1>3 DEF Finish, Return
    <3>3. LocalTypeOK' /\ JobTypeOK'
      BY <1>3, <3>1, ForgetTypes DEF Finish, Return
    <3>4. QED
      BY <3>2, <3>3 DEF TypeOK
  <2>2. AtRest'
    BY <1>3 DEF Finish, Return
  <2>3. Aligned' /\ Submitting' /\ Finished'
    BY <1>3 DEF Finish, Return
  <2>4. Window'
    BY <1>3 DEF Finish, Return
  <2>5. Progress'
    BY <1>3 DEF Finish, Return
  <2>6. Reach'
    BY <1>3 DEF Finish, Return
  <2>7. Stored'
    BY <1>3 DEF Finish, Return
  <2>8. QED
    BY <2>1, <2>2, <2>3, <2>4, <2>5, <2>6, <2>7 DEF IInv
<1>4. CASE FinishFails
  <2>1. TypeOK'
    <3>1. phase' \in Phases
      BY <1>4 DEF FinishFails, Return
    <3>2. DurableTypeOK'
      BY <1>4 DEF FinishFails, Return
    <3>3. LocalTypeOK' /\ JobTypeOK'
      BY <1>4, <3>1, ForgetTypes DEF FinishFails, Return
    <3>4. QED
      BY <3>2, <3>3 DEF TypeOK
  <2>2. AtRest'
    BY <1>4 DEF FinishFails, Return
  <2>3. Aligned' /\ Submitting' /\ Finished'
    BY <1>4 DEF FinishFails, Return
  <2>4. Window'
    BY <1>4 DEF FinishFails, Return
  <2>5. Progress'
    BY <1>4 DEF FinishFails, Return
  <2>6. Reach'
    BY <1>4 DEF FinishFails, Return
  <2>7. Stored'
    BY <1>4 DEF FinishFails, Return
  <2>8. QED
    BY <2>1, <2>2, <2>3, <2>4, <2>5, <2>6, <2>7 DEF IInv
<1>5. CASE Cancel
  BY <1>5 DEF Cancel
<1>6. CASE Crash
  <2>1. TypeOK'
    <3>1. DurableTypeOK'
      <4>1. late' \in SUBSET Chunks
        <5>1. \A t \in Chunks : job[t] = "wire" => DataOf(t) \in Chunks
          BY DataIsNumber
        <5>2. late' = late \cup {DataOf(t) : t \in {u \in Chunks : job[u] = "wire"}}
          BY <1>6 DEF Crash
        <5>3. late \in SUBSET Chunks
          OBVIOUS
        <5>4. QED
          BY ONLY <5>1, <5>2, <5>3
      <4>2. disturbed' \in BOOLEAN
        BY <1>6 DEF Crash
      <4>3. QED
        BY <1>6, <4>1, <4>2 DEF Crash
    <3>2. LocalTypeOK' /\ JobTypeOK'
      BY <1>6, RestTypes, ForgetTypes DEF Crash
    <3>3. QED
      BY <3>1, <3>2 DEF TypeOK
  <2>2. AtRest'
    BY <1>6, RestTypes DEF Crash
  <2>3. Aligned' /\ Submitting' /\ Finished'
    BY <1>6 DEF Crash
  <2>4. Window'
    BY <1>6, RestTypes DEF Crash
  <2>5. Progress'
    BY <1>6 DEF Crash
  <2>6. Reach'
    <3>1. \A c \in Chunks : c \in late' => c \in late \/ job[c] = "wire"
      BY <1>6, DataIsNumber, SMTT(20) DEF Crash
    <3>2. \A c \in Chunks : c \in late' => c <= ckSeq + MaxInflight + 1
      BY <3>1, ActiveReach
    <3>3. copies' = copies /\ ckSeq' = ckSeq /\ phase' = "down"
      BY <1>6 DEF Crash
    <3>4. QED
      BY <3>2, <3>3
  <2>7. Stored'
    BY <1>6, RestTypes DEF Crash
  <2>8. QED
    BY <2>1, <2>2, <2>3, <2>4, <2>5, <2>6, <2>7 DEF IInv
<1>7. QED
  BY <1>1, <1>2, <1>3, <1>4, <1>5, <1>6

(* Every step of the load preserves the invariant.                         *)
LEMMA NextIInv == ASSUME IInv, [Next]_vars PROVE IInv'
<1>1. CASE UNCHANGED vars
  BY <1>1 DEF vars, IInv, TypeOK, DurableTypeOK, JobTypeOK, LocalTypeOK, AtRest,
              Aligned, Submitting, Window, Progress, Reach, Stored,
              CommittedInArc, Finished
<1>2. CASE Next
  <2>1. CASE \E k \in 1 .. MaxInflight, pl \in BOOLEAN : Start(k, pl)
    BY <2>1, StartIInv
  <2>2. CASE StartEnds
    BY <2>2, StartEndsIInv
  <2>3. CASE Extractor \/ ExtractFails
    BY <2>3, ExtractIInv, EndIInv DEF Extractor
  <2>4. CASE \E s \in Chunks : Post(s) \/ Persist(s) \/ Answer(s)
    BY <2>4, SendIInv DEF Post, Answer
  <2>5. CASE Committer
    BY <2>5, SendIInv, RetireIInv DEF Committer
  <2>6. CASE \E c \in Chunks : LatePersist(c)
    BY <2>6, SendIInv
  <2>7. CASE Cancel \/ Crash
    BY <2>7, EndIInv
  <2>8. QED
    BY <1>2, <2>1, <2>2, <2>3, <2>4, <2>5, <2>6, <2>7 DEF Next
<1>3. QED
  BY <1>1, <1>2

(* The invariant holds throughout every load.                              *)
THEOREM Invariance == Spec => []IInv
  BY InitIInv, NextIInv, PTL DEF Spec

-----------------------------------------------------------------------------
(* What follows from the invariant in a single state                       *)

(* Arc, the checkpoint row and the locals of every run are well typed.     *)
THEOREM TypeCorrect == Spec => []TypeOK
<1>1. IInv => TypeOK
  BY DEF IInv
<1>2. QED
  BY <1>1, Invariance, PTL

(* A committed chunk is in Arc, in every state of every load.              *)
THEOREM CommittedIsDurable == Spec => []CommittedInArc
<1>1. IInv => CommittedInArc
  BY DEF IInv, Stored
<1>2. QED
  BY <1>1, Invariance, PTL

(* A shard is only ever marked done as a whole.                            *)
THEOREM DoneMeansAll == Spec => []DoneIsComplete
<1>1. IInv => DoneIsComplete
  BY DEF IInv, Stored, CommittedInArc, Finished, DoneIsComplete
<1>2. QED
  BY <1>1, Invariance, PTL

(* loadShard never returns with a job still in its sender.                 *)
THEOREM SenderJoined == Spec => []SenderAtRest
<1>1. IInv => SenderAtRest
  BY DEF IInv, TypeOK, JobTypeOK, AtRest, Active, Running, SenderAtRest
<1>2. QED
  BY <1>1, Invariance, PTL

-----------------------------------------------------------------------------
(* What follows for a step                                                 *)

(* The checkpoint's cursor and done mark change in three actions only.     *)
LEMMA CheckpointSteps ==
  ASSUME [Next]_vars, UNCHANGED <<ckSeq, ckDone>> => FALSE
  PROVE  InlineCommit \/ CommitNext \/ Finish
  BY DEF vars, Next, Extractor, Post, Answer, Committer, Start, StartEnds,
         SkipChunk, SubmitCheck, TakeToken, HandOff, SubmitCancelled,
         ExtractFails, EndOfShard, InlineSubmit, InlineFails, Attempt,
         SendCancelled, Persist, Accept, Reject, AttemptFails, LatePersist,
         Receive, FailNext, DiscardNext, Wait, Unwind, FinishFails, Cancel,
         Crash, ckpt

(* A step that moves the committed seq moves it onto the next chunk, which *)
(* was acknowledged, and the cursor with it.                               *)
LEMMA CommitStep ==
  ASSUME IInv, [Next]_vars, ckSeq' # ckSeq
  PROVE  /\ ckSeq' = ckSeq + 1
         /\ ckCur' = ckSeq'
         /\ job[ckSeq'] \in {"ok", "pendOk"}
<1>1. CASE InlineCommit
  BY <1>1 DEF InlineCommit, CommitTx, DataOf, IInv, TypeOK, DurableTypeOK,
       LocalTypeOK, Aligned, Submitting, Window, Progress, Running, Active, JobStates
<1>2. CASE CommitNext
  <2>1. job[next] \in Active /\ next \in Chunks
    BY <1>2 DEF CommitNext, RetireHead, HeadPending, Pending, Active, JobStates
  <2>2. phase \in Running /\ DataOf(next) = next
    BY <2>1, DataIsNumber
  <2>3. next = ckSeq + 1
    BY <1>2, <2>1, <2>2 DEF CommitNext, RetireHead, HeadPending, Pending,
         IInv, Window, Progress
  <2>4. QED
    BY <1>2, <2>2, <2>3 DEF CommitNext, CommitTx, IInv, TypeOK, DurableTypeOK
<1>3. CASE Finish
  BY <1>3 DEF Finish
<1>4. QED
  BY <1>1, <1>2, <1>3, CheckpointSteps

(* Commits happen in order, one chunk at a time, each acknowledged.        *)
THEOREM InOrder == Spec => CommitsInOrder
<1>1. IInv /\ [Next]_vars
      => (ckSeq' # ckSeq => /\ ckSeq' = ckSeq + 1
                            /\ ckCur' = ckSeq'
                            /\ job[ckSeq'] \in {"ok", "pendOk"})
  BY CommitStep
<1>2. QED
  BY <1>1, Invariance, PTL DEF Spec, CommitsInOrder

(* Arc's copies, the committed seq and the done mark change in these       *)
(* actions only.                                                           *)
LEMMA OtherSteps ==
  ASSUME [Next]_vars
  PROVE  \/ UNCHANGED <<copies, ckSeq, ckDone>>
         \/ \E s \in Chunks : Persist(s) \/ LatePersist(s)
         \/ InlineCommit \/ CommitNext \/ Finish
<1>1. CASE \E s \in Chunks : Post(s) \/ Persist(s) \/ Answer(s)
  BY <1>1 DEF Post, Answer, Attempt, SendCancelled, Accept, Reject, AttemptFails,
       arc, ckpt
<1>2. CASE Committer
  BY <1>2 DEF Committer, Receive, FailNext, DiscardNext, RetireHead, arc, ckpt
<1>3. QED
  BY <1>1, <1>2 DEF vars, Next, Extractor, Start, StartEnds, SkipChunk,
       SubmitCheck, TakeToken, HandOff, SubmitCancelled, ExtractFails,
       EndOfShard, InlineSubmit, InlineFails, Wait, Unwind, FinishFails,
       Cancel, Crash, arc, ckpt

(* Only an attempt puts a request on the wire.                             *)
LEMMA WireSteps ==
  ASSUME IInv, [Next]_vars, NEW s \in Chunks, job[s] # "wire", job'[s] = "wire"
  PROVE  Attempt(s)
<1> USE DEF IInv, TypeOK, JobTypeOK
<1>1. CASE UNCHANGED vars
  BY <1>1 DEF vars
<1>2. CASE \E k \in 1 .. MaxInflight, pl \in BOOLEAN : Start(k, pl)
  BY <1>2, RestTypes DEF Start
<1>3. CASE StartEnds
  BY <1>3, RestTypes DEF StartEnds
<1>4. CASE Extractor \/ ExtractFails
  BY <1>4 DEF Extractor, ExtractFails, SkipChunk, SubmitCheck, TakeToken,
       HandOff, SubmitCancelled, EndOfShard, InlineSubmit, InlineCommit,
       InlineFails, Wait, Unwind, Finish, FinishFails
<1>5. CASE \E t \in Chunks : Post(t) \/ Persist(t) \/ Answer(t)
  <2> PICK t \in Chunks : Post(t) \/ Persist(t) \/ Answer(t)
    BY <1>5
  <2>1. t = s
    BY DEF Post, Answer, Attempt, SendCancelled, Persist, Accept, Reject,
         AttemptFails
  <2>2. QED
    BY <2>1 DEF Post, Answer, SendCancelled, Persist, Accept, Reject, AttemptFails
<1>6. CASE Committer
  BY <1>6 DEF Committer, Receive, CommitNext, FailNext, DiscardNext, RetireHead,
       HeadPending
<1>7. CASE \E c \in Chunks : LatePersist(c)
  BY <1>7 DEF LatePersist
<1>8. CASE Cancel \/ Crash
  BY <1>8, RestTypes DEF Cancel, Crash
<1>9. QED
  BY <1>1, <1>2, <1>3, <1>4, <1>5, <1>6, <1>7, <1>8 DEF Next

(* Nothing that is committed is ever posted again.                         *)
THEOREM NoResend == Spec => NeverResendsCommitted
<1> DEFINE Step == \A s \in Chunks : job[s] # "wire" /\ job'[s] = "wire"
                     => DataOf(s) > ckSeq
<1>1. ASSUME IInv, [Next]_vars PROVE Step
  <2> SUFFICES ASSUME NEW s \in Chunks, job[s] # "wire", job'[s] = "wire"
               PROVE  DataOf(s) > ckSeq
    OBVIOUS
  <2>1. Attempt(s)
    BY <1>1, WireSteps
  <2>2. job[s] \in Active
    BY <2>1 DEF Attempt, Active, JobStates, Posting
  <2>3. QED
    BY <1>1, <2>2, DataIsNumber, ActiveReach DEF IInv, TypeOK, DurableTypeOK
<1>2. QED
  BY <1>1, Invariance, PTL DEF Spec, NeverResendsCommitted

-----------------------------------------------------------------------------
(* A load without disturbance                                              *)

LEMMA Behind ==
  ASSUME NEW a \in Int, NEW b \in Int, a <= b, NEW k \in Int, NEW c \in Int, c <= a + k
  PROVE  c <= b + k
  OBVIOUS

(* A step that persists nothing does not bring Arc further ahead.          *)
LEMMA QuietReach ==
  ASSUME IInv, FirstReach, [Next]_vars, UNCHANGED <<copies, late, runs>>,
         inflight' = inflight \/ phase' \notin Running,
         phase' \in Running => phase \in Running
  PROVE  FirstReach'
<1>1. ckSeq \in Int /\ ckSeq' \in Int /\ ckSeq <= ckSeq'
  BY CommitStep, NextIInv DEF IInv, TypeOK, DurableTypeOK
<1>2. ASSUME NEW c \in Chunks, c <= ckSeq + 1 PROVE c <= ckSeq' + 1
  <2>1. c \in Int /\ 1 \in Int
    OBVIOUS
  <2>2. QED
    BY <1>1, <1>2, <2>1, Behind
<1>3. inflight' = inflight =>
        \A c \in Chunks : c <= ckSeq + inflight + 1 => c <= ckSeq' + inflight' + 1
  <2>1. inflight + 1 \in Int /\ ckSeq + inflight + 1 = ckSeq + (inflight + 1)
    BY DEF IInv, TypeOK, DurableTypeOK, LocalTypeOK
  <2>2. ckSeq' + inflight + 1 = ckSeq' + (inflight + 1)
    BY <1>1 DEF IInv, TypeOK, LocalTypeOK
  <2>3. QED
    BY <1>1, <2>1, <2>2, Behind
<1>4. copies' = copies /\ late' = late /\ runs' = runs
  OBVIOUS
<1>5. runs = 1 /\ phase' \in Running =>
        \A c \in Chunks : copies[c] > 0 \/ c \in late => c <= ckSeq' + inflight' + 1
  BY <1>3 DEF FirstReach
<1>6. QED
  BY <1>2, <1>4, <1>5 DEF FirstReach

(* A step by which a chunk within the reach of the run comes to be in Arc, *)
(* or on its way there.                                                    *)
LEMMA GrowReach ==
  ASSUME IInv, FirstReach, NEW s \in Chunks, s <= ckSeq + inflight + 1, phase \in Running,
         \A c \in Chunks : copies'[c] > 0 \/ c \in late' => copies[c] > 0 \/ c \in late \/ c = s,
         UNCHANGED <<ckSeq, inflight, runs, phase>>
  PROVE  FirstReach'
  BY DEF FirstReach

LEMMA NextReach == ASSUME IInv, FirstReach, [Next]_vars PROVE FirstReach'
<1> USE DEF arc, ckpt, config, history
<1>1. CASE UNCHANGED vars
  BY <1>1 DEF vars, FirstReach
<1>2. CASE \E k \in 1 .. MaxInflight, pl \in BOOLEAN : Start(k, pl)
  BY <1>2 DEF Start, FirstReach, IInv, TypeOK, DurableTypeOK
<1>3. CASE StartEnds
  BY <1>3 DEF StartEnds, FirstReach, IInv, TypeOK, DurableTypeOK, Running
<1>4. CASE Extractor \/ ExtractFails
  BY <1>4, QuietReach DEF Extractor, ExtractFails, SkipChunk, SubmitCheck, TakeToken, HandOff,
       SubmitCancelled, EndOfShard, InlineSubmit, InlineCommit, InlineFails, Wait, Unwind,
       Finish, FinishFails, Return, locals, Running
<1>5. CASE \E s \in Chunks : Post(s) \/ Accept(s) \/ Reject(s)
  BY <1>5, QuietReach DEF Post, Attempt, SendCancelled, Accept, Reject
<1>6. CASE \E s \in Chunks : Persist(s)
  <2> PICK s \in Chunks : Persist(s)
    BY <1>6
  <2>1. phase \in Running /\ s <= ckSeq + inflight + 1 /\ PersistCopy(s)
    BY DataIsNumber, ActiveReach DEF Persist, Active, JobStates, Posting
  <2>2. \A c \in Chunks : copies'[c] > 0 => copies[c] > 0 \/ c = s
    BY <2>1, PersistCopyGrows DEF IInv, TypeOK
  <2>3. QED
    BY <2>1, <2>2, GrowReach DEF Persist
<1>7. CASE \E s \in Chunks : AttemptFails(s)
  <2> PICK s \in Chunks : AttemptFails(s)
    BY <1>7
  <2>1. DataOf(s) = s /\ phase \in Running /\ s <= ckSeq + inflight + 1
    BY DataIsNumber, ActiveReach DEF AttemptFails, Active, JobStates, Posting
  <2>2. QED
    BY <2>1, GrowReach DEF AttemptFails
<1>8. CASE \E c \in Chunks : LatePersist(c)
  <2> PICK c \in Chunks : LatePersist(c)
    BY <1>8
  <2>1. c \in late /\ PersistCopy(c)
    BY DEF LatePersist
  <2>2. \A d \in Chunks : copies'[d] > 0 => copies[d] > 0 \/ d = c
    BY <2>1, PersistCopyGrows DEF IInv, TypeOK
  <2>3. QED
    BY <2>1, <2>2 DEF LatePersist, FirstReach
<1>9. CASE Committer
  BY <1>9, QuietReach DEF Committer, Receive, CommitNext, FailNext, DiscardNext, RetireHead
<1>10. CASE Cancel
  BY <1>10, QuietReach DEF Cancel
<1>11. CASE Crash
  BY <1>11 DEF Crash, FirstReach, Running
<1>12. QED
  BY <1>1, <1>2, <1>3, <1>4, <1>5, <1>6, <1>7, <1>8, <1>9, <1>10, <1>11 DEF Next, Answer

(* What Arc holds past the committed seq never exceeds --inflight by more  *)
(* than one chunk.                                                         *)
THEOREM Overshoot == Spec => []OvershootBounded
<1>1. Init => FirstReach
  BY DEF Init, FirstReach, Running
<1>2. Spec => []FirstReach
  BY <1>1, NextReach, Invariance, PTL DEF Spec
<1>3. ASSUME IInv, FirstReach PROVE OvershootBounded
  <2>1. \A c \in Chunks : copies[c] > 0 \/ c \in late => c <= ckSeq + Ahead + 1
    BY <1>3 DEF IInv, Reach, FirstReach, Ahead
  <2>2. ASSUME NEW c \in Chunks, job[c] \in Posting, phase \in Running
        PROVE  c <= ckSeq + Ahead + 1
    BY <1>3, <2>2, ActiveReach DEF Active, JobStates, Posting, Ahead
  <2>3. QED
    BY <2>1, <2>2 DEF OvershootBounded
<1>4. QED
  BY <1>2, <1>3, Invariance, PTL

LEMMA InitCalm == ASSUME Init PROVE Calm
  BY RestTypes DEF Init, Calm

(* Persisting a chunk for the first time: its job was on the wire, past    *)
(* the committed prefix.                                                   *)
LEMMA PersistCalm ==
  ASSUME IInv, Calm, NEW s \in Chunks, Persist(s)
  PROVE  Calm'
<1> SUFFICES ASSUME ~ disturbed
             PROVE  Calm'
  BY DEF Persist, Calm, history
<1>1. DataOf(s) = s /\ ckSeq < s
  BY DataIsNumber, ActiveReach DEF Persist, Active, JobStates, Posting
<1>2. copies[s] = 0
  BY <1>1 DEF Calm, Persist, Acked, IInv, TypeOK, DurableTypeOK
<1>3. copies' = [copies EXCEPT ![s] = 1] /\ job' = [job EXCEPT ![s] = "stored"]
  BY <1>1, <1>2 DEF Persist, PersistCopy, IInv, TypeOK, DurableTypeOK
<1>4. QED
  BY <1>3 DEF Calm, Persist, Acked, IInv, TypeOK, DurableTypeOK, JobTypeOK,
       ckpt, history

LEMMA NextCalm == ASSUME IInv, Calm, [Next]_vars PROVE Calm'
<1> USE DEF Calm, Acked, arc, ckpt, config, history
<1>1. CASE UNCHANGED vars
  BY <1>1 DEF vars
<1>2. CASE \E k \in 1 .. MaxInflight, pl \in BOOLEAN : Start(k, pl)
  BY <1>2, RestTypes DEF Start, IInv, AtRest, Active, JobStates, Pending, Posting
<1>3. CASE StartEnds
  BY <1>3, RestTypes DEF StartEnds, locals, IInv, AtRest, Active, JobStates,
       Pending, Posting
<1>4. CASE SkipChunk \/ SubmitCheck \/ TakeToken \/ SubmitCancelled \/ EndOfShard
           \/ ExtractFails
  BY <1>4 DEF SkipChunk, SubmitCheck, TakeToken, SubmitCancelled, EndOfShard,
       ExtractFails
<1>5. CASE HandOff \/ InlineSubmit
  <2>1. seq \in Chunks /\ job[seq] \notin Acked
    BY <1>5 DEF HandOff, InlineSubmit, IInv, TypeOK, LocalTypeOK, Aligned,
         Submitting, Window, Running, Active, JobStates, Pending, Posting
  <2>2. job' = [job EXCEPT ![seq] = "send"] /\ job \in [Chunks -> JobStates]
    BY <1>5 DEF HandOff, InlineSubmit, IInv, TypeOK, JobTypeOK
  <2>3. UNCHANGED <<copies, late, ckSeq, err, failed, cancelled, disturbed>>
    BY <1>5 DEF HandOff, InlineSubmit
  <2>4. QED
    BY ONLY <2>1, <2>2, <2>3, Calm DEF Calm, Acked
<1>6. CASE InlineCommit
  BY <1>6 DEF InlineCommit, AdvanceChunk, CommitTx, IInv, TypeOK, DurableTypeOK,
       JobTypeOK, LocalTypeOK
<1>7. CASE InlineFails \/ FailNext \/ Cancel \/ Crash
  BY <1>7 DEF InlineFails, FailNext, Cancel, Crash
<1>8. CASE \E s \in Chunks : Post(s) \/ Persist(s) \/ Answer(s)
  <2> PICK s \in Chunks : Post(s) \/ Persist(s) \/ Answer(s)
    BY <1>8
  <2>1. CASE Persist(s)
    BY <2>1, PersistCalm
  <2>2. CASE Attempt(s) \/ SendCancelled(s) \/ Accept(s)
    BY <2>2 DEF Attempt, SendCancelled, Accept, IInv, TypeOK, JobTypeOK
  <2>3. CASE Reject(s) \/ AttemptFails(s)
    BY <2>3 DEF Reject, AttemptFails
  <2>4. QED
    BY <2>1, <2>2, <2>3 DEF Post, Answer
<1>9. CASE \E s \in Chunks : Receive(s)
  <2> PICK s \in Chunks : Receive(s)
    BY <1>9
  <2>1. CASE disturbed
    BY <2>1 DEF Receive
  <2>2. CASE ~ disturbed
    <3>1. job[s] = "ok" /\ job' = [job EXCEPT ![s] = "pendOk"]
      BY <2>2 DEF Receive, IInv, TypeOK, JobTypeOK
    <3>2. job \in [Chunks -> JobStates] /\ ~ err'
      BY <3>1, <2>2 DEF Receive, IInv, TypeOK, JobTypeOK
    <3>3. UNCHANGED <<copies, late, ckSeq, failed, cancelled>>
      BY DEF Receive
    <3>4. QED
      BY ONLY <2>2, <3>1, <3>2, <3>3, Calm DEF Calm, Acked
  <2>3. QED
    BY <2>1, <2>2
<1>10. CASE CommitNext
  BY <1>10 DEF CommitNext, RetireHead, HeadPending, CommitTx, IInv, TypeOK,
       DurableTypeOK, JobTypeOK
<1>11. CASE DiscardNext
  BY <1>11 DEF DiscardNext, RetireHead
<1>12. CASE \E c \in Chunks : LatePersist(c)
  BY <1>12 DEF LatePersist
<1>13. CASE Wait \/ Unwind \/ Finish \/ FinishFails
  BY <1>13 DEF Wait, Unwind, Finish, FinishFails, Return, ForgetLocals, locals
<1>14. QED
  BY <1>1, <1>2, <1>3, <1>4, <1>5, <1>6, <1>7, <1>8, <1>9, <1>10, <1>11, <1>12,
     <1>13 DEF Next, Extractor, Committer

(* Reruns alone never duplicate a chunk.                                   *)
THEOREM NoDuplicates == Spec => []OnceUnlessDisturbed
<1>1. Spec => []Calm
  BY Invariance, InitCalm, NextCalm, PTL DEF Spec
<1>2. Calm => OnceUnlessDisturbed
  BY DEF Calm, OnceUnlessDisturbed
<1>3. QED
  BY <1>1, <1>2, PTL

-----------------------------------------------------------------------------
(* The load implements the ledger                                          *)

StoredChunks == {c \in Chunks : copies[c] > 0}

LEMMA InitLedger == ASSUME Init PROVE Ledger!LInit
<1>1. ckSeq + 1 \in 0 .. N /\ ckDone = FALSE
  BY DEF Init
<1>2. CASE disturbed
  BY <1>1, <1>2 DEF Init, Ledger!LInit, Ledger!Chunks
<1>3. CASE ~ disturbed
  BY <1>1, <1>3 DEF Init, Ledger!LInit, Ledger!Chunks
<1>4. QED
  BY <1>2, <1>3

(* A chunk within reach that Arc persists is a Store, or a further copy.   *)
LEMMA PersistLedger ==
  ASSUME IInv, NEW c \in Chunks, c <= ckSeq + MaxInflight + 1, PersistCopy(c),
         UNCHANGED ckpt
  PROVE  Ledger!Store(c)
<1>1. {d \in Chunks : copies'[d] > 0} = StoredChunks \cup {c}
  BY PersistCopyGrows DEF IInv, TypeOK, StoredChunks
<1>2. ckSeq' = ckSeq /\ ckDone' = ckDone /\ ckSeq \in NoSeq .. N-1
  BY DEF ckpt, IInv, TypeOK, DurableTypeOK
<1>3. QED
  BY <1>1, <1>2 DEF Ledger!Store, StoredChunks

(* A commit acknowledges the next chunk, which Arc holds.                  *)
LEMMA CommitLedger ==
  ASSUME IInv, ckSeq' = ckSeq + 1, ckSeq' \in Chunks, job[ckSeq'] \in Acked,
         UNCHANGED <<copies, ckDone>>
  PROVE  Ledger!Acknowledge
<1>1. copies[ckSeq + 1] > 0 /\ ckSeq + 1 \in Chunks
  BY DEF IInv, Stored
<1>2. QED
  BY <1>1 DEF Ledger!Acknowledge, IInv, TypeOK, DurableTypeOK

LEMMA NextLedger ==
  ASSUME IInv, [Next]_vars
  PROVE  [Ledger!LNext]_Ledger!lvars
<1> USE DEF Ledger!lvars, Ledger!LNext, Ledger!Chunks
<1>1. CASE \E s \in Chunks : Persist(s)
  <2> PICK s \in Chunks : Persist(s)
    BY <1>1
  <2>1. DataOf(s) = s /\ s <= ckSeq + MaxInflight + 1 /\ PersistCopy(DataOf(s))
    BY DataIsNumber, ActiveReach DEF Persist, Active, JobStates, Posting
  <2>2. Ledger!Store(s)
    BY <2>1, PersistLedger DEF Persist
  <2>3. QED
    BY <2>2
<1>2. CASE \E c \in Chunks : LatePersist(c)
  BY <1>2, PersistLedger DEF LatePersist, IInv, Reach
<1>3. CASE InlineCommit \/ CommitNext
  <2>1. CASE ckSeq' = ckSeq
    BY <1>3, <2>1 DEF InlineCommit, CommitNext, RetireHead, CommitTx, arc
  <2>2. CASE ckSeq' # ckSeq
    <3>1. ckSeq' = ckSeq + 1 /\ job[ckSeq'] \in Acked
      BY <2>2, CommitStep DEF Acked
    <3>2. ckSeq' \in Chunks
      BY <3>1, NextIInv DEF IInv, TypeOK, DurableTypeOK
    <3>3. UNCHANGED <<copies, ckDone>>
      BY <1>3 DEF InlineCommit, CommitNext, RetireHead, CommitTx, arc
    <3>4. QED
      BY <3>1, <3>2, <3>3, CommitLedger
  <2>3. QED
    BY <2>1, <2>2
<1>4. CASE Finish
  BY <1>4 DEF Finish, arc, Ledger!MarkDone, IInv, Finished
<1>5. CASE UNCHANGED <<copies, ckSeq, ckDone>>
  BY <1>5
<1>6. QED
  BY <1>1, <1>2, <1>3, <1>4, <1>5, OtherSteps

(* Every load implements the ledger: Arc's holdings only grow, within a    *)
(* window past an acknowledged prefix that they always contain, and the    *)
(* done mark comes when the prefix is the whole shard.                     *)
THEOREM LoadImplementsLedger == Spec => ImplementsLedger
<1>1. Init => Ledger!LInit
  BY InitLedger
<1>2. IInv /\ [Next]_vars => [Ledger!LNext]_Ledger!lvars
  BY NextLedger
<1>3. QED
  BY <1>1, <1>2, Invariance, PTL DEF Spec, ImplementsLedger, Ledger!LSpec
=============================================================================
