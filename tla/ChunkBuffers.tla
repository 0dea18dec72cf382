---------------------------- MODULE ChunkBuffers -----------------------------
(***************************************************************************)
(* The buffers that chunks travel in: the Accumulator of internal/chunk    *)
(* (Append, doFlush, Detach, Recycle) and the part of loadShard and its    *)
(* sender (cmd/tsm2arc/run.go) that passes a chunk's bytes on without      *)
(* copying them and brings the buffer back for reuse.                      *)
(*                                                                         *)
(* A buffer is a piece of memory with a number; a slice is a buffer and a  *)
(* length, as in Go: several slices may share a buffer, append overwrites  *)
(* what lies past the length of the slice it is given, and buf[:0] keeps   *)
(* the memory.  A line is its position among the lines of the run.  Where  *)
(* the cut falls is any choice here (ChunkAudit computes it).  Growing a   *)
(* buffer moves its only owner to new memory and is left out.              *)
(*                                                                         *)
(* A resume that seeks starts like a fresh load, with other numbers; one   *)
(* from an old checkpoint first cuts the committed chunks again and sends  *)
(* none of them.                                                           *)
(***************************************************************************)
EXTENDS Integers, Sequences, FiniteSets

CONSTANTS MaxInflight,  \* the largest --inflight an operator uses
          MaxChunks,    \* bound: chunks cut in one run
          MaxLines      \* bound: lines in a chunk

ASSUME ConstantsAssumption ==
  /\ MaxInflight \in Nat \ {0}
  /\ MaxChunks \in Nat \ {0}
  /\ MaxLines \in Nat \ {0}

Seqs == 0 .. MaxChunks-1
Buffers == 1 .. MaxChunks+1     \* at most one is allocated per chunk
NoBuf == 0

VARIABLES
  pipelined,   \* --pipeline
  inflight,    \* --inflight
  committed,   \* the last chunk that a legacy resume will skip, or -1
  phase,       \* where the goroutine that extracts, cuts and submits is
  mem,         \* mem[b][i]: the line at position i of buffer b, 0 if none
  made,        \* buffers allocated so far: 1 .. made
  cur,         \* Accumulator.buf
  spares,      \* Accumulator.spares
  detached,    \* Accumulator.detached
  seq,         \* Accumulator.seq
  lines,       \* lines appended so far
  ends,        \* history: the last line of each chunk cut so far
  job,         \* job[s]: what the sender holds for chunk s
  tokens,      \* tokens taken from the semaphore
  spare,       \* sender.spare: buffers on their way back
  next,        \* the seq the committer retires next
  putBack,     \* the committer is done with next's buffer, not with its token
  err,         \* sender.err # nil
  cancelled,   \* the run's context is done
  body         \* history: what the sink read for each chunk it was given

accum  == <<mem, made, cur, spares, detached, seq, lines, ends>>
sender == <<job, tokens, spare, next, putBack, err>>
config == <<pipelined, inflight, committed>>
vars == <<pipelined, inflight, committed, phase, mem, made, cur, spares, detached,
          seq, lines, ends, job, tokens, spare, next, putBack, err, cancelled, body>>

(***************************************************************************)
(* "extract"; inside the flush callback: "reclaim", "check" (about to call *)
(* submit), "token", "handoff", "inline"; "swap": the callback has         *)
(* returned nil; "unwind": the shard failed; "drain", "end".               *)
(***************************************************************************)
Phases == {"extract", "reclaim", "check", "token", "handoff", "inline", "swap",
           "unwind", "drain", "end"}

\* "new": a worker has the job; "read": the sink has built its request from
\* the buffer; "result": the post has returned; "retired".
JobStates == {"none", "new", "read", "result", "retired"}
Out == {"new", "read", "result"}

NoJob == [st |-> "none", buf |-> NoBuf, len |-> 0]
NoBody == << >>   \* no chunk is empty

Empty(b) == [buf |-> b, len |-> 0]
Content(slice) == [i \in 1 .. slice.len |-> mem[slice.buf][i]]

Init ==
  /\ pipelined \in BOOLEAN
  /\ inflight \in 1 .. MaxInflight
  /\ committed \in -1 .. 0
  /\ phase = "extract"
  /\ mem = [b \in Buffers |-> [i \in 1 .. MaxLines |-> 0]]
  /\ made = 1
  /\ cur = Empty(1)
  /\ spares = << >>
  /\ detached = FALSE
  /\ seq = 0
  /\ lines = 0
  /\ ends = << >>
  /\ job = [s \in Seqs |-> NoJob]
  /\ tokens = 0
  /\ spare = << >>
  /\ next = committed + 1
  /\ putBack = FALSE
  /\ err = FALSE
  /\ cancelled = FALSE
  /\ body = [s \in Seqs |-> NoBody]

-----------------------------------------------------------------------------
(* The Accumulator                                                         *)

\* a.buf = append(a.buf, line...)
AppendLine ==
  /\ phase = "extract"
  /\ seq < MaxChunks
  /\ cur.len < MaxLines
  /\ lines' = lines + 1
  /\ mem' = [mem EXCEPT ![cur.buf][cur.len + 1] = lines + 1]
  /\ cur' = [cur EXCEPT !.len = @ + 1]
  /\ UNCHANGED <<config, phase, made, spares, detached, seq, ends, sender,
                 cancelled, body>>

\* doFlush calls the callback: a committed chunk is not sent again, another
\* one goes to the sender.
BeginFlush ==
  /\ phase = "extract"
  /\ cur.len > 0
  /\ ends' = Append(ends, lines)
  /\ phase' = IF seq <= committed THEN "swap"
              ELSE IF pipelined THEN "reclaim" ELSE "inline"
  /\ UNCHANGED <<config, mem, made, cur, spares, detached, seq, lines, sender,
                 cancelled, body>>

\* SpareCapacity(inflight + 1), which for one chunk in flight is the default.
SpareCap == inflight + 1

\* Accumulator.Recycle: one spare more, unless there are enough.
Recycle(b) == IF Len(spares) < SpareCap THEN Append(spares, b) ELSE spares

\* One turn of reclaim's loop: a buffer the sender is done with.
Reclaim ==
  /\ phase = "reclaim"
  /\ spare # << >>
  /\ spares' = Recycle(Head(spare))
  /\ spare' = Tail(spare)
  /\ UNCHANGED <<config, phase, mem, made, cur, detached, seq, lines, ends, job,
                 tokens, next, putBack, err, cancelled, body>>

\* Slip: the callback keeps the buffer without detaching it.
DetachNever == FALSE

\* What Detach sets.
Detach == TRUE

ReclaimedAll ==
  /\ phase = "reclaim"
  /\ spare = << >>
  /\ detached' = Detach
  /\ phase' = "check"
  /\ UNCHANGED <<config, mem, made, cur, spares, seq, lines, ends, sender,
                 cancelled, body>>

\* a.spares without the last one, which becomes a.buf.
SparesLeft == SubSeq(spares, 1, Len(spares) - 1)

\* The rest of doFlush: go on with a spare or a new buffer if this one was
\* detached, with the same one if not.
Swap ==
  /\ phase = "swap"
  /\ seq' = seq + 1
  /\ detached' = FALSE
  /\ \/ ~ detached
        /\ cur' = Empty(cur.buf)
        /\ UNCHANGED <<spares, made>>
     \/ detached /\ spares # << >>
        /\ cur' = Empty(spares[Len(spares)])
        /\ spares' = SparesLeft
        /\ UNCHANGED made
     \/ detached /\ spares = << >>
        /\ made' = made + 1
        /\ cur' = Empty(made + 1)
        /\ UNCHANGED spares
  /\ phase' = "extract"
  /\ UNCHANGED <<config, mem, lines, ends, sender, cancelled, body>>

-----------------------------------------------------------------------------
(* submit                                                                  *)

SubmitCheck ==
  /\ phase = "check"
  /\ phase' = IF err THEN "unwind" ELSE "token"
  /\ UNCHANGED <<config, accum, sender, cancelled, body>>

\* Slip: the semaphore is one too wide.
TokenFreeOff == tokens <= inflight

\* The semaphore has room.
TokenFree == tokens < inflight

TakeToken ==
  /\ phase = "token"
  /\ TokenFree
  /\ tokens' = tokens + 1
  /\ phase' = "handoff"
  /\ UNCHANGED <<config, accum, job, spare, next, putBack, err, cancelled, body>>

IdleWorker == Cardinality({s \in Seqs : job[s].st \in {"new", "read"}}) < inflight

HandOff ==
  /\ phase = "handoff"
  /\ IdleWorker
  /\ job' = [job EXCEPT ![seq] = [st |-> "new", buf |-> cur.buf, len |-> cur.len]]
  /\ phase' = "swap"
  /\ UNCHANGED <<config, accum, tokens, spare, next, putBack, err, cancelled, body>>

\* submit returns ctx.Err(), giving a taken token back.
SubmitCancelled ==
  /\ phase \in {"token", "handoff"}
  /\ cancelled
  /\ tokens' = IF phase = "handoff" THEN tokens - 1 ELSE tokens
  /\ phase' = "unwind"
  /\ UNCHANGED <<config, accum, job, spare, next, putBack, err, cancelled, body>>

\* Without a pipeline the sink reads the buffer before doFlush goes on; a
\* post or commit that fails ends the shard.
InlinePost ==
  /\ phase = "inline"
  /\ body' = [body EXCEPT ![seq] = Content(cur)]
  /\ phase' \in {"swap", "unwind"}
  /\ UNCHANGED <<config, accum, sender, cancelled>>

\* The points end, after the final Flush, or one of them is an error.
StopExtracting ==
  /\ phase = "extract"
  /\ \/ cur.len = 0 /\ phase' = "drain"
     \/ phase' = "unwind"
  /\ UNCHANGED <<config, accum, sender, cancelled, body>>

\* sender.wait has seen every result retired.
Drained ==
  /\ phase \in {"drain", "unwind"}
  /\ \A s \in Seqs : job[s].st \notin Out
  /\ ~ putBack
  /\ phase' = "end"
  /\ UNCHANGED <<config, accum, sender, cancelled, body>>

-----------------------------------------------------------------------------
(* A worker, and the committer                                             *)

\* Send compresses the chunk into a request of its own before any attempt.
BuildRequest(s) ==
  /\ job[s].st = "new"
  /\ job' = [job EXCEPT ![s].st = "read"]
  /\ body' = [body EXCEPT ![s] = Content(job[s])]
  /\ UNCHANGED <<config, phase, accum, tokens, spare, next, putBack, err, cancelled>>

\* The post returns, or Send fails before it has read the chunk; an error is
\* noted when the committer receives the result.
PostReturns(s) ==
  /\ job[s].st = "read" \/ (job[s].st = "new" /\ cancelled)
  /\ job' = [job EXCEPT ![s].st = "result"]
  /\ \/ UNCHANGED err
     \/ err' = TRUE
  /\ UNCHANGED <<config, phase, accum, tokens, spare, next, putBack, cancelled, body>>

\* The committer retires in seq order, what has a result.
MayRetire == job[next].st = "result"

\* spare's capacity is inflight + 1; a buffer that does not fit is dropped.
PutBack ==
  /\ next < MaxChunks
  /\ ~ putBack
  /\ MayRetire
  /\ spare' = IF Len(spare) < inflight + 1 THEN Append(spare, job[next].buf) ELSE spare
  /\ job' = [job EXCEPT ![next] = [NoJob EXCEPT !.st = "retired"]]
  /\ putBack' = TRUE
  /\ \/ UNCHANGED err
     \/ err' = TRUE       \* the commit before it failed
  /\ UNCHANGED <<config, phase, accum, tokens, next, cancelled, body>>

ReleaseToken ==
  /\ putBack
  /\ tokens' = tokens - 1
  /\ next' = next + 1
  /\ putBack' = FALSE
  /\ UNCHANGED <<config, phase, accum, job, spare, err, cancelled, body>>

Cancel ==
  /\ phase # "end"
  /\ ~ cancelled
  /\ cancelled' = TRUE
  /\ UNCHANGED <<config, phase, accum, sender, body>>

Next ==
  \/ AppendLine \/ BeginFlush \/ Reclaim \/ ReclaimedAll \/ Swap
  \/ SubmitCheck \/ TakeToken \/ HandOff \/ SubmitCancelled \/ InlinePost
  \/ StopExtracting \/ Drained
  \/ \E s \in Seqs : BuildRequest(s) \/ PostReturns(s)
  \/ PutBack \/ ReleaseToken \/ Cancel

Spec == Init /\ [][Next]_vars

-----------------------------------------------------------------------------
SliceType == [buf : Buffers, len : 0 .. MaxLines]

TypeOK ==
  /\ pipelined \in BOOLEAN
  /\ inflight \in 1 .. MaxInflight
  /\ committed \in -1 .. 0
  /\ phase \in Phases
  /\ mem \in [Buffers -> [1 .. MaxLines -> Nat]]
  /\ made \in Buffers
  /\ cur \in SliceType
  /\ spares \in Seq(Buffers)
  /\ detached \in BOOLEAN
  /\ seq \in 0 .. MaxChunks
  /\ lines \in Nat
  /\ ends \in Seq(Nat)
  /\ job \in [Seqs -> [st : JobStates, buf : {NoBuf} \cup Buffers, len : 0 .. MaxLines]]
  /\ tokens \in 0 .. MaxInflight
  /\ spare \in Seq(Buffers)
  /\ next \in 0 .. MaxChunks
  /\ putBack \in BOOLEAN
  /\ err \in BOOLEAN
  /\ cancelled \in BOOLEAN
  /\ body \in [Seqs -> Seq(Nat)]

\* The lines of chunk s, by the cuts made so far.
FirstLine(s) == IF s = 0 THEN 1 ELSE ends[s] + 1
ChunkLines(s) == [i \in 1 .. ends[s+1] - FirstLine(s) + 1 |-> FirstLine(s) + i - 1]

(* What the sink reads for a chunk is that chunk: its lines, all of them,  *)
(* in order, and none of another chunk that the same memory held before or *)
(* is being filled with, whenever the worker gets to read it.              *)
BodiesIntact == \A s \in Seqs : body[s] # NoBody => body[s] = ChunkLines(s)

Live == {cur.buf} \cup {spares[i] : i \in DOMAIN spares}
                  \cup {spare[i] : i \in DOMAIN spare}
                  \cup ({job[s].buf : s \in Seqs} \ {NoBuf})

(* However many chunks a shard has, its load holds a fixed number of chunk *)
(* buffers, counting those that wait to be used again.                     *)
BuffersBounded == Cardinality(Live) <= inflight + 2

=============================================================================
