--------------------------- MODULE SplitExtraction --------------------------
(***************************************************************************)
(* Parallel extraction of one shard, --shard-split > 1                     *)
(* (internal/extract/split.go): an ordered list of tasks, a scheduler that *)
(* admits them against a memory budget, worker goroutines that merge one   *)
(* task each into batches, and a consumer that hands the batches to the    *)
(* caller in list order.                                                   *)
(*                                                                         *)
(* Points are numbered in serial order over the whole task list, so the    *)
(* serial output is 1, 2, 3, ... and task t holds the points after         *)
(* ends[t-1] up to ends[t].  What a task's points are (the windows and the *)
(* merge) is in SeriesMerge.  A row is one unit of a batch's field arena.  *)
(***************************************************************************)
EXTENDS Integers, Sequences, FiniteSets, Functions, FiniteSetsExt

CONSTANTS Workers,    \* --shard-split, more than 1
          Budget,     \* --merge-memory
          NTasks,     \* number of tasks in the list
          BatchSize,  \* rows that fit a batch's arena
          Workloads   \* the task lists considered: records of ends and est

Tasks == 1 .. NTasks

ASSUME ConstantsAssumption ==
  /\ Workers \in Nat \ {0, 1}
  /\ Budget \in Nat \ {0}
  /\ NTasks \in Nat
  /\ BatchSize \in Nat \ {0}
  /\ Workloads \subseteq [ends : [0 .. NTasks -> Nat], est : [Tasks -> Nat]]
  /\ \A w \in Workloads :
       /\ w.ends[0] = 0
       /\ \A t \in Tasks : w.ends[t-1] <= w.ends[t]

ChanCap == 2               \* capacity of a task's batch channel
PoolCap == 4 * Workers     \* capacity of the batch pool
NoTask  == 0
NoBatch == 0
\* Enough names for every batch that can be in use at once.
Batches == 1 .. (ChanCap + 1) * NTasks + 1

VARIABLES
  ends,     \* ends[t]: the last point of task t
  est,      \* est[t]: its admission estimate
  sched,    \* where the scheduler goroutine is
  task,     \* the task it is admitting
  used,     \* memBudget.used
  closed,   \* memBudget.closed
  ctxDone,  \* the context of the extraction is cancelled
  sem,      \* worker slots taken
  ordered,  \* the channel of task handles, in list order
  worker,   \* worker[t]: where the goroutine of task t is
  at,       \* at[t]: the last point it has merged
  cur,      \* cur[t]: the batch it is filling
  out,      \* out[t]: its channel of full batches
  herr,     \* herr[t]: its handle's err
  pool,     \* the recycled batches
  rows,     \* rows[b]: the points in batch b
  cons,     \* where the consumer is
  handle,   \* the task it is draining
  held,     \* the batch it is reading
  firstErr, \* the task whose error it will return
  points,   \* the Points count of its Stats
  delivered \* history: the points given to the callback

workload  == <<ends, est>>
scheduler == <<sched, task>>
budget    == <<used, closed>>
workers   == <<worker, at, cur, herr>>
batches   == <<pool, rows>>
consumer  == <<cons, handle, held, firstErr, points, delivered>>
vars == <<ends, est, sched, task, used, closed, ctxDone, sem, ordered, worker,
          at, cur, out, herr, pool, rows, cons, handle, held, firstErr, points,
          delivered>>

TypeOK ==
  /\ [ends |-> ends, est |-> est] \in Workloads
  /\ sched \in {"acquire", "slot", "offer", "spawn", "stopped"}
  /\ task \in 1 .. NTasks + 1
  /\ used \in 0 .. Budget
  /\ closed \in BOOLEAN
  /\ ctxDone \in BOOLEAN
  /\ sem \in 0 .. Workers
  /\ ordered \in Seq(Tasks) /\ Len(ordered) <= Workers
  /\ worker \in [Tasks -> {"none", "merge", "closed", "done"}]
  /\ at \in [Tasks -> Nat] /\ \A t \in Tasks : at[t] \in ends[t-1] .. ends[t]
  /\ cur \in [Tasks -> Batches \cup {NoBatch}]
  /\ out \in [Tasks -> Seq(Batches)] /\ \A t \in Tasks : Len(out[t]) <= ChanCap
  /\ herr \in [Tasks -> {"nil", "read", "ctx"}]
  /\ pool \subseteq Batches /\ Cardinality(pool) <= PoolCap
  /\ rows \in [Batches -> Seq(Nat)] /\ \A b \in Batches : Len(rows[b]) <= BatchSize
  /\ cons \in {"next", "drain", "emit", "release", "join", "returned"}
  /\ handle \in Tasks \cup {NoTask}
  /\ held \in Batches \cup {NoBatch}
  /\ firstErr \in Tasks \cup {NoTask}
  /\ points \in 0 .. ends[NTasks]
  /\ delivered \in Seq(Nat)

Init ==
  /\ \E w \in Workloads : ends = w.ends /\ est = w.est
  /\ sched = "acquire" /\ task = 1
  /\ used = 0 /\ closed = FALSE
  /\ ctxDone = FALSE
  /\ sem = 0
  /\ ordered = <<>>
  /\ worker = [t \in Tasks |-> "none"]
  /\ at = [t \in Tasks |-> ends[t-1]]
  /\ cur = [t \in Tasks |-> NoBatch]
  /\ out = [t \in Tasks |-> <<>>]
  /\ herr = [t \in Tasks |-> "nil"]
  /\ pool = {}
  /\ rows = [b \in Batches |-> <<>>]
  /\ cons = "next" /\ handle = NoTask /\ held = NoBatch
  /\ firstErr = NoTask /\ points = 0 /\ delivered = <<>>

-----------------------------------------------------------------------------
(* The scheduler: one goroutine, so tasks are admitted in list order. *)

\* Slip: an oversized task keeps its estimate and never fits.
ClampedNot(t) == est[t]

\* A task larger than the whole budget is clamped to it, and so runs alone.
Clamped(t) == IF est[t] > Budget THEN Budget ELSE est[t]

\* memBudget.acquire waits until the estimate fits.
Fits(t) == used + Clamped(t) <= Budget

Acquire ==
  /\ sched = "acquire" /\ task \in Tasks
  /\ ~closed /\ Fits(task)
  /\ used' = used + Clamped(task)
  /\ sched' = "slot"
  /\ UNCHANGED <<workload, task, closed, ctxDone, sem, ordered, workers, out,
                 batches, consumer>>

AcquireCancelled ==
  /\ sched = "acquire" /\ task \in Tasks
  /\ closed
  /\ sched' = "stopped"
  /\ UNCHANGED <<workload, task, budget, ctxDone, sem, ordered, workers, out,
                 batches, consumer>>

SlotFree == sem < Workers

TakeSlot ==
  /\ sched = "slot"
  /\ SlotFree
  /\ sem' = sem + 1
  /\ sched' = "offer"
  /\ UNCHANGED <<workload, task, budget, ctxDone, ordered, workers, out,
                 batches, consumer>>

\* Slip: the budget of the task that gives up is not returned.
SlotCancelledKeepsBudget ==
  /\ sched = "slot"
  /\ ctxDone
  /\ sched' = "stopped"
  /\ UNCHANGED <<workload, task, budget, ctxDone, sem, ordered, workers, out,
                 batches, consumer>>

SlotCancelled ==
  /\ sched = "slot"
  /\ ctxDone
  /\ used' = used - Clamped(task)
  /\ sched' = "stopped"
  /\ UNCHANGED <<workload, task, closed, ctxDone, sem, ordered, workers, out,
                 batches, consumer>>

Offer ==
  /\ sched = "offer"
  /\ Len(ordered) < Workers
  /\ ordered' = Append(ordered, task)
  /\ sched' = "spawn"
  /\ UNCHANGED <<workload, task, budget, ctxDone, sem, workers, out, batches,
                 consumer>>

\* The slot and the budget go back: nobody will retire this task.
OfferCancelled ==
  /\ sched = "offer"
  /\ ctxDone
  /\ used' = used - Clamped(task)
  /\ sem' = sem - 1
  /\ sched' = "stopped"
  /\ UNCHANGED <<workload, task, closed, ctxDone, ordered, workers, out,
                 batches, consumer>>

Spawn ==
  /\ sched = "spawn"
  /\ worker' = [worker EXCEPT ![task] = "merge"]
  /\ task' = task + 1
  /\ sched' = "acquire"
  /\ UNCHANGED <<workload, budget, ctxDone, sem, ordered, at, cur, herr, out,
                 batches, consumer>>

\* The list is exhausted; the scheduler closes ordered.
AllAdmitted ==
  /\ sched = "acquire" /\ task = NTasks + 1
  /\ sched' = "stopped"
  /\ UNCHANGED <<workload, task, budget, ctxDone, sem, ordered, workers, out,
                 batches, consumer>>

\* The budget's own goroutine notices the cancellation and wakes the waiter.
CloseBudget ==
  /\ ctxDone /\ ~closed
  /\ closed' = TRUE
  /\ UNCHANGED <<workload, scheduler, used, ctxDone, sem, ordered, workers,
                 out, batches, consumer>>

-----------------------------------------------------------------------------
(* The workers. *)

InUse == pool \cup {held} \cup Range(cur) \cup UNION {Range(out[t]) : t \in Tasks}

\* batchPool.get: a recycled batch if there is one, a new one otherwise.
Obtainable == IF pool # {} THEN pool ELSE Batches \ InUse

\* The batch is full, or there is nothing more to put in it.
Sealed(t) == Len(rows[cur[t]]) = BatchSize \/ at[t] = ends[t]

\* The first row of a batch: emit gets one from the pool and empties it.
MergeIntoNewBatch(t) ==
  /\ worker[t] = "merge" /\ at[t] < ends[t]
  /\ cur[t] = NoBatch
  /\ LET b == Min(Obtainable)
     IN /\ cur' = [cur EXCEPT ![t] = b]
        /\ rows' = [rows EXCEPT ![b] = <<at[t] + 1>>]
        /\ pool' = pool \ {b}
  /\ at' = [at EXCEPT ![t] = @ + 1]
  /\ UNCHANGED <<workload, scheduler, budget, ctxDone, sem, ordered, worker,
                 herr, out, consumer>>

MergeIntoBatch(t) ==
  /\ worker[t] = "merge" /\ at[t] < ends[t]
  /\ cur[t] # NoBatch /\ Len(rows[cur[t]]) < BatchSize
  /\ rows' = [rows EXCEPT ![cur[t]] = Append(@, at[t] + 1)]
  /\ at' = [at EXCEPT ![t] = @ + 1]
  /\ UNCHANGED <<workload, scheduler, budget, ctxDone, sem, ordered, worker,
                 cur, herr, out, pool, consumer>>

\* batchEmitter.flush: the batch goes to the consumer when there is room.
Flush(t) ==
  /\ worker[t] = "merge"
  /\ cur[t] # NoBatch /\ Sealed(t)
  /\ Len(out[t]) < ChanCap
  /\ out' = [out EXCEPT ![t] = Append(@, cur[t])]
  /\ cur' = [cur EXCEPT ![t] = NoBatch]
  /\ UNCHANGED <<workload, scheduler, budget, ctxDone, sem, ordered, worker, at,
                 herr, batches, consumer>>

\* The other arm of flush's select: the rest of the task's output is dropped,
\* the merge runs out unseen, and the handle reports the cancellation.
FlushCancelled(t) ==
  /\ worker[t] = "merge"
  /\ cur[t] # NoBatch /\ Sealed(t)
  /\ ctxDone
  /\ cur' = [cur EXCEPT ![t] = NoBatch]
  /\ herr' = [herr EXCEPT ![t] = "ctx"]
  /\ worker' = [worker EXCEPT ![t] = "closed"]
  /\ UNCHANGED <<workload, scheduler, budget, ctxDone, sem, ordered, at, out,
                 batches, consumer>>

\* The last batch is flushed after mergeSeries has returned: nothing is left
\* that could fail.
MergeReturned(t) == cur[t] = NoBatch /\ at[t] = ends[t] /\ ends[t-1] < ends[t]

\* A file cannot be opened or a block cannot be read: the batch being filled is
\* not sent.
MergeFails(t) ==
  /\ worker[t] = "merge"
  /\ ~MergeReturned(t)
  /\ cur' = [cur EXCEPT ![t] = NoBatch]
  /\ herr' = [herr EXCEPT ![t] = "read"]
  /\ worker' = [worker EXCEPT ![t] = "closed"]
  /\ UNCHANGED <<workload, scheduler, budget, ctxDone, sem, ordered, at, out,
                 batches, consumer>>

MergeEnds(t) ==
  /\ worker[t] = "merge" /\ at[t] = ends[t]
  /\ cur[t] = NoBatch
  /\ worker' = [worker EXCEPT ![t] = "closed"]
  /\ UNCHANGED <<workload, scheduler, budget, ctxDone, sem, ordered, at, cur,
                 herr, out, batches, consumer>>

\* After its channel is closed the goroutine gives back its slot.
WorkerExits(t) ==
  /\ worker[t] = "closed"
  /\ sem' = sem - 1
  /\ worker' = [worker EXCEPT ![t] = "done"]
  /\ UNCHANGED <<workload, scheduler, budget, ctxDone, ordered, at, cur, herr,
                 out, batches, consumer>>

-----------------------------------------------------------------------------
(* The consumer: the goroutine that called ShardResumeSplit. *)

TakeHandle ==
  /\ cons = "next" /\ ordered # <<>>
  /\ handle' = Head(ordered)
  /\ ordered' = Tail(ordered)
  /\ cons' = "drain"
  /\ UNCHANGED <<workload, scheduler, budget, ctxDone, sem, workers, out,
                 batches, held, firstErr, points, delivered>>

\* ordered is closed and empty: wait for the workers.
OrderedClosed ==
  /\ cons = "next" /\ ordered = <<>> /\ sched = "stopped"
  /\ cons' = "join"
  /\ UNCHANGED <<workload, scheduler, budget, ctxDone, sem, ordered, workers,
                 out, batches, handle, held, firstErr, points, delivered>>

\* batchPool.put: a full pool leaves the batch to the garbage collector.
Recycled(b) == IF Cardinality(pool) < PoolCap THEN pool \cup {b} ELSE pool

\* Slip: the batch is recycled while the consumer still reads it.
TakeBatchRecycles ==
  /\ cons = "drain" /\ out[handle] # <<>>
  /\ held' = Head(out[handle])
  /\ out' = [out EXCEPT ![handle] = Tail(@)]
  /\ pool' = Recycled(Head(out[handle]))
  /\ cons' = "emit"
  /\ UNCHANGED <<workload, scheduler, budget, ctxDone, sem, ordered, workers,
                 rows, handle, firstErr, points, delivered>>

TakeBatch ==
  /\ cons = "drain" /\ out[handle] # <<>>
  /\ held' = Head(out[handle])
  /\ out' = [out EXCEPT ![handle] = Tail(@)]
  /\ cons' = "emit"
  /\ UNCHANGED <<workload, scheduler, budget, ctxDone, sem, ordered, workers,
                 batches, handle, firstErr, points, delivered>>

\* Slip: output goes on past the task that failed.
EmittedAlways == delivered \o rows[held]

\* The callback sees the batch, unless an error has been recorded.
Emitted == IF firstErr = NoTask THEN delivered \o rows[held] ELSE delivered

\* The batch is emitted, then recycled.
EmitBatch ==
  /\ cons = "emit"
  /\ delivered' = Emitted
  /\ pool' = Recycled(held)
  /\ held' = NoBatch
  /\ cons' = "drain"
  /\ UNCHANGED <<workload, scheduler, budget, ctxDone, sem, ordered, workers,
                 out, rows, handle, firstErr, points>>

\* The handle's channel is closed and empty: its error or its counts are
\* taken; the first error cancels the rest.
Drained == cons = "drain" /\ out[handle] = <<>> /\ worker[handle] \in {"closed", "done"}

\* Slip: a later error replaces the first.
FailsRunLast == herr[handle] # "nil"

FailsRun == firstErr = NoTask /\ herr[handle] # "nil"

SettleHandle ==
  /\ Drained
  /\ cons' = "release"
  /\ IF FailsRun
       THEN /\ firstErr' = handle
            /\ ctxDone' = TRUE
            /\ UNCHANGED points
       ELSE /\ points' = IF firstErr = NoTask
                           THEN points + (at[handle] - ends[handle-1])
                           ELSE points
            /\ UNCHANGED <<firstErr, ctxDone>>
  /\ UNCHANGED <<workload, scheduler, budget, sem, ordered, workers, out,
                 batches, handle, held, delivered>>

\* The task retires: its budget goes back.
ReleaseBudget ==
  /\ cons = "release"
  /\ used' = used - Clamped(handle)
  /\ handle' = NoTask
  /\ cons' = "next"
  /\ UNCHANGED <<workload, scheduler, closed, ctxDone, sem, ordered, workers,
                 out, batches, held, firstErr, points, delivered>>

\* Slip: returning without wg.Wait.
JoinedAlways == TRUE

Joined == \A t \in Tasks : worker[t] \in {"none", "done"}

\* wg.Wait, then the deferred cancel.
Return ==
  /\ cons = "join"
  /\ Joined
  /\ cons' = "returned"
  /\ ctxDone' = TRUE
  /\ UNCHANGED <<workload, scheduler, budget, sem, ordered, workers, out,
                 batches, handle, held, firstErr, points, delivered>>

-----------------------------------------------------------------------------
Scheduler ==
  \/ Acquire \/ AcquireCancelled \/ TakeSlot \/ SlotCancelled
  \/ Offer \/ OfferCancelled \/ Spawn \/ AllAdmitted

Worker(t) ==
  \/ MergeIntoNewBatch(t) \/ MergeIntoBatch(t) \/ Flush(t) \/ FlushCancelled(t)
  \/ MergeFails(t) \/ MergeEnds(t) \/ WorkerExits(t)

Consumer ==
  \/ TakeHandle \/ OrderedClosed \/ TakeBatch \/ EmitBatch \/ SettleHandle
  \/ ReleaseBudget \/ Return

Next == Scheduler \/ CloseBudget \/ (\E t \in Tasks : Worker(t)) \/ Consumer

Spec == Init /\ [][Next]_vars

\* Every goroutine that can run gets to run; nothing is assumed about which arm
\* of a select is taken.
Fairness ==
  /\ WF_vars(Scheduler) /\ WF_vars(CloseBudget) /\ WF_vars(Consumer)
  /\ \A t \in Tasks : WF_vars(Worker(t))

FairSpec == Spec /\ Fairness

-----------------------------------------------------------------------------
(* Properties *)

\* As many as there are pairs of an element and a number up to its value.
SumOver(f, S) == Cardinality(UNION {{x} \X (1 .. f[x]) : x \in S})

\* The tasks that hold budget: admitted by the scheduler, not yet retired.
Admitted ==
  {t \in Tasks : t < task \/ (t = task /\ sched \in {"slot", "offer", "spawn"})}

Retired(t) == /\ worker[t] \in {"closed", "done"}
              /\ t # handle
              /\ \A i \in 1 .. Len(ordered) : ordered[i] # t

Holding == {t \in Admitted : ~Retired(t)}

\* The budget counts exactly the admitted tasks that have not retired, at their
\* clamped estimates, on every path including the cancelled ones; so a task as
\* large as the whole budget shares it with no other (memBudget, split.go:161).
BudgetExact ==
  /\ used <= Budget
  /\ used = SumOver([t \in Tasks |-> Clamped(t)], Holding)

\* The error returned is the first in list order, a real read error and never
\* the cancellation it causes itself; every task before it was delivered whole
\* (the consumer loop of shardParallel).
FirstErrorIsFirst ==
  firstErr # NoTask =>
    /\ herr[firstErr] = "read"
    /\ \A t \in 1 .. firstErr - 1 : herr[t] = "nil"
    /\ Len(delivered) \in ends[firstErr-1] .. ends[firstErr]
    /\ points = ends[firstErr-1]

\* A batch is in one pair of hands at a time: a worker's, a channel's, the
\* consumer's or the pool's.  Its rows alias the arena the next owner
\* overwrites (pointBatch and Point.Fields).
OneOwner ==
  \A b \in Batches :
    Cardinality({t \in Tasks : cur[t] = b})
      + Cardinality({p \in Tasks \X (1 .. ChanCap) :
                       p[2] <= Len(out[p[1]]) /\ out[p[1]][p[2]] = b})
      + (IF held = b THEN 1 ELSE 0)
      + (IF b \in pool THEN 1 ELSE 0) <= 1

\* When the caller has its answer no worker runs, every slot and all of the
\* budget is back, no handle is left behind, and Stats counts what was
\* delivered.
NothingLeftBehind ==
  cons = "returned" =>
    /\ sched = "stopped" /\ ordered = <<>>
    /\ \A t \in Tasks : worker[t] \in {"none", "done"} /\ out[t] = <<>>
    /\ sem = 0 /\ used = 0
    /\ firstErr = NoTask => points = ends[NTasks]

\* The parallel extraction delivers what the serial one does: the points in
\* serial order, all of them if there is no error, a prefix if there is one.
\* (The promise in split.go that output is byte-identical to the serial path.)
Result == IF cons # "returned" THEN "running"
          ELSE IF firstErr = NoTask THEN "complete" ELSE "failed"

SerialOutput == INSTANCE SerialExtraction WITH total <- ends[NTasks], result <- Result

ImplementsSerial == SerialOutput!SSpec

\* The extraction returns, with an error or without: no task waits for budget,
\* a slot, a channel or the consumer for ever (the admission comment).
ExtractionReturns == <>(cons = "returned")
=============================================================================
