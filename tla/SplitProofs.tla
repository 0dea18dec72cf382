----------------------------- MODULE SplitProofs ------------------------------
(***************************************************************************)
(* Proofs about SplitExtraction, for every number of workers and tasks,    *)
(* every budget, batch size and workload.                                  *)
(***************************************************************************)
EXTENDS SplitExtraction, SequenceTheorems, FiniteSetTheorems, WellFoundedInduction, TLAPS

-----------------------------------------------------------------------------
(* Induction over the natural numbers, in a form without a parameter.      *)

(* A non-empty set of natural numbers has a least element.                 *)
LEMMA LeastElement ==
  ASSUME NEW T \in SUBSET Nat, T # {}
  PROVE  \E x \in T : \A y \in T : x <= y
<1>1. PICK x \in T : \A y \in T : ~ (<<y, x>> \in OpToRel(<, Nat))
  BY NatLessThanWellFounded, WFMin
<1>2. \A y \in T : ~ (y < x)
  BY <1>1 DEF OpToRel
<1>3. QED
  BY <1>2

(* Induction over the natural numbers.                                     *)
LEMMA SetInduction ==
  ASSUME NEW T, 0 \in T, \A n \in T \cap Nat : n + 1 \in T
  PROVE  Nat \subseteq T
<1>1. SUFFICES ASSUME Nat \ T # {} PROVE FALSE
  OBVIOUS
<1>2. PICK x \in Nat \ T : \A y \in Nat \ T : x <= y
  BY <1>1, LeastElement
<1>3. x - 1 \in T \cap Nat /\ (x - 1) + 1 = x
  BY <1>2
<1>4. (x - 1) + 1 \in T
  BY <1>3
<1>5. QED
  BY <1>2, <1>3, <1>4

-----------------------------------------------------------------------------
(* Sums, by the number of elements of a union of disjoint sets.            *)

LEMMA ImageFinite ==
  ASSUME NEW S, IsFiniteSet(S), NEW g
  PROVE  IsFiniteSet({g[x] : x \in S})
<1> DEFINE f == [x \in S |-> g[x]]
           T == {g[x] : x \in S}
<1>1. f \in Surjection(S, T)
  BY DEF Surjection
<1>2. QED
  BY <1>1, FS_Surjection

(* A sum over a set grows by what is added to the set.                     *)
LEMMA SumProperties ==
  ASSUME NEW D, IsFiniteSet(D), NEW f \in [D -> Nat]
  PROVE  /\ SumOver(f, {}) = 0
         /\ \A S \in SUBSET D : SumOver(f, S) \in Nat
         /\ \A S \in SUBSET D : \A x \in D \ S :
              SumOver(f, S \cup {x}) = SumOver(f, S) + f[x]
<1> DEFINE part == [x \in D |-> {x} \X (1 .. f[x])]
           Parts(S) == UNION {part[x] : x \in S}
<1>1. ASSUME NEW x \in D PROVE IsFiniteSet(part[x]) /\ Cardinality(part[x]) = f[x]
  <2>1. /\ IsFiniteSet({x}) /\ Cardinality({x}) = 1
        /\ IsFiniteSet(1 .. f[x]) /\ Cardinality(1 .. f[x]) = f[x]
    <3>1. IsFiniteSet({x}) /\ Cardinality({x}) = 1
      BY FS_Singleton
    <3>2. f[x] \in Nat /\ 1 \in Int
      OBVIOUS
    <3>3. /\ IsFiniteSet(1 .. f[x])
          /\ Cardinality(1 .. f[x]) = IF 1 > f[x] THEN 0 ELSE f[x] - 1 + 1
      BY <3>2, FS_Interval
    <3>4. QED
      BY <3>1, <3>2, <3>3
  <2>2. IsFiniteSet({x} \X (1 .. f[x])) /\ Cardinality({x} \X (1 .. f[x])) = 1 * f[x]
    BY <2>1, FS_Product, Zenon
  <2>3. QED
    BY <2>2
<1>2. ASSUME NEW S \in SUBSET D PROVE SumOver(f, S) = Cardinality(Parts(S))
  <2>1. {part[x] : x \in S} = {{x} \X (1 .. f[x]) : x \in S}
    OBVIOUS
  <2>2. QED
    BY <2>1 DEF SumOver
<1>3. ASSUME NEW x \in D, NEW y \in D, x # y PROVE part[x] \cap part[y] = {}
  BY <1>3
<1> HIDE DEF part
<1>4. ASSUME NEW S \in SUBSET D PROVE IsFiniteSet(Parts(S))
  <2>1. IsFiniteSet(S)
    BY FS_Subset
  <2>2. IsFiniteSet({part[x] : x \in S})
    BY <2>1, ImageFinite
  <2>3. QED
    BY <1>1, <2>2, FS_UNION
<1>5. ASSUME NEW S \in SUBSET D, NEW x \in D \ S
      PROVE  Cardinality(Parts(S \cup {x})) = Cardinality(Parts(S)) + f[x]
  <2> DEFINE A == Parts(S)
             B == part[x]
  <2>1. Parts(S \cup {x}) = A \cup B
    OBVIOUS
  <2>2. A \cap B = {}
    BY <1>3
  <2>3. /\ IsFiniteSet(A) /\ Cardinality(A) \in Nat
        /\ IsFiniteSet(B) /\ Cardinality(B) = f[x] /\ f[x] \in Nat
    BY <1>1, <1>4, FS_CardinalityType
  <2> HIDE DEF A, B, Parts
  <2>4. Cardinality(A \cup B) = Cardinality(A) + Cardinality(B) - Cardinality(A \cap B)
    BY <2>3, FS_Union
  <2>5. Cardinality(A \cap B) = 0
    BY <2>2, FS_EmptySet
  <2>6. Cardinality(A \cup B) = Cardinality(A) + f[x]
    BY <2>3, <2>4, <2>5
  <2>7. QED
    BY <2>1, <2>6 DEF A
<1>6. Parts({}) = {}
  OBVIOUS
<1>7. \A S \in SUBSET D : Cardinality(Parts(S)) \in Nat
  BY <1>4, FS_CardinalityType
<1> HIDE DEF Parts
<1>8. SumOver(f, {}) = 0
  BY <1>2, <1>6, FS_EmptySet
<1>9. QED
  BY <1>2, <1>5, <1>7, <1>8

-----------------------------------------------------------------------------
(* The invariant.                                                          *)

\* The last task that went into ordered, the last one the consumer took out,
\* and the last one whose result it has.
Offered == IF sched = "spawn" THEN task ELSE task - 1
Taken   == Offered - Len(ordered)
Settled == IF cons \in {"drain", "emit"} THEN Taken - 1 ELSE Taken

(* The scheduler walks the list; ordered holds what lies between it and    *)
(* the consumer.                                                           *)
InListOrder ==
  /\ sched \in {"slot", "offer", "spawn"} => task \in Tasks
  /\ Taken >= 0
  /\ \A i \in 1 .. Len(ordered) : ordered[i] = Taken + i
  /\ IF cons \in {"drain", "emit", "release"}
     THEN handle = Taken /\ Taken > 0 ELSE handle = NoTask
  /\ cons \in {"join", "returned"} => sched = "stopped" /\ ordered = <<>>

(* The extraction is cancelled by the first error, and by its own return.  *)
Cancellation ==
  /\ closed => ctxDone
  /\ ctxDone => firstErr # NoTask \/ cons = "returned"
  /\ firstErr = NoTask /\ sched = "stopped" => task = NTasks + 1

(* The goroutine of a task lives from its spawn to the end of its merge,   *)
(* which the consumer waits for.                                           *)
Goroutines ==
  \A t \in Tasks :
    /\ worker[t] = "none" <=> t >= task
    /\ t <= Settled => worker[t] \in {"closed", "done"} /\ out[t] = <<>>
    /\ cur[t] # NoBatch => worker[t] = "merge"
    /\ worker[t] = "none" => at[t] = ends[t-1] /\ out[t] = <<>>
    /\ herr[t] # "nil" => worker[t] \in {"closed", "done"}
    /\ herr[t] = "ctx" => ctxDone

(* Once the call has returned no goroutine is alive.                       *)
AtRest == cons = "returned" => Joined

(* A slot is held from its acquisition by the scheduler to the exit of the *)
(* task's goroutine.                                                       *)
Busy == {t \in Tasks : worker[t] \in {"merge", "closed"}}

Slots ==
  sem = Cardinality(Busy) + (IF sched \in {"offer", "spawn"} THEN 1 ELSE 0)

(* The tasks that hold budget are those between the last retired one and   *)
(* the last admitted one.                                                  *)
Charged ==
  { t \in Tasks :
      /\ IF handle = NoTask THEN Taken < t ELSE Taken <= t
      /\ t < task \/ (t = task /\ sched \in {"slot", "offer", "spawn"}) }

Shares == [t \in Tasks |-> Clamped(t)]

BudgetKept == used <= Budget /\ used = SumOver(Shares, Charged)

(* A batch is in one place.                                                *)
Owners ==
  /\ \A t, u \in Tasks : cur[t] = cur[u] /\ cur[t] # NoBatch => t = u
  /\ \A t, u \in Tasks : \A i \in 1 .. Len(out[u]) : cur[t] # out[u][i]
  /\ \A t, u \in Tasks : \A i \in 1 .. Len(out[t]), j \in 1 .. Len(out[u]) :
       out[t][i] = out[u][j] => t = u /\ i = j
  /\ held # NoBatch <=> cons = "emit"
  /\ \A t \in Tasks :
       /\ held # NoBatch => cur[t] # held
       /\ cur[t] \notin pool
       /\ \A i \in 1 .. Len(out[t]) : out[t][i] # held /\ out[t][i] \notin pool
  /\ held \notin pool

(* Batch b holds the points after a, up to and including the one at e.     *)
Holds(b, a, e) == /\ a \in Nat /\ e \in Nat /\ a < e
                  /\ Len(rows[b]) = e - a
                  /\ \A i \in 1 .. e - a : rows[b][i] = a + i

LastOf(b) == rows[b][Len(rows[b])]

\* The last point of task t that has left its channel, and that has entered it.
Out(t) == IF t # handle THEN ends[t-1]
          ELSE IF held # NoBatch THEN LastOf(held) ELSE Len(delivered)
UpTo(t, i) == IF i = 0 THEN Out(t) ELSE LastOf(out[t][i])

(* The batches of a task continue one another, from the last point its     *)
(* consumer took to the last one its goroutine has merged.                 *)
Chained(t) ==
  /\ \A i \in 1 .. Len(out[t]) : Holds(out[t][i], UpTo(t, i - 1), UpTo(t, i))
  /\ cur[t] # NoBatch => Holds(cur[t], UpTo(t, Len(out[t])), at[t])
  /\ UpTo(t, Len(out[t])) \in 0 .. at[t]
  /\ cur[t] = NoBatch /\ herr[t] = "nil" => UpTo(t, Len(out[t])) = at[t]

(* Until an error has been seen, this is so of every task that is not      *)
(* settled.                                                                *)
Chain ==
  firstErr = NoTask =>
    /\ held # NoBatch => Holds(held, Len(delivered), LastOf(held))
    /\ \A t \in Tasks : t > Settled => Chained(t)
    /\ \A t \in Tasks :
         worker[t] \in {"closed", "done"} /\ herr[t] = "nil" => at[t] = ends[t]

(* What the callback has seen, and what is counted.                        *)
Delivery ==
  /\ delivered = SerialOutput!Serial(Len(delivered))
  /\ IF firstErr = NoTask
     THEN /\ \A t \in Tasks : t <= Settled => herr[t] = "nil"
          /\ points = ends[Settled]
          /\ cons \notin {"drain", "emit"} => Len(delivered) = ends[Settled]
          /\ cons \in {"drain", "emit"} => Len(delivered) >= ends[Settled]
     ELSE /\ FirstErrorIsFirst
          /\ firstErr <= Settled

IInv ==
  /\ TypeOK
  /\ InListOrder
  /\ Cancellation
  /\ Goroutines
  /\ AtRest
  /\ Slots
  /\ BudgetKept
  /\ Owners
  /\ Chain
  /\ Delivery

-----------------------------------------------------------------------------
(* Facts that do not change: the numbers, and the workload.                *)

LEMMA Numbers ==
  /\ Workers \in Nat /\ Workers > 1
  /\ Budget \in Nat /\ Budget > 0
  /\ NTasks \in Nat
  /\ BatchSize \in Nat /\ BatchSize > 0
  BY ConstantsAssumption

LEMMA WorkloadTypes ==
  ASSUME NEW w \in Workloads
  PROVE  /\ w.ends \in [0 .. NTasks -> Nat]
         /\ w.est \in [Tasks -> Nat]
         /\ w.ends[0] = 0
         /\ \A t \in Tasks : w.ends[t-1] <= w.ends[t]
  BY ConstantsAssumption

(* The points of the tasks lie one after the other.                        *)
LEMMA Ends ==
  ASSUME TypeOK
  PROVE  /\ ends \in [0 .. NTasks -> Nat] /\ ends[0] = 0
         /\ est \in [Tasks -> Nat]
         /\ \A i, j \in 0 .. NTasks : i <= j => ends[i] <= ends[j]
<1>1. /\ ends \in [0 .. NTasks -> Nat] /\ ends[0] = 0
      /\ est \in [Tasks -> Nat]
      /\ \A t \in Tasks : ends[t-1] <= ends[t]
  <2> DEFINE w == [ends |-> ends, est |-> est]
  <2>1. w \in Workloads
    BY DEF TypeOK
  <2>2. w.ends = ends /\ w.est = est
    OBVIOUS
  <2> HIDE DEF w
  <2>3. QED
    BY <2>1, <2>2, WorkloadTypes
<1> DEFINE N == {n \in Nat : \A i \in 0 .. NTasks :
                               i + n <= NTasks => ends[i] <= ends[i + n]}
<1>2. 0 \in N
  BY <1>1, Numbers
<1>3. ASSUME NEW n \in N \cap Nat PROVE n + 1 \in N
  <2>1. SUFFICES ASSUME NEW i \in 0 .. NTasks, i + (n + 1) <= NTasks
                 PROVE  ends[i] <= ends[i + (n + 1)]
    OBVIOUS
  <2>2. ends[i] <= ends[i + n] /\ i + n \in 0 .. NTasks
    BY <2>1, Numbers
  <2>3. i + n + 1 \in Tasks /\ (i + n + 1) - 1 = i + n
    BY <2>1, Numbers DEF Tasks
  <2>4. ends[i + n] <= ends[i + n + 1]
    BY <1>1, <2>3
  <2>5. i + n + 1 = i + (n + 1) /\ i + n + 1 \in 0 .. NTasks
    BY <2>1, Numbers
  <2>6. ends[i] \in Nat /\ ends[i + n] \in Nat /\ ends[i + n + 1] \in Nat
    BY <1>1, <2>2, <2>5
  <2>7. QED
    BY <2>2, <2>4, <2>5, <2>6
<1>4. Nat \subseteq N
  <2> HIDE DEF N
  <2> QED BY <1>2, <1>3, SetInduction
<1>5. ASSUME NEW i \in 0 .. NTasks, NEW j \in 0 .. NTasks, i <= j
      PROVE  ends[i] <= ends[j]
  <2>1. j - i \in N /\ i + (j - i) = j
    BY <1>4, <1>5, Numbers
  <2>2. QED
    BY <2>1, Numbers
<1>6. QED
  BY <1>1, <1>5

LEMMA WorkloadFixed == ASSUME [Next]_vars PROVE ends' = ends /\ est' = est
  BY DEF Next, Scheduler, Worker, Consumer, vars, workload, Acquire,
         AcquireCancelled, TakeSlot, SlotCancelled, Offer, OfferCancelled, Spawn,
         AllAdmitted, CloseBudget, MergeIntoNewBatch, MergeIntoBatch, Flush,
         FlushCancelled, MergeFails, MergeEnds, WorkerExits, TakeHandle,
         OrderedClosed, TakeBatch, EmitBatch, SettleHandle, ReleaseBudget, Return

LEMMA ShareTypes ==
  ASSUME TypeOK
  PROVE  /\ Shares \in [Tasks -> 0 .. Budget]
         /\ IsFiniteSet(Tasks)
         /\ \A t \in Tasks : Clamped(t) = Shares[t]
<1>1. est \in [Tasks -> Nat]
  BY Ends
<1>2. IsFiniteSet(Tasks)
  BY Numbers, FS_Interval DEF Tasks
<1>3. QED
  BY <1>1, <1>2, Numbers DEF Shares, Clamped

(* Taking a task out of a set of tasks takes its share out of the sum.     *)
LEMMA Shares1 ==
  ASSUME TypeOK, NEW S \in SUBSET Tasks
  PROVE  /\ SumOver(Shares, {}) = 0
         /\ SumOver(Shares, S) \in Nat
         /\ \A t \in Tasks \ S : SumOver(Shares, S \cup {t}) = SumOver(Shares, S) + Clamped(t)
         /\ \A t \in S : /\ SumOver(Shares, S \ {t}) = SumOver(Shares, S) - Clamped(t)
                         /\ SumOver(Shares, S \ {t}) \in Nat
                         /\ Clamped(t) \in Nat
<1>1. IsFiniteSet(Tasks) /\ Shares \in [Tasks -> Nat]
      /\ \A t \in Tasks : Clamped(t) = Shares[t]
  BY ShareTypes, Numbers
<1>2. /\ SumOver(Shares, {}) = 0
      /\ \A T \in SUBSET Tasks : SumOver(Shares, T) \in Nat
      /\ \A T \in SUBSET Tasks : \A t \in Tasks \ T :
           SumOver(Shares, T \cup {t}) = SumOver(Shares, T) + Shares[t]
  <2> HIDE DEF Tasks
  <2> QED BY <1>1, SumProperties
<1>3. ASSUME NEW t \in S
      PROVE  /\ SumOver(Shares, S \ {t}) = SumOver(Shares, S) - Clamped(t)
             /\ SumOver(Shares, S \ {t}) \in Nat
             /\ Clamped(t) \in Nat
  <2>1. S = (S \ {t}) \cup {t} /\ t \in Tasks \ (S \ {t}) /\ S \ {t} \in SUBSET Tasks
    OBVIOUS
  <2>2. SumOver(Shares, (S \ {t}) \cup {t}) = SumOver(Shares, S \ {t}) + Shares[t]
    BY <1>2, <2>1
  <2>3. SumOver(Shares, S) = SumOver(Shares, S \ {t}) + Shares[t]
    BY <2>1, <2>2, Zenon
  <2>4. SumOver(Shares, S \ {t}) \in Nat /\ Shares[t] \in Nat
    BY <1>1, <1>2, <2>1
  <2>5. QED
    BY <1>1, <2>3, <2>4
<1>4. QED
  BY <1>1, <1>2, <1>3

-----------------------------------------------------------------------------
(* The scheduler and the consumer walk the task list in the same order.    *)

LEMMA InitOrder == ASSUME Init PROVE InListOrder
  BY Numbers DEF Init, InListOrder, Taken, Offered, Tasks

LEMMA OrderStep == ASSUME TypeOK, InListOrder, [Next]_vars PROVE InListOrder'
<1> USE Numbers DEF InListOrder, Taken, Offered, Tasks, NoTask, consumer, scheduler
<1>1. task \in 1 .. NTasks + 1 /\ ordered \in Seq(1 .. NTasks)
  BY DEF TypeOK
<1>2. CASE UNCHANGED <<sched, task, ordered, cons, handle>>
  BY <1>2
<1>3. CASE Acquire \/ TakeSlot
  BY <1>1, <1>3 DEF Acquire, TakeSlot
<1>4. CASE AcquireCancelled \/ SlotCancelled \/ OfferCancelled \/ AllAdmitted
  BY <1>1, <1>4 DEF AcquireCancelled, SlotCancelled, OfferCancelled, AllAdmitted
<1>5. CASE Offer
  <2>1. ordered' = Append(ordered, task) /\ Len(ordered') = Len(ordered) + 1
    BY <1>1, <1>5 DEF Offer
  <2>2. task = Taken + Len(ordered) + 1 /\ Taken' = Taken
    BY <1>1, <1>5, <2>1 DEF Offer
  <2>3. ASSUME NEW i \in 1 .. Len(ordered') PROVE ordered'[i] = Taken + i
    <3>1. CASE i = Len(ordered) + 1
      <4>1. Append(ordered, task)[Len(ordered) + 1] = task
        BY <1>1
      <4>2. QED
        BY <1>1, <2>1, <2>2, <3>1, <4>1
    <3>2. CASE i # Len(ordered) + 1
      <4>1. i \in 1 .. Len(ordered)
        BY <1>1, <2>1, <3>2
      <4>2. QED
        BY <1>1, <2>1, <4>1
    <3>3. QED
      BY <3>1, <3>2
  <2>4. QED
    BY <1>1, <1>5, <2>2, <2>3 DEF Offer
<1>6. CASE Spawn
  BY <1>1, <1>6 DEF Spawn
<1>7. CASE TakeHandle
  <2>1. ordered # <<>> /\ handle' = ordered[1] /\ Len(ordered') = Len(ordered) - 1
        /\ \A i \in 1 .. Len(ordered') : ordered'[i] = ordered[i+1]
    BY <1>1, <1>7 DEF TakeHandle
  <2>2. Taken' = Taken + 1 /\ handle' = Taken + 1
    BY <1>1, <1>7, <2>1 DEF TakeHandle
  <2>3. QED
    BY <1>1, <1>7, <2>1, <2>2 DEF TakeHandle
<1>8. CASE OrderedClosed \/ Return
  BY <1>1, <1>8 DEF OrderedClosed, Return
<1>9. CASE TakeBatch \/ EmitBatch
  BY <1>1, <1>9 DEF TakeBatch, EmitBatch
<1>10. CASE SettleHandle
  BY <1>1, <1>10 DEF SettleHandle, Drained
<1>11. CASE ReleaseBudget
  BY <1>1, <1>11 DEF ReleaseBudget
<1>12. QED
  BY <1>2, <1>3, <1>4, <1>5, <1>6, <1>7, <1>8, <1>9, <1>10, <1>11
     DEF Next, Scheduler, Worker, Consumer, vars, CloseBudget, MergeIntoNewBatch,
         MergeIntoBatch, Flush, FlushCancelled, MergeFails, MergeEnds, WorkerExits

(* The consumer settles one handle at a time; nothing else moves Settled.  *)
LEMMA Positions ==
  ASSUME TypeOK, InListOrder
  PROVE  /\ Settled \in Nat /\ Taken \in Nat /\ Settled <= NTasks
         /\ cons \in {"drain", "emit"} => handle = Settled + 1 /\ handle \in Tasks
         /\ cons = "release" => handle = Settled /\ handle \in Tasks
         /\ SettleHandle => Settled' = Settled + 1
         /\ [Next]_vars /\ Settled' # Settled => SettleHandle
<1> USE Numbers DEF InListOrder, Settled, Taken, Offered, Tasks, NoTask, consumer, scheduler
<1>1. task \in 1 .. NTasks + 1 /\ ordered \in Seq(1 .. NTasks)
      /\ handle \in 0 .. NTasks
  BY SMTT(20) DEF TypeOK
<1>2. Settled \in Nat /\ Taken \in Nat /\ Settled <= NTasks
      /\ (cons \in {"drain", "emit"} => handle = Settled + 1 /\ handle \in Tasks)
      /\ (cons = "release" => handle = Settled /\ handle \in Tasks)
  <2>1. Taken \in Nat /\ Taken <= NTasks
    BY <1>1
  <2>2. CASE cons \in {"drain", "emit"}
    BY <1>1, <2>1, <2>2, SMTT(20)
  <2>3. CASE cons \notin {"drain", "emit"}
    BY <1>1, <2>1, <2>3
  <2>4. QED
    BY <2>2, <2>3
<1>3. ASSUME SettleHandle PROVE Settled' = Settled + 1
  BY <1>1, <1>3 DEF SettleHandle, Drained
<1>4. ASSUME [Next]_vars PROVE SettleHandle \/ Settled' = Settled
  <2>1. CASE Offer
    BY <1>1, <2>1 DEF Offer
  <2>2. CASE TakeHandle
    BY <1>1, <2>2 DEF TakeHandle
  <2>3. CASE Spawn
    BY <1>1, <2>3 DEF Spawn
  <2>4. CASE TakeBatch \/ EmitBatch \/ ReleaseBudget \/ OrderedClosed \/ Return
    BY <1>1, <2>4 DEF TakeBatch, EmitBatch, ReleaseBudget, OrderedClosed, Return
  <2>5. CASE Acquire \/ TakeSlot \/ AcquireCancelled \/ SlotCancelled \/ OfferCancelled
             \/ AllAdmitted
    BY <1>1, <2>5 DEF Acquire, TakeSlot, AcquireCancelled, SlotCancelled,
                      OfferCancelled, AllAdmitted
  <2>6. CASE UNCHANGED <<sched, task, ordered, cons>>
    BY <2>6
  <2>7. QED
    BY <1>4, <2>1, <2>2, <2>3, <2>4, <2>5, <2>6
       DEF Next, Scheduler, Worker, Consumer, vars, CloseBudget, MergeIntoNewBatch,
           MergeIntoBatch, Flush, FlushCancelled, MergeFails, MergeEnds, WorkerExits
<1>5. QED
  BY <1>2, <1>3, <1>4

-----------------------------------------------------------------------------
(* Cancellation.                                                           *)

LEMMA InitCancellation == ASSUME Init PROVE Cancellation
  BY DEF Init, Cancellation

LEMMA CancellationStep ==
  ASSUME TypeOK, InListOrder, Cancellation, [Next]_vars
  PROVE  Cancellation'
<1> USE Numbers DEF Cancellation, NoTask, consumer, scheduler, budget
<1>1. CASE UNCHANGED <<closed, ctxDone, firstErr, cons, sched, task>>
  BY <1>1
<1>2. CASE Acquire \/ TakeSlot \/ Offer \/ Spawn
  BY <1>2 DEF Acquire, TakeSlot, Offer, Spawn
<1>3. CASE AcquireCancelled
  BY <1>3 DEF AcquireCancelled, InListOrder
<1>4. CASE SlotCancelled \/ OfferCancelled
  BY <1>4 DEF SlotCancelled, OfferCancelled, InListOrder
<1>5. CASE AllAdmitted \/ CloseBudget
  BY <1>5 DEF AllAdmitted, CloseBudget
<1>6. CASE TakeHandle \/ OrderedClosed \/ TakeBatch \/ EmitBatch \/ ReleaseBudget
  BY <1>6 DEF TakeHandle, OrderedClosed, TakeBatch, EmitBatch, ReleaseBudget
<1>7. CASE SettleHandle
  <2>1. handle # NoTask
    BY <1>7, Positions DEF SettleHandle, Drained, Tasks
  <2>2. QED
    BY <1>7, <2>1 DEF SettleHandle, FailsRun, Drained
<1>8. CASE Return
  BY <1>8 DEF Return
<1>9. QED
  BY <1>1, <1>2, <1>3, <1>4, <1>5, <1>6, <1>7, <1>8
     DEF Next, Scheduler, Worker, Consumer, vars, MergeIntoNewBatch,
         MergeIntoBatch, Flush, FlushCancelled, MergeFails, MergeEnds, WorkerExits

-----------------------------------------------------------------------------
(* The goroutines.                                                         *)

LEMMA InitGoroutines == ASSUME Init PROVE Goroutines
  BY Numbers DEF Init, Goroutines, Settled, Taken, Offered, Tasks

LEMMA GoroutinesStep ==
  ASSUME TypeOK, TypeOK', InListOrder, Cancellation, Goroutines, [Next]_vars
  PROVE  Goroutines'
<1> USE Numbers DEF Tasks, NoBatch
<1>1. /\ task \in 1 .. NTasks + 1
      /\ worker \in [Tasks -> {"none", "merge", "closed", "done"}]
      /\ cur \in [Tasks -> Batches \cup {NoBatch}]
      /\ at \in [Tasks -> Nat]
      /\ herr \in [Tasks -> {"nil", "read", "ctx"}]
      /\ out \in [Tasks -> Seq(Batches)]
  BY DEF TypeOK
<1>2. Settled \in Nat /\ (cons \in {"drain", "emit"} => handle = Settled + 1 /\ handle \in Tasks)
  BY Positions
<1>3. ends' = ends
  BY WorkloadFixed
<1>4. SUFFICES ASSUME NEW t \in Tasks
               PROVE  /\ worker'[t] = "none" <=> t >= task'
                      /\ t <= Settled' => worker'[t] \in {"closed", "done"} /\ out'[t] = <<>>
                      /\ cur'[t] # NoBatch => worker'[t] = "merge"
                      /\ worker'[t] = "none" => at'[t] = ends[t-1] /\ out'[t] = <<>>
                      /\ herr'[t] # "nil" => worker'[t] \in {"closed", "done"}
                      /\ herr'[t] = "ctx" => ctxDone'
  BY <1>3 DEF Goroutines
<1>5. /\ worker[t] = "none" <=> t >= task
      /\ t <= Settled => worker[t] \in {"closed", "done"} /\ out[t] = <<>>
      /\ cur[t] # NoBatch => worker[t] = "merge"
      /\ worker[t] = "none" => at[t] = ends[t-1] /\ out[t] = <<>>
      /\ herr[t] # "nil" => worker[t] \in {"closed", "done"}
      /\ herr[t] = "ctx" => ctxDone
  BY DEF Goroutines
<1>6. ~ SettleHandle => Settled' = Settled
  BY Positions
<1>7. CASE UNCHANGED <<task, worker, cur, at, herr, ctxDone, out>> /\ ~ SettleHandle
  BY <1>5, <1>6, <1>7
<1>8. CASE Spawn
  <2>1. task \in Tasks
    BY <1>8 DEF Spawn, InListOrder
  <2>2. ~ SettleHandle
    BY <1>8, <1>1 DEF Spawn, SettleHandle, scheduler
  <2>3. Settled' = Settled
    BY <1>6, <2>2
  <2>4. CASE t = task
    BY <1>1, <1>2, <1>5, <1>8, <2>1, <2>3, <2>4 DEF Spawn
  <2>5. CASE t # task
    BY <1>1, <1>2, <1>5, <1>8, <2>1, <2>3, <2>5 DEF Spawn, workers
  <2>6. QED
    BY <2>4, <2>5
<1>9. CASE SettleHandle
  <2>1. Settled' = handle /\ handle = Settled + 1
    BY <1>2, <1>9, Positions DEF SettleHandle, Drained
  <2>2. t <= Settled' => t <= Settled \/ t = handle
    BY <1>2, <2>1
  <2>3. ctxDone => ctxDone'
    BY <1>9 DEF SettleHandle
  <2>4. QED
    BY <1>5, <1>9, <2>2, <2>3 DEF SettleHandle, Drained, workers, scheduler
<1>10. CASE Return
  <2>1. ~ SettleHandle
    BY <1>10 DEF Return, SettleHandle, Drained
  <2>2. QED
    BY <1>5, <1>6, <1>10, <2>1 DEF Return, workers, scheduler
<1>11. CASE TakeBatch
  <2>1. ~ SettleHandle
    BY <1>11 DEF TakeBatch, SettleHandle
  <2>2. t # handle => out'[t] = out[t]
    BY <1>1, <1>11 DEF TakeBatch
  <2>3. out[handle] # <<>>
    BY <1>11 DEF TakeBatch
  <2>4. t = handle => ~ (t <= Settled) /\ worker[t] # "none"
    BY <1>2, <1>5, <1>11, <2>3 DEF TakeBatch
  <2>5. QED
    BY <1>5, <1>6, <1>11, <2>1, <2>2, <2>4 DEF TakeBatch, workers, scheduler
<1>12. CASE \E u \in Tasks : Worker(u)
  <2>1. PICK u \in Tasks : Worker(u)
    BY <1>12
  <2>2. task' = task /\ cons' = cons /\ ctxDone' = ctxDone
    BY <2>1 DEF Worker, MergeIntoNewBatch, MergeIntoBatch, Flush, FlushCancelled,
                MergeFails, MergeEnds, WorkerExits, scheduler, consumer
  <2>3. Settled' = Settled
    BY <2>1, <2>2, <1>6 DEF SettleHandle, Drained
  <2>4. CASE t # u
    <3>1. worker'[t] = worker[t] /\ cur'[t] = cur[t] /\ at'[t] = at[t]
          /\ herr'[t] = herr[t] /\ out'[t] = out[t]
      BY <1>1, <2>1, <2>4 DEF Worker, MergeIntoNewBatch, MergeIntoBatch, Flush,
                FlushCancelled, MergeFails, MergeEnds, WorkerExits
    <3>2. QED
      BY <1>5, <2>2, <2>3, <3>1
  <2>5. CASE t = u /\ (MergeIntoNewBatch(t) \/ MergeIntoBatch(t) \/ Flush(t))
    BY <1>1, <1>5, <2>2, <2>3, <2>5 DEF MergeIntoNewBatch, MergeIntoBatch, Flush
  <2>6. CASE t = u /\ (FlushCancelled(t) \/ MergeFails(t) \/ MergeEnds(t))
    BY <1>1, <1>5, <2>2, <2>3, <2>6 DEF FlushCancelled, MergeFails, MergeEnds
  <2>7. CASE t = u /\ WorkerExits(t)
    BY <1>1, <1>5, <2>2, <2>3, <2>7 DEF WorkerExits
  <2>8. QED
    BY <2>1, <2>4, <2>5, <2>6, <2>7 DEF Worker
<1>13. QED
  BY <1>7, <1>8, <1>9, <1>10, <1>11, <1>12
     DEF Next, Scheduler, Consumer, vars, Acquire, AcquireCancelled, TakeSlot,
         SlotCancelled, Offer, OfferCancelled, AllAdmitted, CloseBudget,
         TakeHandle, OrderedClosed, EmitBatch, ReleaseBudget, workers, scheduler

-----------------------------------------------------------------------------
(* The worker slots.                                                       *)

LEMMA BusyFinite == IsFiniteSet(Busy) /\ Cardinality(Busy) \in Nat
<1>1. IsFiniteSet(Tasks)
  BY Numbers, FS_Interval DEF Tasks
<1>2. IsFiniteSet(Busy)
  BY <1>1, FS_Subset DEF Busy
<1>3. QED
  BY <1>2, FS_CardinalityType

LEMMA InitSlots == ASSUME Init PROVE Slots
<1>1. Busy = {}
  BY DEF Init, Busy
<1>2. QED
  BY <1>1, FS_EmptySet DEF Init, Slots

LEMMA SlotsStep ==
  ASSUME TypeOK, InListOrder, Goroutines, Slots, [Next]_vars
  PROVE  Slots'
<1> USE BusyFinite DEF Slots
<1>1. /\ task \in 1 .. NTasks + 1
      /\ worker \in [Tasks -> {"none", "merge", "closed", "done"}]
      /\ sem \in Nat
  BY Numbers DEF TypeOK
<1>2. CASE UNCHANGED <<sem, worker, sched>>
  BY <1>2 DEF Busy
<1>3. CASE Acquire \/ AcquireCancelled \/ SlotCancelled \/ Offer \/ AllAdmitted
  BY <1>3 DEF Busy, Acquire, AcquireCancelled, SlotCancelled, Offer, AllAdmitted, workers
<1>4. CASE TakeSlot
  BY <1>4 DEF Busy, TakeSlot, workers
<1>5. CASE OfferCancelled
  BY <1>5 DEF Busy, OfferCancelled, workers
<1>6. CASE Spawn
  <2>1. task \in Tasks /\ worker[task] = "none"
    BY <1>1, <1>6 DEF Spawn, InListOrder, Goroutines
  <2>2. Busy' = Busy \cup {task} /\ task \notin Busy
    BY <1>1, <1>6, <2>1 DEF Spawn, Busy
  <2>3. Cardinality(Busy') = Cardinality(Busy) + 1
    BY <2>2, FS_AddElement
  <2>4. QED
    BY <1>6, <2>3 DEF Spawn
<1>7. CASE \E t \in Tasks : WorkerExits(t)
  <2>1. PICK t \in Tasks : WorkerExits(t)
    BY <1>7
  <2>2. Busy' = Busy \ {t} /\ t \in Busy
    BY <1>1, <2>1 DEF WorkerExits, Busy
  <2>3. Cardinality(Busy') = Cardinality(Busy) - 1
    BY <2>2, FS_RemoveElement
  <2>4. sem' = sem - 1 /\ sched' = sched
    BY <2>1 DEF WorkerExits, scheduler
  <2>5. QED
    BY <2>3, <2>4
<1>8. CASE \E t \in Tasks : FlushCancelled(t) \/ MergeFails(t) \/ MergeEnds(t)
  <2>1. PICK t \in Tasks : FlushCancelled(t) \/ MergeFails(t) \/ MergeEnds(t)
    BY <1>8
  <2>2. worker[t] = "merge" /\ worker' = [worker EXCEPT ![t] = "closed"]
        /\ sem' = sem /\ sched' = sched
    BY <2>1 DEF FlushCancelled, MergeFails, MergeEnds, scheduler
  <2>3. Busy' = Busy
    BY <1>1, <2>2 DEF Busy
  <2>4. QED
    BY <2>2, <2>3
<1>9. QED
  BY <1>2, <1>3, <1>4, <1>5, <1>6, <1>7, <1>8
     DEF Next, Scheduler, Worker, Consumer, vars, scheduler, workers, budget,
         CloseBudget, MergeIntoNewBatch, MergeIntoBatch, Flush, TakeHandle,
         OrderedClosed, TakeBatch, EmitBatch, SettleHandle, ReleaseBudget, Return

-----------------------------------------------------------------------------
(* The memory budget.                                                      *)

LEMMA InitBudget == ASSUME Init, TypeOK PROVE BudgetKept
<1>1. Charged = {}
  BY DEF Init, Charged
<1>2. SumOver(Shares, {}) = 0
  BY Shares1
<1>3. QED
  BY <1>1, <1>2, Numbers DEF Init, BudgetKept

LEMMA BudgetStep ==
  ASSUME TypeOK, InListOrder, InListOrder', BudgetKept, [Next]_vars
  PROVE  BudgetKept'
<1> USE Numbers DEF scheduler, consumer, budget
<1>1. task \in 1 .. NTasks + 1 /\ ordered \in Seq(Tasks) /\ handle \in Tasks \cup {NoTask}
      /\ used \in 0 .. Budget
  BY DEF TypeOK
<1>2. Shares' = Shares
  BY WorkloadFixed DEF Shares, Clamped
<1>3. Charged \in SUBSET Tasks
  BY DEF Charged
<1>4. used = SumOver(Shares, Charged)
  BY DEF BudgetKept
<1>5. SUFFICES used' <= Budget /\ used' = SumOver(Shares, Charged')
  BY <1>2 DEF BudgetKept
<1>6. Taken \in Nat /\ Taken <= Offered
  <2>1. Taken \in Nat /\ Len(ordered) \in Nat
    BY <1>1, Positions
  <2>2. Offered \in Int /\ Taken = Offered - Len(ordered)
    BY <1>1 DEF Taken, Offered
  <2>3. QED
    BY <2>1, <2>2
<1>7. CASE Charged' = Charged /\ used' = used
  BY <1>1, <1>4, <1>7
<1>8. CASE UNCHANGED <<sched, task, ordered, handle, used>>
  BY <1>7, <1>8 DEF Charged, Taken, Offered
<1>9. CASE Acquire
  <2>1. Charged' = Charged \cup {task} /\ task \in Tasks \ Charged
    BY <1>1, <1>6, <1>9 DEF Acquire, Charged, Taken, Offered, Tasks
  <2>2. SumOver(Shares, Charged') = SumOver(Shares, Charged) + Clamped(task)
    BY <1>3, <2>1, Shares1
  <2>3. QED
    BY <1>4, <1>9, <2>2 DEF Acquire, Fits
<1>10. CASE SlotCancelled \/ OfferCancelled
  <2>1. Charged' = Charged \ {task} /\ task \in Charged
    BY <1>1, <1>6, <1>10 DEF SlotCancelled, OfferCancelled, Charged, Taken, Offered, Tasks,
                             InListOrder
  <2>2. SumOver(Shares, Charged') = SumOver(Shares, Charged) - Clamped(task)
        /\ SumOver(Shares, Charged') \in Nat /\ Clamped(task) \in Nat
    BY <1>3, <2>1, Shares1
  <2>3. used' = used - Clamped(task)
    BY <1>10 DEF SlotCancelled, OfferCancelled
  <2>4. QED
    BY <1>1, <1>4, <2>2, <2>3
<1>11. CASE TakeSlot \/ AcquireCancelled \/ AllAdmitted
  <2>1. Charged' = Charged /\ used' = used
    BY <1>1, <1>11 DEF TakeSlot, AcquireCancelled, AllAdmitted, Charged, Taken, Offered, Tasks
  <2>2. QED
    BY <1>7, <2>1
<1>12. CASE Offer
  <2>1. Charged' = Charged /\ used' = used
    BY <1>1, <1>12 DEF Offer, Charged, Taken, Offered, Tasks
  <2>2. QED
    BY <1>7, <2>1
<1>13. CASE Spawn
  <2>1. Charged' = Charged /\ used' = used
    BY <1>1, <1>13 DEF Spawn, Charged, Taken, Offered, Tasks
  <2>2. QED
    BY <1>7, <2>1
<1>14. CASE TakeHandle
  <2>1. Taken' = Taken + 1 /\ handle' = Taken + 1 /\ handle = NoTask /\ handle' # NoTask
    <3>1. handle = NoTask /\ cons' = "drain" /\ Taken' = Taken + 1
      BY <1>1, <1>14 DEF TakeHandle, InListOrder, Taken, Offered
    <3>2. QED
      BY <1>6, <3>1 DEF InListOrder, NoTask
  <2>2. Charged' = Charged /\ used' = used
    BY <1>1, <1>6, <1>14, <2>1 DEF TakeHandle, Charged, Tasks
  <2>3. QED
    BY <1>7, <2>2
<1>15. CASE ReleaseBudget
  <2>1. handle = Taken /\ handle \in Tasks /\ handle # NoTask
    BY <1>6, <1>15, Positions DEF ReleaseBudget, InListOrder, Tasks, NoTask
  <2>2. Charged' = Charged \ {handle} /\ handle \in Charged
    BY <1>1, <1>6, <1>15, <2>1 DEF ReleaseBudget, Charged, Taken, Offered, Tasks
  <2>3. SumOver(Shares, Charged') = SumOver(Shares, Charged) - Clamped(handle)
        /\ SumOver(Shares, Charged') \in Nat /\ Clamped(handle) \in Nat
    BY <1>3, <2>2, Shares1
  <2>4. used' = used - Clamped(handle)
    BY <1>15 DEF ReleaseBudget
  <2>5. QED
    BY <1>1, <1>4, <2>3, <2>4
<1>16. QED
  BY <1>8, <1>9, <1>10, <1>11, <1>12, <1>13, <1>14, <1>15
     DEF Next, Scheduler, Worker, Consumer, vars, CloseBudget, MergeIntoNewBatch,
         MergeIntoBatch, Flush, FlushCancelled, MergeFails, MergeEnds, WorkerExits,
         OrderedClosed, TakeBatch, EmitBatch, SettleHandle, Return

-----------------------------------------------------------------------------
(* There is always a batch for the worker that needs one: each other task  *)
(* fills one, every channel holds two, and the consumer reads one.         *)

LEMMA BatchAvailable ==
  ASSUME TypeOK, NEW t \in Tasks, cur[t] = NoBatch
  PROVE  Obtainable # {} /\ Obtainable \subseteq Batches
<1>1. /\ pool \subseteq Batches
      /\ cur \in [Tasks -> Batches \cup {NoBatch}]
      /\ out \in [Tasks -> Seq(Batches)] /\ \A u \in Tasks : Len(out[u]) <= ChanCap
  BY DEF TypeOK
<1>2. SUFFICES ASSUME pool = {}, Batches \subseteq InUse PROVE FALSE
  BY <1>1 DEF Obtainable
<1> DEFINE Places == 1 .. 3 * NTasks
           At(k) == IF k <= NTasks THEN (IF k = t THEN held ELSE cur[k])
                    ELSE IF k <= 2 * NTasks THEN out[k - NTasks][1]
                    ELSE out[k - 2 * NTasks][2]
           h == [b \in Batches |-> CHOOSE k \in Places : At(k) = b]
<1>3. \A b \in Batches : \E k \in Places : At(k) = b
  <2>1. SUFFICES ASSUME NEW b \in Batches PROVE \E k \in Places : At(k) = b
    OBVIOUS
  <2>2. b # NoBatch
    BY Numbers DEF Batches, NoBatch
  <2>3. CASE b = held
    <3>1. t \in Places /\ At(t) = b
      BY <2>3, Numbers DEF Tasks
    <3>2. QED
      BY <3>1
  <2>4. CASE b \in Range(cur)
    <3>1. PICK u \in Tasks : cur[u] = b
      BY <1>1, <2>4 DEF Range
    <3>2. u \in Places /\ At(u) = b
      BY <2>2, <3>1, Numbers DEF Tasks
    <3>3. QED
      BY <3>2
  <2>5. CASE \E u \in Tasks : b \in Range(out[u])
    <3>1. PICK u \in Tasks : b \in Range(out[u])
      BY <2>5
    <3>2. PICK i \in 1 .. Len(out[u]) : out[u][i] = b
      BY <1>1, <3>1 DEF Range
    <3>3. i = 1 \/ i = 2
      BY <1>1, <3>2 DEF ChanCap
    <3>4. CASE i = 1
      <4>1. NTasks + u \in Places /\ At(NTasks + u) = b
        BY <3>2, <3>4, Numbers DEF Tasks
      <4>2. QED
        BY <4>1
    <3>5. CASE i = 2
      <4> DEFINE k == 2 * NTasks + u
      <4>1. k \in Places /\ ~ (k <= NTasks) /\ ~ (k <= 2 * NTasks) /\ k - 2 * NTasks = u
        BY Numbers DEF Tasks
      <4> HIDE DEF k
      <4>2. At(k) = b
        BY <3>2, <3>5, <4>1
      <4>3. QED
        BY <4>1, <4>2
    <3>6. QED
      BY <3>3, <3>4, <3>5
  <2>6. QED
    BY <1>2, <2>3, <2>4, <2>5 DEF InUse
<1>4. \A b \in Batches : h[b] \in Places /\ At(h[b]) = b
  BY <1>3
<1>5. IsFiniteSet(Batches) /\ IsFiniteSet(Places)
      /\ Cardinality(Places) < Cardinality(Batches)
  <2>1. Cardinality(Places) = 3 * NTasks /\ IsFiniteSet(Places)
    BY Numbers, FS_Interval
  <2>2. Cardinality(Batches) = 3 * NTasks + 1 /\ IsFiniteSet(Batches)
    BY Numbers, FS_Interval DEF Batches, ChanCap
  <2>3. QED
    BY <2>1, <2>2, Numbers
<1>6. h \in [Batches -> Places]
  BY <1>4
<1>7. \E x, y \in Batches : x # y /\ h[x] = h[y]
  <2> HIDE DEF h, Places, Batches
  <2> QED BY <1>5, <1>6, FS_PigeonHole
<1>8. QED
  <2> HIDE DEF h, At
  <2> QED BY <1>4, <1>7

LEMMA BatchObtained ==
  ASSUME TypeOK, NEW t \in Tasks, cur[t] = NoBatch
  PROVE  /\ Min(Obtainable) \in Batches
         /\ Min(Obtainable) \in pool \/ Min(Obtainable) \notin InUse
<1>1. Obtainable # {} /\ Obtainable \subseteq Batches
  BY BatchAvailable
<1>2. Obtainable \in SUBSET Nat
  BY <1>1, Numbers DEF Batches, ChanCap
<1>3. \E x \in Obtainable : \A y \in Obtainable : x <= y
  BY <1>1, <1>2, LeastElement
<1>4. Min(Obtainable) \in Obtainable
  BY <1>3 DEF Min
<1>5. QED
  BY <1>1, <1>4 DEF Obtainable

-----------------------------------------------------------------------------
(* A batch is in one place.                                                *)

(* What the end of a channel looks like after a send.                      *)
LEMMA Sent ==
  ASSUME TypeOK, NEW t \in Tasks, Flush(t)
  PROVE  /\ cur[t] \in Batches /\ cur'[t] = NoBatch
         /\ \A u \in Tasks \ {t} : cur'[u] = cur[u] /\ out'[u] = out[u]
         /\ Len(out'[t]) = Len(out[t]) + 1
         /\ \A i \in 1 .. Len(out[t]) : out'[t][i] = out[t][i]
         /\ out'[t][Len(out[t]) + 1] = cur[t]
<1>1. cur \in [Tasks -> Batches \cup {NoBatch}] /\ out \in [Tasks -> Seq(Batches)]
  BY DEF TypeOK
<1>2. cur[t] \in Batches /\ out' = [out EXCEPT ![t] = Append(out[t], cur[t])]
      /\ cur' = [cur EXCEPT ![t] = NoBatch]
  BY <1>1 DEF Flush
<1>3. out'[t] = Append(out[t], cur[t]) /\ out[t] \in Seq(Batches)
  BY <1>1, <1>2
<1>4. Len(out'[t]) = Len(out[t]) + 1
      /\ (\A i \in 1 .. Len(out[t]) : out'[t][i] = out[t][i])
      /\ out'[t][Len(out[t]) + 1] = cur[t]
  BY <1>2, <1>3, AppendProperties
<1>5. QED
  BY <1>1, <1>2, <1>4

(* And the front of one after a receive.                                   *)
LEMMA Received ==
  ASSUME TypeOK, InListOrder, TakeBatch
  PROVE  /\ handle \in Tasks
         /\ Len(out[handle]) \in Nat \ {0} /\ held' = out[handle][1] /\ held' \in Batches
         /\ \A u \in Tasks \ {handle} : out'[u] = out[u]
         /\ Len(out'[handle]) = Len(out[handle]) - 1
         /\ \A i \in 1 .. Len(out'[handle]) : out'[handle][i] = out[handle][i+1]
<1>1. out \in [Tasks -> Seq(Batches)] /\ handle \in Tasks
  BY Positions DEF TypeOK, TakeBatch
<1>2. out[handle] \in Seq(Batches) /\ out[handle] # <<>> /\ held' = Head(out[handle])
      /\ out' = [out EXCEPT ![handle] = Tail(out[handle])]
  BY <1>1 DEF TakeBatch
<1>3. out'[handle] = Tail(out[handle]) /\ \A u \in Tasks \ {handle} : out'[u] = out[u]
  BY <1>1, <1>2
<1>4. Len(out[handle]) \in Nat \ {0} /\ Head(out[handle]) = out[handle][1]
      /\ out[handle][1] \in Batches
      /\ Len(Tail(out[handle])) = Len(out[handle]) - 1
      /\ \A i \in 1 .. Len(Tail(out[handle])) : Tail(out[handle])[i] = out[handle][i+1]
  BY <1>2
<1>5. QED
  BY <1>1, <1>2, <1>3, <1>4

LEMMA InitOwners == ASSUME Init PROVE Owners
  BY DEF Init, Owners

LEMMA OwnersStep ==
  ASSUME TypeOK, InListOrder, Goroutines, Owners, [Next]_vars
  PROVE  Owners'
<1> USE DEF NoBatch
<1>1. /\ cur \in [Tasks -> Batches \cup {NoBatch}]
      /\ out \in [Tasks -> Seq(Batches)]
      /\ held \in Batches \cup {NoBatch} /\ pool \subseteq Batches
      /\ NoBatch \notin Batches
  <2>1. NoBatch \notin Batches
    BY Numbers DEF Batches, ChanCap
  <2>2. QED
    BY <2>1 DEF TypeOK
<1>2. \A t \in Tasks : Len(out[t]) \in Nat
  BY <1>1
<1>3. CASE UNCHANGED <<cur, out, held, pool, cons>>
  BY <1>3 DEF Owners
<1>4. CASE \E t \in Tasks : MergeIntoNewBatch(t)
  <2>1. PICK t \in Tasks : MergeIntoNewBatch(t)
    BY <1>4
  <2> DEFINE b == Min(Obtainable)
  <2>2. b \in Batches /\ (b \in pool \/ b \notin InUse)
    BY <2>1, BatchObtained DEF MergeIntoNewBatch
  <2>3. cur' = [cur EXCEPT ![t] = b] /\ pool' = pool \ {b} /\ out' = out /\ held' = held
        /\ cons' = cons
    BY <2>1 DEF MergeIntoNewBatch, consumer
  <2> HIDE DEF b
  <2>4. b # held /\ \A u \in Tasks : cur[u] # b /\ \A i \in 1 .. Len(out[u]) : out[u][i] # b
    <3>1. CASE b \in pool
      BY <3>1 DEF Owners
    <3>2. CASE b \notin InUse
      BY <1>1, <3>2 DEF InUse, Range
    <3>3. QED
      BY <2>2, <3>1, <3>2
  <2>5. QED
    BY <1>1, <2>2, <2>3, <2>4 DEF Owners
<1>5. CASE \E t \in Tasks : Flush(t)
  <2>1. PICK t \in Tasks : Flush(t)
    BY <1>5
  <2>2. held' = held /\ pool' = pool /\ cons' = cons
    BY <2>1 DEF Flush, consumer, batches
  <2> DEFINE n == Len(out[t])
             c == cur[t]
  <2>3. /\ c \in Batches /\ cur'[t] = NoBatch
        /\ \A u \in Tasks \ {t} : cur'[u] = cur[u] /\ out'[u] = out[u]
        /\ Len(out'[t]) = n + 1 /\ n \in Nat
        /\ \A i \in 1 .. n : out'[t][i] = out[t][i]
        /\ out'[t][n + 1] = c
    BY <1>2, <2>1, Sent
  <2>4. /\ \A u \in Tasks \ {t} : cur[u] # c
        /\ \A u \in Tasks : \A i \in 1 .. Len(out[u]) : out[u][i] # c
        /\ held # c /\ c \notin pool
    BY <1>1, <2>3 DEF Owners
  <2> HIDE DEF n, c
  <2>5. \A u \in Tasks : \A i \in 1 .. Len(out'[u]) :
          \/ i \in 1 .. Len(out[u]) /\ out'[u][i] = out[u][i]
          \/ u = t /\ i = n + 1 /\ out'[u][i] = c
    BY <2>3 DEF n
  <2>6. \A u \in Tasks : cur'[u] = NoBatch \/ (u # t /\ cur'[u] = cur[u])
    BY <2>3
  <2>7. \A u, v \in Tasks : cur'[u] = cur'[v] /\ cur'[u] # NoBatch => u = v
    BY <2>6 DEF Owners
  <2>8. \A u, v \in Tasks : \A i \in 1 .. Len(out'[v]) : cur'[u] # out'[v][i]
    <3>1. SUFFICES ASSUME NEW u \in Tasks, NEW v \in Tasks, NEW i \in 1 .. Len(out'[v])
                   PROVE  cur'[u] # out'[v][i]
      OBVIOUS
    <3>2. CASE i \in 1 .. Len(out[v]) /\ out'[v][i] = out[v][i]
      <4>1. out[v][i] # cur[u] /\ out[v][i] # NoBatch
        BY <1>1, <3>2 DEF Owners
      <4>2. QED
        BY <2>6, <3>2, <4>1
    <3>3. CASE out'[v][i] = c
      BY <1>1, <2>3, <2>4, <2>6, <3>3
    <3>4. QED
      BY <2>5, <3>2, <3>3
  <2>9. \A u, v \in Tasks : \A i \in 1 .. Len(out'[u]), j \in 1 .. Len(out'[v]) :
          out'[u][i] = out'[v][j] => u = v /\ i = j
    <3>1. \A u, v \in Tasks : \A i \in 1 .. Len(out[u]), j \in 1 .. Len(out[v]) :
            out[u][i] = out[v][j] => u = v /\ i = j
      BY DEF Owners
    <3>2. SUFFICES ASSUME NEW u \in Tasks, NEW v \in Tasks,
                          NEW i \in 1 .. Len(out'[u]), NEW j \in 1 .. Len(out'[v]),
                          out'[u][i] = out'[v][j]
                   PROVE  u = v /\ i = j
      OBVIOUS
    <3>3. CASE u = t /\ i = n + 1 /\ out'[u][i] = c
      BY <2>4, <2>5, <3>2, <3>3
    <3>4. CASE v = t /\ j = n + 1 /\ out'[v][j] = c
      BY <2>4, <2>5, <3>2, <3>4
    <3>5. CASE /\ i \in 1 .. Len(out[u]) /\ out'[u][i] = out[u][i]
               /\ j \in 1 .. Len(out[v]) /\ out'[v][j] = out[v][j]
      <4>1. out[u][i] = out[v][j]
        BY <3>2, <3>5
      <4>2. QED
        BY <3>1, <3>5, <4>1
    <3>6. QED
      BY <2>5, <3>3, <3>4, <3>5
  <2>10. \A u \in Tasks : /\ held' # NoBatch => cur'[u] # held'
                          /\ cur'[u] \notin pool'
    BY <1>1, <2>2, <2>6 DEF Owners
  <2>11. \A u \in Tasks : \A i \in 1 .. Len(out'[u]) :
           out'[u][i] # held' /\ out'[u][i] \notin pool'
    BY <2>2, <2>4, <2>5 DEF Owners
  <2>12. QED
    BY <2>2, <2>7, <2>8, <2>9, <2>10, <2>11 DEF Owners
<1>6. CASE \E t \in Tasks : FlushCancelled(t) \/ MergeFails(t)
  <2>1. PICK t \in Tasks : FlushCancelled(t) \/ MergeFails(t)
    BY <1>6
  <2>2. cur' = [cur EXCEPT ![t] = NoBatch] /\ pool' = pool /\ out' = out /\ held' = held
        /\ cons' = cons
    BY <2>1 DEF FlushCancelled, MergeFails, consumer, batches
  <2>3. QED
    BY <1>1, <2>2 DEF Owners
<1>7. CASE TakeBatch
  <2>1. cur' = cur /\ pool' = pool /\ cons' = "emit" /\ held = NoBatch
    BY <1>7 DEF TakeBatch, workers, batches, Owners
  <2> DEFINE o == handle
  <2>2. /\ o \in Tasks
        /\ Len(out[o]) \in Nat \ {0} /\ held' = out[o][1] /\ held' \in Batches
        /\ \A u \in Tasks \ {o} : out'[u] = out[u]
        /\ Len(out'[o]) = Len(out[o]) - 1
        /\ \A i \in 1 .. Len(out'[o]) : out'[o][i] = out[o][i+1]
    BY <1>7, Received
  <2> HIDE DEF o
  <2>3. \A u \in Tasks : \A i \in 1 .. Len(out'[u]) :
          \/ u # o /\ i \in 1 .. Len(out[u]) /\ out'[u][i] = out[u][i]
          \/ u = o /\ i + 1 \in 2 .. Len(out[u]) /\ out'[u][i] = out[u][i+1]
    BY <1>2, <2>2
  <2>4. \A u \in Tasks : \A i \in 1 .. Len(out'[u]) : out'[u][i] # held'
    BY <1>2, <2>2, <2>3 DEF Owners
  <2>5. \A u, v \in Tasks : \A i \in 1 .. Len(out'[v]) : cur'[u] # out'[v][i]
    BY <1>2, <2>1, <2>2, <2>3 DEF Owners
  <2>6. \A u, v \in Tasks : \A i \in 1 .. Len(out'[u]), j \in 1 .. Len(out'[v]) :
          out'[u][i] = out'[v][j] => u = v /\ i = j
    <3> DEFINE Before(u, i) == IF u = o THEN i + 1 ELSE i
    <3>1. \A u \in Tasks : \A i \in 1 .. Len(out'[u]) :
            Before(u, i) \in 1 .. Len(out[u]) /\ out'[u][i] = out[u][Before(u, i)]
      BY <1>2, <2>3
    <3>2. \A u, v \in Tasks : \A i \in 1 .. Len(out[u]), j \in 1 .. Len(out[v]) :
            out[u][i] = out[v][j] => u = v /\ i = j
      BY DEF Owners
    <3>3. SUFFICES ASSUME NEW u \in Tasks, NEW v \in Tasks,
                          NEW i \in 1 .. Len(out'[u]), NEW j \in 1 .. Len(out'[v]),
                          out'[u][i] = out'[v][j]
                   PROVE  u = v /\ i = j
      OBVIOUS
    <3> HIDE DEF Before
    <3>4. u = v /\ Before(u, i) = Before(v, j)
      <4>1. PICK a \in 1 .. Len(out[u]) : a = Before(u, i) /\ out'[u][i] = out[u][a]
        BY <3>1
      <4>2. PICK b \in 1 .. Len(out[v]) : b = Before(v, j) /\ out'[v][j] = out[v][b]
        BY <3>1
      <4>3. out[u][a] = out[v][b]
        BY <3>3, <4>1, <4>2
      <4>4. QED
        BY <3>2, <4>1, <4>2, <4>3
    <3>5. QED
      BY <3>4 DEF Before
  <2>7. \A u \in Tasks : \A i \in 1 .. Len(out'[u]) : out'[u][i] \notin pool'
    <3>1. SUFFICES ASSUME NEW u \in Tasks, NEW i \in 1 .. Len(out'[u])
                   PROVE  out'[u][i] \notin pool
      BY <2>1
    <3>2. \E j \in 1 .. Len(out[u]) : out'[u][i] = out[u][j]
      BY <1>2, <2>3
    <3>3. QED
      BY <3>2 DEF Owners
  <2>8. 1 \in 1 .. Len(out[o])
    BY <2>2
  <2>9. held' \notin pool' /\ \A u \in Tasks : cur'[u] # held'
    BY <2>1, <2>2, <2>8 DEF Owners
  <2>10. QED
    BY <1>1, <2>1, <2>2, <2>4, <2>5, <2>6, <2>7, <2>9 DEF Owners
<1>8. CASE EmitBatch
  <2>1. cur' = cur /\ out' = out /\ held' = NoBatch /\ cons' = "drain" /\ held # NoBatch
    BY <1>8 DEF EmitBatch, workers, Owners
  <2>2. pool' = pool \/ pool' = pool \cup {held}
    BY <1>8 DEF EmitBatch, Recycled
  <2>3. \A u \in Tasks : \A i \in 1 .. Len(out[u]) : out[u][i] # NoBatch
    BY <1>1
  <2>4. QED
    BY <1>1, <2>1, <2>2, <2>3 DEF Owners
<1>9. CASE TakeHandle \/ OrderedClosed \/ SettleHandle \/ ReleaseBudget \/ Return
  <2>1. UNCHANGED <<cur, out, held, pool>>
    BY <1>9 DEF TakeHandle, OrderedClosed, SettleHandle, Drained, ReleaseBudget,
                Return, workers, batches
  <2>2. cons # "emit" /\ cons' # "emit"
    BY <1>9 DEF TakeHandle, OrderedClosed, SettleHandle, Drained, ReleaseBudget, Return
  <2>3. QED
    BY <2>1, <2>2 DEF Owners
<1>10. QED
  BY <1>3, <1>4, <1>5, <1>6, <1>7, <1>8, <1>9
     DEF Next, Scheduler, Worker, Consumer, vars, workers, batches, consumer,
         Acquire, AcquireCancelled, TakeSlot, SlotCancelled, Offer, OfferCancelled,
         Spawn, AllAdmitted, CloseBudget, MergeIntoBatch, MergeEnds, WorkerExits

-----------------------------------------------------------------------------
(* The batches of a task continue one another.                             *)

LEMMA InitChain == ASSUME Init, TypeOK PROVE Chain
<1> USE DEF Init
<1>1. ends \in [0 .. NTasks -> Nat]
  BY Ends
<1>2. ASSUME NEW t \in Tasks PROVE Chained(t)
  <2>1. Out(t) = ends[t-1] /\ ends[t-1] \in Nat
    <3>1. t \in 1 .. NTasks /\ t - 1 \in 0 .. NTasks /\ NTasks \in Nat
      BY Numbers DEF Tasks
    <3>2. t # handle
      BY <3>1 DEF NoTask
    <3>3. QED
      BY <1>1, <3>1, <3>2 DEF Out
  <2>2. Len(out[t]) = 0 /\ UpTo(t, 0) = at[t] /\ at[t] \in Nat
    BY <2>1 DEF UpTo
  <2>3. QED
    BY <2>2 DEF Chained
<1>3. QED
  BY <1>2 DEF Chain

(* A step that leaves alone what a task has sent, and what was taken of it. *)
LEMMA SentFrame ==
  ASSUME NEW t \in Tasks, Chained(t), Len(out[t]) \in Nat,
         out'[t] = out[t], Out(t)' = Out(t),
         \A i \in 1 .. Len(out[t]) : rows'[out[t][i]] = rows[out[t][i]]
  PROVE  /\ \A i \in 0 .. Len(out[t]) : UpTo(t, i)' = UpTo(t, i)
         /\ \A i \in 1 .. Len(out'[t]) : Holds(out[t][i], UpTo(t, i-1), UpTo(t, i))'
<1>1. \A i \in 0 .. Len(out[t]) : UpTo(t, i)' = UpTo(t, i)
  BY DEF UpTo, LastOf
<1>2. \A i \in 1 .. Len(out[t]) : Holds(out[t][i], UpTo(t, i-1), UpTo(t, i))'
  <2>1. SUFFICES ASSUME NEW i \in 1 .. Len(out[t])
                 PROVE  Holds(out[t][i], UpTo(t, i-1), UpTo(t, i))'
    OBVIOUS
  <2>2. UpTo(t, i-1)' = UpTo(t, i-1) /\ UpTo(t, i)' = UpTo(t, i)
    BY <1>1
  <2>3. Holds(out[t][i], UpTo(t, i-1), UpTo(t, i))
    BY DEF Chained
  <2>4. rows'[out'[t][i]] = rows[out[t][i]]
    OBVIOUS
  <2>5. QED
    BY <2>2, <2>3, <2>4 DEF Holds
<1>3. QED
  BY <1>1, <1>2

(* A task whose batches, rows and place a step leaves alone stays chained. *)
LEMMA ChainedFrame ==
  ASSUME NEW t \in Tasks, Chained(t), Len(out[t]) \in Nat,
         out'[t] = out[t], cur'[t] = cur[t], at'[t] = at[t], herr'[t] = herr[t],
         Out(t)' = Out(t),
         \A i \in 1 .. Len(out[t]) : rows'[out[t][i]] = rows[out[t][i]],
         cur[t] # NoBatch => rows'[cur[t]] = rows[cur[t]]
  PROVE  Chained(t)'
<1>1. /\ \A i \in 0 .. Len(out[t]) : UpTo(t, i)' = UpTo(t, i)
      /\ \A i \in 1 .. Len(out'[t]) : Holds(out[t][i], UpTo(t, i-1), UpTo(t, i))'
  BY SentFrame
<1>2. cur[t] # NoBatch => Holds(cur[t], UpTo(t, Len(out[t])), at[t])'
  BY <1>1 DEF Chained, Holds
<1>3. QED
  BY <1>1, <1>2 DEF Chained

(* A row goes into a batch of one owner.                                   *)
LEMMA RowsFrame ==
  ASSUME TypeOK, Owners, NEW u \in Tasks, MergeIntoNewBatch(u) \/ MergeIntoBatch(u)
  PROVE  /\ held # NoBatch => rows'[held] = rows[held]
         /\ \A t \in Tasks : /\ \A i \in 1 .. Len(out[t]) : rows'[out[t][i]] = rows[out[t][i]]
                             /\ t # u /\ cur[t] # NoBatch => rows'[cur[t]] = rows[cur[t]]
<1>1. /\ cur \in [Tasks -> Batches \cup {NoBatch}]
      /\ out \in [Tasks -> Seq(Batches)]
      /\ held \in Batches \cup {NoBatch} /\ rows \in [Batches -> Seq(Nat)]
  BY DEF TypeOK
<1>2. CASE MergeIntoNewBatch(u)
  <2> DEFINE b == Min(Obtainable)
  <2>1. b \in pool \/ b \notin InUse
    BY <1>2, BatchObtained DEF MergeIntoNewBatch
  <2>2. rows' = [rows EXCEPT ![b] = <<at[u] + 1>>]
    BY <1>2 DEF MergeIntoNewBatch
  <2> HIDE DEF b
  <2>3. b # held /\ \A t \in Tasks : cur[t] # b /\ \A i \in 1 .. Len(out[t]) : out[t][i] # b
    <3>1. CASE b \in pool
      BY <3>1 DEF Owners
    <3>2. CASE b \notin InUse
      BY <1>1, <3>2 DEF InUse, Range
    <3>3. QED
      BY <2>1, <3>1, <3>2
  <2>4. QED
    BY <1>1, <2>2, <2>3
<1>3. CASE MergeIntoBatch(u)
  <2>1. rows' = [rows EXCEPT ![cur[u]] = Append(@, at[u] + 1)] /\ cur[u] # NoBatch
    BY <1>3 DEF MergeIntoBatch
  <2>2. /\ held # NoBatch => held # cur[u]
        /\ \A t \in Tasks : /\ \A i \in 1 .. Len(out[t]) : out[t][i] # cur[u]
                            /\ t # u /\ cur[t] # NoBatch => cur[t] # cur[u]
    BY <2>1 DEF Owners
  <2>3. QED
    BY <1>1, <2>1, <2>2
<1>4. QED
  BY <1>2, <1>3

(* What a goroutine does to the chain of its own task.                     *)
LEMMA OwnChain ==
  ASSUME TypeOK, Goroutines, Owners, NEW u \in Tasks, Worker(u), Chained(u), Out(u)' = Out(u)
  PROVE  Chained(u)'
<1>1. /\ cur \in [Tasks -> Batches \cup {NoBatch}] /\ at \in [Tasks -> Nat]
      /\ herr \in [Tasks -> {"nil", "read", "ctx"}]
      /\ out \in [Tasks -> Seq(Batches)] /\ rows \in [Batches -> Seq(Nat)]
      /\ NoBatch \notin Batches
  <2>1. NoBatch \notin Batches
    BY Numbers DEF Batches, ChanCap, NoBatch
  <2>2. QED
    BY <2>1 DEF TypeOK
<1>2. PICK n \in Nat : n = Len(out[u])
  BY <1>1
<1>3. worker[u] = "merge" => herr[u] = "nil"
  BY <1>1 DEF Goroutines
<1>4. CASE MergeIntoNewBatch(u) \/ MergeIntoBatch(u)
  <2>1. out' = out /\ herr' = herr /\ at'[u] = at[u] + 1 /\ worker[u] = "merge"
    BY <1>1, <1>4 DEF MergeIntoNewBatch, MergeIntoBatch
  <2>2. /\ \A i \in 0 .. n : UpTo(u, i)' = UpTo(u, i)
        /\ \A i \in 1 .. Len(out'[u]) : Holds(out[u][i], UpTo(u, i-1), UpTo(u, i))'
    BY <1>2, <1>4, <2>1, RowsFrame, SentFrame
  <2>3. /\ cur'[u] # NoBatch
        /\ LET r == rows'[cur'[u]]
           IN /\ Len(r) = at[u] + 1 - UpTo(u, n)
              /\ \A i \in 1 .. Len(r) : r[i] = UpTo(u, n) + i
    <3>1. CASE MergeIntoNewBatch(u)
      <4> DEFINE b == Min(Obtainable)
      <4>1. b \in Batches /\ cur'[u] = b /\ rows'[b] = <<at[u] + 1>>
        BY <1>1, <3>1, BatchObtained DEF MergeIntoNewBatch
      <4> HIDE DEF b
      <4>2. UpTo(u, n) = at[u]
        BY <1>2, <1>3, <2>1, <3>1 DEF MergeIntoNewBatch, Chained
      <4>3. QED
        BY <1>1, <4>1, <4>2
    <3>2. CASE MergeIntoBatch(u)
      <4> DEFINE b == cur[u]
      <4>1. b \in Batches /\ cur'[u] = b /\ rows'[b] = Append(rows[b], at[u] + 1)
        BY <1>1, <3>2 DEF MergeIntoBatch
      <4>2. Holds(b, UpTo(u, n), at[u])
        BY <1>2, <3>2 DEF MergeIntoBatch, Chained
      <4> HIDE DEF b
      <4>3. rows[b] \in Seq(Nat) /\ at[u] \in Nat
        BY <1>1, <4>1
      <4> DEFINE s == rows[b]
      <4>4. Len(rows'[b]) = Len(s) + 1 /\ rows'[b][Len(s) + 1] = at[u] + 1
            /\ \A i \in 1 .. Len(s) : rows'[b][i] = s[i]
        BY <4>1, <4>3, AppendProperties
      <4>5. Len(s) = at[u] - UpTo(u, n) /\ UpTo(u, n) \in Nat
            /\ \A i \in 1 .. Len(s) : s[i] = UpTo(u, n) + i
        BY <4>2 DEF Holds
      <4>6. Len(s) \in Nat
        BY <4>3
      <4> HIDE DEF s
      <4>7. ASSUME NEW i \in 1 .. Len(s) + 1 PROVE rows'[b][i] = UpTo(u, n) + i
        <5>1. i \in 1 .. Len(s) \/ i = Len(s) + 1
          BY <4>6
        <5>2. UpTo(u, n) + (Len(s) + 1) = at[u] + 1
          BY <4>3, <4>5, <4>6
        <5>3. QED
          BY <4>4, <4>5, <5>1, <5>2
      <4>8. Len(rows'[b]) = at[u] + 1 - UpTo(u, n)
        <5>1. at[u] \in Nat /\ UpTo(u, n) \in Nat /\ Len(s) = at[u] - UpTo(u, n)
          BY <4>3, <4>5
        <5>2. Len(s) + 1 = at[u] + 1 - UpTo(u, n)
          BY <5>1
        <5>3. QED
          BY <4>4, <5>2
      <4>9. QED
        BY <1>1, <4>1, <4>4, <4>7, <4>8
    <3>3. QED
      BY <1>4, <3>1, <3>2
  <2>4. UpTo(u, n) \in 0 .. at[u] /\ UpTo(u, n)' = UpTo(u, n) /\ at[u] \in Nat
    <3>1. n \in 0 .. n
      BY <1>2
    <3>2. QED
      BY <1>1, <1>2, <2>2, <3>1 DEF Chained
  <2>5. Holds(cur[u], UpTo(u, n), at[u])'
    <3> DEFINE a == UpTo(u, n)
               m == at[u]
               r == rows'[cur'[u]]
    <3>1. a \in Nat /\ m \in Nat /\ a <= m /\ UpTo(u, n)' = a /\ at'[u] = m + 1
      BY <2>1, <2>4
    <3>2. Len(r) = m + 1 - a /\ \A i \in 1 .. m + 1 - a : r[i] = a + i
      BY <2>3
    <3> HIDE DEF a, m, r
    <3>3. a < m + 1 /\ m + 1 \in Nat
      BY <3>1
    <3>4. QED
      BY <3>1, <3>2, <3>3 DEF Holds, r
  <2>6. QED
    BY <1>2, <2>1, <2>2, <2>3, <2>4, <2>5 DEF Chained
<1>5. CASE Flush(u)
  <2>1. /\ cur[u] \in Batches /\ cur'[u] = NoBatch
        /\ Len(out'[u]) = n + 1
        /\ \A i \in 1 .. n : out'[u][i] = out[u][i]
        /\ out'[u][n + 1] = cur[u]
    BY <1>2, <1>5, Sent
  <2>2. rows' = rows /\ at' = at /\ herr' = herr
    BY <1>5 DEF Flush, batches
  <2>3. \A i \in 0 .. n : UpTo(u, i)' = UpTo(u, i)
    BY <1>2, <2>1, <2>2 DEF UpTo, LastOf
  <2>4. Holds(cur[u], UpTo(u, n), at[u])
    BY <1>1, <1>2, <2>1 DEF Chained
  <2>5. UpTo(u, n + 1)' = at[u]
    <3> DEFINE a == UpTo(u, n)
    <3>1. a \in Nat /\ at[u] \in Nat /\ a < at[u] /\ Len(rows[cur[u]]) = at[u] - a
          /\ \A i \in 1 .. at[u] - a : rows[cur[u]][i] = a + i
      BY <2>4 DEF Holds
    <3> HIDE DEF a
    <3>2. rows[cur[u]][Len(rows[cur[u]])] = at[u]
      BY <3>1
    <3>3. n + 1 # 0
      BY <1>2
    <3>4. QED
      BY <2>1, <2>2, <3>2, <3>3 DEF UpTo, LastOf
  <2>6. ASSUME NEW i \in 1 .. n + 1 PROVE Holds(out[u][i], UpTo(u, i-1), UpTo(u, i))'
    <3>1. CASE i \in 1 .. n
      <4>1. Holds(out[u][i], UpTo(u, i-1), UpTo(u, i))
        BY <1>2, <3>1 DEF Chained
      <4>2. UpTo(u, i-1)' = UpTo(u, i-1) /\ UpTo(u, i)' = UpTo(u, i)
        BY <1>2, <2>3, <3>1
      <4>3. QED
        BY <2>1, <2>2, <3>1, <4>1, <4>2 DEF Holds
    <3>2. CASE i = n + 1
      <4>0. i - 1 = n /\ n \in 0 .. n
        BY <1>2, <3>2
      <4>1. UpTo(u, i-1)' = UpTo(u, n) /\ UpTo(u, i)' = at[u] /\ out'[u][i] = cur[u]
        BY <2>1, <2>3, <2>5, <3>2, <4>0
      <4>2. QED
        BY <2>2, <2>4, <4>1 DEF Holds
    <3>3. QED
      BY <1>2, <3>1, <3>2
  <2>7. at'[u] = at[u] /\ at[u] \in 0 .. at[u]
    BY <1>1, <2>2
  <2>8. UpTo(u, Len(out[u]))' = at[u]
    BY <2>1, <2>5
  <2>9. QED
    BY <2>1, <2>6, <2>7, <2>8 DEF Chained
<1>6. CASE FlushCancelled(u) \/ MergeFails(u) \/ MergeEnds(u) \/ WorkerExits(u)
  <2>1. /\ out' = out /\ rows' = rows /\ at' = at
        /\ \/ cur' = cur /\ herr' = herr
           \/ cur'[u] = NoBatch /\ herr'[u] # "nil"
    BY <1>1, <1>6 DEF FlushCancelled, MergeFails, MergeEnds, WorkerExits, batches
  <2>2. /\ \A i \in 0 .. n : UpTo(u, i)' = UpTo(u, i)
        /\ \A i \in 1 .. Len(out'[u]) : Holds(out[u][i], UpTo(u, i-1), UpTo(u, i))'
    BY <1>2, <2>1, SentFrame
  <2>3. cur'[u] # NoBatch => Holds(cur[u], UpTo(u, n), at[u])'
    BY <1>2, <2>1, <2>2, SMTT(20) DEF Chained, Holds
  <2>4. QED
    BY <1>2, <2>1, <2>2, <2>3 DEF Chained
<1>7. QED
  BY <1>4, <1>5, <1>6 DEF Worker

LEMMA ChainStep ==
  ASSUME TypeOK, InListOrder, Goroutines, Owners, Chain, Delivery, [Next]_vars
  PROVE  Chain'
<1>1. /\ cur \in [Tasks -> Batches \cup {NoBatch}] /\ at \in [Tasks -> Nat]
      /\ herr \in [Tasks -> {"nil", "read", "ctx"}]
      /\ worker \in [Tasks -> {"none", "merge", "closed", "done"}]
      /\ out \in [Tasks -> Seq(Batches)] /\ rows \in [Batches -> Seq(Nat)]
      /\ held \in Batches \cup {NoBatch} /\ delivered \in Seq(Nat)
      /\ NoBatch \notin Batches
  <2>1. NoBatch \notin Batches
    BY Numbers DEF Batches, ChanCap, NoBatch
  <2>2. QED
    BY <2>1 DEF TypeOK
<1>2. \A t \in Tasks : Len(out[t]) \in Nat
  BY <1>1
<1>3. ends' = ends
  BY WorkloadFixed
<1>4. firstErr' = NoTask => firstErr = NoTask
  BY <1>1 DEF Next, Scheduler, Worker, Consumer, vars, consumer, Acquire,
       AcquireCancelled, TakeSlot, SlotCancelled, Offer, OfferCancelled, Spawn,
       AllAdmitted, CloseBudget, MergeIntoNewBatch, MergeIntoBatch, Flush,
       FlushCancelled, MergeFails, MergeEnds, WorkerExits, TakeHandle,
       OrderedClosed, TakeBatch, EmitBatch, SettleHandle, FailsRun, ReleaseBudget, Return
<1>5. SUFFICES ASSUME firstErr' = NoTask, firstErr = NoTask
      PROVE  /\ held' # NoBatch => Holds(held, Len(delivered), LastOf(held))'
             /\ \A t \in Tasks : t > Settled' => Chained(t)'
             /\ \A t \in Tasks : worker'[t] \in {"closed", "done"} /\ herr'[t] = "nil"
                                   => at'[t] = ends[t]
  BY <1>3, <1>4 DEF Chain
<1>6. /\ held # NoBatch => Holds(held, Len(delivered), LastOf(held))
      /\ \A t \in Tasks : t > Settled => Chained(t)
      /\ \A t \in Tasks : worker[t] \in {"closed", "done"} /\ herr[t] = "nil"
                            => at[t] = ends[t]
  BY <1>5 DEF Chain
<1>7. /\ SettleHandle => Settled' = Settled + 1
      /\ ~ SettleHandle => Settled' = Settled
      /\ Settled \in Nat
      /\ cons \in {"drain", "emit"} => handle = Settled + 1 /\ handle \in Tasks
  BY Positions
<1>8. CASE \E u \in Tasks : Worker(u)
  <2>1. PICK u \in Tasks : Worker(u)
    BY <1>8
  <2>2. held' = held /\ handle' = handle /\ delivered' = delivered /\ cons' = cons
    BY <2>1 DEF Worker, MergeIntoNewBatch, MergeIntoBatch, Flush, FlushCancelled,
                MergeFails, MergeEnds, WorkerExits, consumer
  <2>3. /\ held # NoBatch => rows'[held] = rows[held]
        /\ \A t \in Tasks : /\ \A i \in 1 .. Len(out[t]) : rows'[out[t][i]] = rows[out[t][i]]
                            /\ t # u /\ cur[t] # NoBatch => rows'[cur[t]] = rows[cur[t]]
    <3>1. MergeIntoNewBatch(u) \/ MergeIntoBatch(u) \/ rows' = rows
      BY <2>1 DEF Worker, Flush, FlushCancelled, MergeFails, MergeEnds, WorkerExits, batches
    <3>2. QED
      BY <3>1, RowsFrame
  <2>4. Settled' = Settled
    BY <1>7, <2>1, <2>2 DEF SettleHandle, Drained
  <2>5. \A t \in Tasks : Out(t)' = Out(t)
    BY <1>3, <2>2, <2>3 DEF Out, LastOf
  <2>6. held' # NoBatch => Holds(held, Len(delivered), LastOf(held))'
    BY <1>6, <2>2, <2>3 DEF Holds, LastOf
  <2>7. ASSUME NEW t \in Tasks, t > Settled PROVE Chained(t)'
    <3>1. CASE t = u
      BY <1>6, <2>1, <2>5, <2>7, <3>1, OwnChain
    <3>2. CASE t # u
      <4>1. out'[t] = out[t] /\ cur'[t] = cur[t] /\ at'[t] = at[t] /\ herr'[t] = herr[t]
        BY <1>1, <2>1, <3>2 DEF Worker, MergeIntoNewBatch, MergeIntoBatch, Flush,
                                FlushCancelled, MergeFails, MergeEnds, WorkerExits
      <4>2. QED
        BY <1>2, <1>6, <2>3, <2>5, <2>7, <3>2, <4>1, ChainedFrame
    <3>3. QED
      BY <3>1, <3>2
  <2>8. ASSUME NEW t \in Tasks, worker'[t] \in {"closed", "done"}, herr'[t] = "nil"
        PROVE  at'[t] = ends[t]
    <3>1. CASE MergeIntoNewBatch(u) \/ MergeIntoBatch(u) \/ Flush(u)
      <4>1. worker' = worker /\ herr' = herr /\ worker[u] = "merge"
            /\ (t # u => at'[t] = at[t])
        BY <1>1, <3>1 DEF MergeIntoNewBatch, MergeIntoBatch, Flush
      <4>2. QED
        BY <1>6, <2>8, <4>1
    <3>2. CASE FlushCancelled(u) \/ MergeFails(u) \/ MergeEnds(u) \/ WorkerExits(u)
      BY <1>1, <1>6, <2>8, <3>2 DEF FlushCancelled, MergeFails, MergeEnds, WorkerExits
    <3>3. QED
      BY <2>1, <3>1, <3>2 DEF Worker
  <2>9. QED
    BY <2>4, <2>6, <2>7, <2>8
<1>9. ASSUME UNCHANGED <<at, cur, herr, rows, out, worker, held, delivered>>, ~ SettleHandle,
             \A t \in Tasks : t > Settled => Out(t)' = Out(t)
      PROVE  Chain'
  <2>1. held' # NoBatch => Holds(held, Len(delivered), LastOf(held))'
    BY <1>6, <1>9 DEF Holds, LastOf
  <2>2. ASSUME NEW t \in Tasks, t > Settled PROVE Chained(t)'
    BY <1>2, <1>6, <1>9, <2>2, ChainedFrame
  <2>3. QED
    BY <1>3, <1>6, <1>7, <1>9, <2>1, <2>2 DEF Chain
<1>10. CASE UNCHANGED <<at, cur, herr, rows, out, worker, held, delivered, handle>>
            /\ ~ SettleHandle
  <2>1. \A t \in Tasks : Out(t)' = Out(t)
    BY <1>3, <1>10 DEF Out, LastOf
  <2>2. QED
    BY <1>5, <1>9, <1>10, <2>1 DEF Chain
<1>11. CASE Spawn
  <2>1. UNCHANGED <<at, cur, herr, rows, out, held, delivered, handle>> /\ ~ SettleHandle
    BY <1>11 DEF Spawn, consumer, batches, SettleHandle, scheduler, TypeOK
  <2>2. \A t \in Tasks : Out(t)' = Out(t)
    BY <1>3, <2>1 DEF Out, LastOf
  <2>3. held' # NoBatch => Holds(held, Len(delivered), LastOf(held))'
    BY <1>6, <2>1 DEF Holds, LastOf
  <2>4. ASSUME NEW t \in Tasks, t > Settled PROVE Chained(t)'
    BY <1>2, <1>6, <2>1, <2>2, <2>4, ChainedFrame
  <2>5. \A t \in Tasks : worker'[t] \in {"closed", "done"} /\ herr'[t] = "nil"
                           => at'[t] = ends[t]
    BY <1>1, <1>6, <1>11, <2>1 DEF Spawn
  <2>6. QED
    BY <1>7, <2>1, <2>3, <2>4, <2>5
<1>12. CASE TakeHandle
  <2>1. UNCHANGED <<at, cur, herr, rows, out, worker, held, delivered>> /\ ~ SettleHandle
    BY <1>12 DEF TakeHandle, workers, batches, SettleHandle, Drained
  <2>2. handle = NoTask /\ held = NoBatch /\ Len(delivered) = ends[Settled]
    BY <1>5, <1>12 DEF TakeHandle, InListOrder, Owners, Delivery
  <2>3. Settled' = Settled /\ handle' = Settled' + 1
    <3>1. ordered \in Seq(Tasks) /\ ordered # <<>> /\ handle' = ordered[1]
      BY <1>12 DEF TakeHandle, TypeOK
    <3>2. 1 \in 1 .. Len(ordered) /\ Settled = Taken
      BY <1>12, <3>1 DEF TakeHandle, Settled
    <3>3. QED
      BY <1>7, <2>1, <3>1, <3>2 DEF InListOrder
  <2>4. ASSUME NEW t \in Tasks, t > Settled PROVE Out(t)' = Out(t)
    <3>1. t # handle
      BY <2>2, Numbers DEF Tasks, NoTask
    <3>2. CASE t = handle'
      <4>1. t - 1 = Settled
        BY <1>7, <2>3, <3>2
      <4>2. QED
        BY <1>3, <2>1, <2>2, <3>1, <3>2, <4>1 DEF Out
    <3>3. CASE t # handle'
      BY <1>3, <2>1, <3>1, <3>3 DEF Out
    <3>4. QED
      BY <3>2, <3>3
  <2>5. QED
    BY <1>5, <1>9, <2>1, <2>4 DEF Chain
<1>13. CASE ReleaseBudget
  <2>1. UNCHANGED <<at, cur, herr, rows, out, worker, held, delivered>> /\ ~ SettleHandle
    BY <1>13 DEF ReleaseBudget, workers, batches, SettleHandle, Drained
  <2>2. handle = Settled /\ handle' = NoTask
    BY <1>13, Positions DEF ReleaseBudget
  <2>3. ASSUME NEW t \in Tasks, t > Settled PROVE Out(t)' = Out(t)
    <3>1. t # handle /\ t # handle'
      BY <1>7, <2>2, <2>3, Numbers DEF Tasks, NoTask
    <3>2. QED
      BY <1>3, <2>1, <3>1 DEF Out
  <2>4. QED
    BY <1>5, <1>9, <2>1, <2>3 DEF Chain
<1>14. CASE SettleHandle
  <2>1. UNCHANGED <<at, cur, herr, rows, out, worker, held, delivered, handle>>
    BY <1>14 DEF SettleHandle, workers, batches
  <2>2. \A t \in Tasks : Out(t)' = Out(t)
    BY <1>3, <2>1 DEF Out, LastOf
  <2>3. held' # NoBatch => Holds(held, Len(delivered), LastOf(held))'
    BY <1>6, <2>1 DEF Holds, LastOf
  <2>4. ASSUME NEW t \in Tasks, t > Settled' PROVE Chained(t)'
    <3>1. t > Settled
      BY <1>7, <1>14, <2>4, Numbers DEF Tasks
    <3>2. QED
      BY <1>2, <1>6, <2>1, <2>2, <3>1, ChainedFrame
  <2>5. QED
    BY <1>6, <2>1, <2>3, <2>4
<1>15. CASE TakeBatch
  <2>1. UNCHANGED <<at, cur, herr, rows, worker, delivered, handle>> /\ ~ SettleHandle
        /\ held = NoBatch /\ cons = "drain"
    BY <1>15 DEF TakeBatch, workers, batches, SettleHandle, Owners
  <2>2. PICK o \in Tasks : o = handle
    BY <1>15, Received
  <2>3. PICK n \in Nat \ {0} : n = Len(out[o])
    BY <1>15, <2>2, Received
  <2>4. /\ held' = out[o][1] /\ held' \in Batches
        /\ \A u \in Tasks \ {o} : out'[u] = out[u]
        /\ Len(out'[o]) = n - 1
        /\ \A i \in 1 .. n - 1 : out'[o][i] = out[o][i+1]
    BY <1>15, <2>2, <2>3, Received
  <2>5. Chained(o) /\ UpTo(o, 0) = Len(delivered) /\ o > Settled
    BY <1>6, <1>7, <2>1, <2>2 DEF UpTo, Out
  <2>6. \A i \in 0 .. n - 1 : UpTo(o, i)' = UpTo(o, i + 1)
    <3>1. ASSUME NEW i \in 0 .. n - 1, i # 0 PROVE UpTo(o, i)' = UpTo(o, i + 1)
      <4>1. i + 1 # 0 /\ i \in 1 .. n - 1
        BY <3>1
      <4>2. QED
        BY <2>1, <2>4, <3>1, <4>1 DEF UpTo, LastOf
    <3>2. UpTo(o, 0)' = UpTo(o, 1)
      BY <1>1, <2>1, <2>2, <2>4 DEF UpTo, Out, LastOf
    <3>3. QED
      BY <3>1, <3>2
  <2>7. held' # NoBatch => Holds(held, Len(delivered), LastOf(held))'
    <3>1. Holds(out[o][1], UpTo(o, 0), UpTo(o, 1))
      BY <2>3, <2>5 DEF Chained
    <3>2. UpTo(o, 1) = LastOf(held)'
      BY <2>1, <2>4 DEF UpTo, LastOf
    <3>3. QED
      BY <2>1, <2>4, <2>5, <3>1, <3>2 DEF Holds
  <2>8. ASSUME NEW t \in Tasks, t > Settled PROVE Chained(t)'
    <3>1. CASE t # o
      <4>1. Out(t)' = Out(t)
        BY <1>3, <2>1, <2>2, <3>1 DEF Out
      <4>2. QED
        BY <1>2, <1>6, <2>1, <2>4, <2>8, <3>1, <4>1, ChainedFrame
    <3>2. CASE t = o
      <4>1. ASSUME NEW i \in 1 .. n - 1 PROVE Holds(out[o][i], UpTo(o, i-1), UpTo(o, i))'
        <5>1. Holds(out[o][i+1], UpTo(o, i), UpTo(o, i+1))
          <6>1. i + 1 \in 1 .. n /\ (i + 1) - 1 = i
            BY <2>3
          <6>2. Holds(out[o][i+1], UpTo(o, (i+1) - 1), UpTo(o, i+1))
            BY <2>3, <2>5, <6>1 DEF Chained
          <6>3. QED
            BY <6>1, <6>2
        <5>2. UpTo(o, i-1)' = UpTo(o, i) /\ UpTo(o, i)' = UpTo(o, i+1)
          <6>1. i - 1 \in 0 .. n - 1 /\ (i - 1) + 1 = i /\ i \in 0 .. n - 1
            BY <2>3
          <6>2. UpTo(o, i-1)' = UpTo(o, (i-1) + 1) /\ UpTo(o, i)' = UpTo(o, i+1)
            BY <2>6, <6>1
          <6>3. QED
            BY <6>1, <6>2
        <5>3. QED
          BY <2>1, <2>4, <5>1, <5>2 DEF Holds
      <4>2. UpTo(o, n - 1)' = UpTo(o, n)
        <5>1. n - 1 \in 0 .. n - 1 /\ (n - 1) + 1 = n
          BY <2>3
        <5>2. UpTo(o, n - 1)' = UpTo(o, (n - 1) + 1)
          BY <2>6, <5>1
        <5>3. QED
          BY <5>1, <5>2
      <4>3. cur[o] # NoBatch => Holds(cur[o], UpTo(o, n), at[o])
        BY <2>3, <2>5 DEF Chained
      <4>4. cur'[o] # NoBatch => Holds(cur[o], UpTo(o, n - 1), at[o])'
        BY <2>1, <4>2, <4>3 DEF Holds
      <4>5. UpTo(o, n) \in 0 .. at[o] /\ (cur[o] = NoBatch /\ herr[o] = "nil" => UpTo(o, n) = at[o])
        BY <2>3, <2>5 DEF Chained
      <4>6. QED
        BY <2>1, <2>4, <3>2, <4>1, <4>2, <4>4, <4>5 DEF Chained
    <3>3. QED
      BY <3>1, <3>2
  <2>9. QED
    BY <1>6, <1>7, <2>1, <2>7, <2>8
<1>16. CASE EmitBatch
  <2>1. UNCHANGED <<at, cur, herr, rows, out, worker, handle>> /\ ~ SettleHandle
        /\ held # NoBatch /\ held' = NoBatch
        /\ delivered' = delivered \o rows[held]
    BY <1>5, <1>16 DEF EmitBatch, Emitted, workers, SettleHandle, Drained, Owners
  <2>2. Len(delivered') = LastOf(held)
    <3>1. Holds(held, Len(delivered), LastOf(held)) /\ rows[held] \in Seq(Nat)
      BY <1>1, <1>6, <2>1
    <3>2. Len(delivered') = Len(delivered) + Len(rows[held])
      BY <1>1, <2>1, <3>1
    <3>3. QED
      BY <3>1, <3>2 DEF Holds
  <2>3. \A t \in Tasks : Out(t)' = Out(t)
    BY <1>3, <2>1, <2>2 DEF Out, LastOf
  <2>4. ASSUME NEW t \in Tasks, t > Settled PROVE Chained(t)'
    BY <1>2, <1>6, <2>1, <2>3, <2>4, ChainedFrame
  <2>5. QED
    BY <1>6, <1>7, <2>1, <2>4
<1>17. QED
  BY <1>8, <1>10, <1>11, <1>12, <1>13, <1>14, <1>15, <1>16
     DEF Next, Scheduler, Consumer, Acquire, AcquireCancelled, TakeSlot, SlotCancelled,
         Offer, OfferCancelled, AllAdmitted, CloseBudget, OrderedClosed, Return, vars,
         workers, batches, consumer, scheduler, SettleHandle, Drained

-----------------------------------------------------------------------------
(* What the callback has seen.                                             *)

LEMMA InitDelivery == ASSUME Init, TypeOK PROVE Delivery
<1>1. /\ sched = "acquire" /\ task = 1 /\ ordered = <<>> /\ cons = "next"
      /\ firstErr = NoTask /\ points = 0 /\ delivered = <<>>
  BY DEF Init
<1>2. Settled = 0
  <2>1. Offered = 0 /\ Len(ordered) = 0
    BY <1>1 DEF Offered
  <2>2. Taken = 0
    BY <2>1 DEF Taken
  <2>3. QED
    BY <1>1, <2>2 DEF Settled
<1>3. delivered = SerialOutput!Serial(Len(delivered))
  BY <1>1 DEF SerialOutput!Serial
<1>4. ends[0] = 0 /\ Len(delivered) = 0
  BY <1>1, Ends
<1>5. \A t \in Tasks : ~ (t <= 0)
  BY Numbers DEF Tasks
<1>6. QED
  BY <1>1, <1>2, <1>3, <1>4, <1>5 DEF Delivery

(* The consumer emits the rows that come next.                             *)
LEMMA NextRows ==
  ASSUME TypeOK, Delivery, firstErr = NoTask, held \in Batches,
         Holds(held, Len(delivered), LastOf(held))
  PROVE  /\ Len(delivered \o rows[held]) = LastOf(held)
         /\ LastOf(held) \in Nat /\ LastOf(held) > Len(delivered)
         /\ delivered \o rows[held] = SerialOutput!Serial(LastOf(held))
<1> DEFINE r == rows[held]
           n == Len(delivered)
           e == LastOf(held)
           s == delivered \o r
<1>1. delivered \in Seq(Nat) /\ r \in Seq(Nat) /\ n \in Nat
  BY DEF TypeOK
<1>2. e \in Nat /\ n < e /\ Len(r) = e - n /\ \A i \in 1 .. e - n : r[i] = n + i
  BY DEF Holds
<1>3. \A i \in 1 .. n : delivered[i] = i
  <2>1. delivered = [i \in 1 .. n |-> i]
    BY DEF Delivery, SerialOutput!Serial
  <2>2. QED
    BY <2>1, Zenon
<1>4. s \in Seq(Nat) /\ Len(s) = n + Len(r)
      /\ \A i \in 1 .. n + Len(r) : s[i] = IF i <= n THEN delivered[i] ELSE r[i - n]
  BY <1>1, ConcatProperties
<1> HIDE DEF s, n, e, r
<1>5. Len(s) = e
  BY <1>1, <1>2, <1>4
<1>6. ASSUME NEW i \in 1 .. e PROVE s[i] = i
  <2>1. i \in 1 .. n + Len(r)
    BY <1>1, <1>2
  <2>2. CASE i <= n
    BY <1>1, <1>3, <1>4, <2>1, <2>2
  <2>3. CASE ~ (i <= n)
    <3>1. i - n \in 1 .. e - n /\ n + (i - n) = i
      BY <1>1, <1>2, <2>3
    <3>2. QED
      BY <1>2, <1>4, <2>1, <2>3, <3>1
  <2>4. QED
    BY <2>2, <2>3
<1>7. s = [i \in 1 .. e |-> i]
  <2>1. s = [i \in 1 .. Len(s) |-> s[i]]
    BY <1>4
  <2>2. QED
    BY <1>5, <1>6, <2>1
<1>8. QED
  BY <1>2, <1>5, <1>7 DEF SerialOutput!Serial, s, n, e, r

LEMMA DeliveryStep ==
  ASSUME TypeOK, InListOrder, Cancellation, Goroutines, Owners, Chain, Delivery, [Next]_vars
  PROVE  Delivery'
<1>1. /\ herr \in [Tasks -> {"nil", "read", "ctx"}]
      /\ worker \in [Tasks -> {"none", "merge", "closed", "done"}]
      /\ firstErr \in Tasks \cup {NoTask} /\ points \in Nat
      /\ delivered \in Seq(Nat) /\ held \in Batches \cup {NoBatch}
      /\ \A t \in Tasks : at[t] \in ends[t-1] .. ends[t]
  <2>1. ends \in [0 .. NTasks -> Nat] /\ points \in 0 .. ends[NTasks]
    BY Ends DEF TypeOK
  <2>2. points \in Nat
    BY <2>1, Numbers
  <2>3. QED
    BY <2>2 DEF TypeOK
<1>2. ends' = ends
  BY WorkloadFixed
<1>3. /\ SettleHandle => Settled' = Settled + 1
      /\ ~ SettleHandle => Settled' = Settled
      /\ Settled \in 0 .. NTasks
      /\ cons \in {"drain", "emit"} => handle = Settled + 1 /\ handle \in Tasks
  BY Positions, Numbers
<1>4. CASE EmitBatch
  <2>1. /\ UNCHANGED <<herr, firstErr, points>> /\ cons = "emit" /\ cons' = "drain"
        /\ delivered' = Emitted /\ ~ SettleHandle /\ held \in Batches
    BY <1>1, <1>4 DEF EmitBatch, workers, SettleHandle, Drained, Owners
  <2>2. CASE firstErr = NoTask
    <3>1. Holds(held, Len(delivered), LastOf(held)) /\ delivered' = delivered \o rows[held]
      BY <2>1, <2>2, Numbers DEF Chain, Emitted, NoBatch, Batches
    <3>2. /\ delivered' = SerialOutput!Serial(LastOf(held)) /\ Len(delivered') = LastOf(held)
          /\ Len(delivered') > Len(delivered) /\ Len(delivered') \in Nat
      BY <2>1, <2>2, <3>1, NextRows
    <3>3. delivered' = SerialOutput!Serial(Len(delivered))'
      BY <3>2 DEF SerialOutput!Serial
    <3>4. Len(delivered) \in Nat /\ Len(delivered) >= ends[Settled] /\ ends[Settled] \in Nat
      BY <1>1, <1>3, <2>1, <2>2, Ends DEF Delivery
    <3>5. QED
      BY <1>2, <1>3, <2>1, <2>2, <3>2, <3>3, <3>4 DEF Delivery
  <2>3. CASE firstErr # NoTask
    BY <1>2, <1>3, <2>1, <2>3 DEF Delivery, Emitted, FirstErrorIsFirst, SerialOutput!Serial
  <2>4. QED
    BY <2>2, <2>3
<1>5. CASE SettleHandle
  <2>1. /\ UNCHANGED <<herr, delivered>> /\ cons = "drain" /\ cons' = "release"
        /\ handle \in Tasks /\ handle = Settled + 1 /\ handle - 1 = Settled /\ Settled' = handle
        /\ out[handle] = <<>> /\ worker[handle] \in {"closed", "done"}
    BY <1>3, <1>5, Numbers DEF SettleHandle, Drained, workers
  <2>2. delivered' = SerialOutput!Serial(Len(delivered))'
    BY <2>1 DEF Delivery, SerialOutput!Serial
  <2>3. ASSUME firstErr = NoTask
        PROVE  /\ Len(delivered) \in ends[handle-1] .. at[handle]
               /\ herr[handle] = "nil" => Len(delivered) = ends[handle] /\ at[handle] = ends[handle]
    <3>1. Chained(handle) /\ held = NoBatch /\ cur[handle] = NoBatch
      BY <1>3, <2>1, <2>3 DEF Chain, Owners, Goroutines
    <3>2. UpTo(handle, Len(out[handle])) = Len(delivered)
      BY <2>1, <3>1 DEF UpTo, Out
    <3>3. Len(delivered) >= ends[handle-1]
      BY <2>1, <2>3 DEF Delivery
    <3>4. Len(delivered) \in 0 .. at[handle]
      BY <3>1, <3>2 DEF Chained
    <3>5. herr[handle] = "nil" => at[handle] = ends[handle] /\ Len(delivered) = at[handle]
      BY <2>1, <2>3, <3>1, <3>2 DEF Chain, Chained
    <3>6. ends[handle-1] \in Nat
      BY <1>3, <2>1, Ends
    <3>7. QED
      BY <3>3, <3>4, <3>5, <3>6
  <2>4. CASE FailsRun
    <3>1. firstErr' = handle /\ points' = points /\ firstErr = NoTask /\ herr[handle] # "nil"
      BY <1>5, <2>4 DEF SettleHandle, FailsRun
    <3>2. herr[handle] = "read"
      BY <1>1, <2>1, <3>1 DEF Goroutines, Cancellation
    <3>3. points = ends[handle-1] /\ \A t \in 1 .. handle - 1 : herr[t] = "nil"
      BY <1>1, <1>3, <2>1, <3>1, Numbers DEF Delivery, Tasks
    <3>4. Len(delivered) \in ends[handle-1] .. ends[handle]
      <4>1. at[handle] \in ends[handle-1] .. ends[handle] /\ ends[handle] \in Nat
            /\ ends[handle-1] \in Nat
        BY <1>1, <1>3, <2>1, Ends, Numbers DEF Tasks
      <4>2. QED
        BY <2>3, <3>1, <4>1
    <3>5. handle # NoTask
      BY <2>1, Numbers DEF Tasks, NoTask
    <3>6. QED
      BY <1>2, <2>1, <2>2, <3>1, <3>2, <3>3, <3>4, <3>5, Numbers
         DEF Delivery, FirstErrorIsFirst, Tasks
  <2>5. CASE ~ FailsRun /\ firstErr = NoTask
    <3>1. firstErr' = firstErr /\ herr[handle] = "nil"
          /\ points' = points + (at[handle] - ends[handle-1])
      BY <1>1, <1>5, <2>1, <2>5 DEF SettleHandle, FailsRun
    <3>2. points = ends[handle-1] /\ ends[handle-1] \in Nat /\ ends[handle] \in Nat
      BY <1>3, <2>1, <2>5, Ends, Numbers DEF Delivery, Tasks
    <3>3. points' = ends[handle] /\ Len(delivered) = ends[handle]
      BY <2>3, <2>5, <3>1, <3>2
    <3>4. \A t \in Tasks : t <= Settled' => herr'[t] = "nil"
      BY <1>3, <2>1, <2>5, <3>1, Numbers DEF Delivery, Tasks
    <3>5. QED
      BY <1>2, <2>1, <2>2, <2>5, <3>1, <3>3, <3>4 DEF Delivery
  <2>6. CASE ~ FailsRun /\ firstErr # NoTask
    <3>1. firstErr' = firstErr /\ points' = points
      BY <1>5, <2>6 DEF SettleHandle
    <3>2. FirstErrorIsFirst /\ firstErr <= Settled
      BY <2>6 DEF Delivery
    <3>3. firstErr <= Settled'
      BY <1>1, <1>3, <2>1, <2>6, <3>2, Numbers DEF Tasks
    <3>4. QED
      BY <1>2, <2>1, <2>2, <2>6, <3>1, <3>2, <3>3 DEF Delivery, FirstErrorIsFirst
  <2>7. QED
    BY <2>4, <2>5, <2>6
<1>6. CASE \E u \in Tasks : Worker(u)
  <2>1. PICK u \in Tasks : Worker(u)
    BY <1>6
  <2>2. UNCHANGED <<delivered, firstErr, points, cons>> /\ ~ SettleHandle
    BY <2>1 DEF Worker, MergeIntoNewBatch, MergeIntoBatch, Flush, FlushCancelled,
                MergeFails, MergeEnds, WorkerExits, consumer, SettleHandle, Drained
  <2>3. \A t \in Tasks : t <= Settled => herr'[t] = herr[t]
    <3>1. herr' = herr \/ \E x : worker[u] = "merge" /\ herr' = [herr EXCEPT ![u] = x]
      BY <2>1 DEF Worker, MergeIntoNewBatch, MergeIntoBatch, Flush, FlushCancelled,
                  MergeFails, MergeEnds, WorkerExits
    <3>2. worker[u] = "merge" => ~ (u <= Settled)
      BY DEF Goroutines
    <3>3. QED
      BY <1>1, <3>1, <3>2
  <2>4. CASE firstErr = NoTask
    BY <1>2, <1>3, <2>2, <2>3, <2>4 DEF Delivery, SerialOutput!Serial
  <2>5. CASE firstErr # NoTask
    <3>1. firstErr \in Tasks /\ firstErr <= Settled
      BY <1>1, <2>5 DEF Delivery
    <3>2. herr'[firstErr] = herr[firstErr] /\ \A t \in 1 .. firstErr - 1 : herr'[t] = herr[t]
      BY <1>3, <2>3, <3>1, Numbers DEF Tasks
    <3>3. QED
      BY <1>2, <1>3, <2>2, <2>5, <3>1, <3>2 DEF Delivery, FirstErrorIsFirst, SerialOutput!Serial
  <2>6. QED
    BY <2>4, <2>5
<1>7. CASE TakeHandle
  <2>1. UNCHANGED <<delivered, firstErr, points, herr>> /\ ~ SettleHandle
        /\ cons = "next" /\ cons' = "drain"
    BY <1>7 DEF TakeHandle, workers, SettleHandle, Drained
  <2>2. ends[Settled] \in Nat
    BY <1>3, Ends
  <2>3. QED
    BY <1>2, <1>3, <2>1, <2>2 DEF Delivery, FirstErrorIsFirst, SerialOutput!Serial
<1>8. ASSUME UNCHANGED <<delivered, firstErr, points, herr>>, ~ SettleHandle,
             cons \in {"drain", "emit"} <=> cons' \in {"drain", "emit"}
      PROVE  Delivery'
  BY <1>2, <1>3, <1>8 DEF Delivery, FirstErrorIsFirst, SerialOutput!Serial
<1>9. CASE Scheduler \/ CloseBudget \/ UNCHANGED vars
  <2>1. UNCHANGED <<delivered, firstErr, points, herr, cons>>
    BY <1>9 DEF Scheduler, Acquire, AcquireCancelled, TakeSlot, SlotCancelled, Offer,
                OfferCancelled, Spawn, AllAdmitted, CloseBudget, vars, consumer, workers
  <2>2. ~ SettleHandle
    BY <2>1 DEF SettleHandle, Drained
  <2>3. QED
    BY <1>8, <2>1, <2>2
<1>10. CASE OrderedClosed \/ TakeBatch \/ ReleaseBudget \/ Return
  <2>1. UNCHANGED <<delivered, firstErr, points, herr>> /\ ~ SettleHandle
        /\ (cons \in {"drain", "emit"} <=> cons' \in {"drain", "emit"})
    BY <1>10 DEF OrderedClosed, TakeBatch, ReleaseBudget, Return, workers, SettleHandle, Drained
  <2>2. QED
    BY <1>8, <2>1
<1>11. QED
  BY <1>4, <1>5, <1>6, <1>7, <1>9, <1>10 DEF Next, Consumer

-----------------------------------------------------------------------------
(* Types.                                                                  *)

LEMMA InitTypes == ASSUME Init PROVE TypeOK
<1>1. PICK w \in Workloads : ends = w.ends /\ est = w.est
  BY DEF Init
<1>2. w = [ends |-> w.ends, est |-> w.est]
  BY ConstantsAssumption
<1>3. [ends |-> ends, est |-> est] \in Workloads
  BY <1>1, <1>2
<1>4. ends \in [0 .. NTasks -> Nat] /\ \A t \in Tasks : ends[t-1] <= ends[t]
  BY <1>1, WorkloadTypes
<1>5. at \in [Tasks -> Nat] /\ \A t \in Tasks : at[t] \in ends[t-1] .. ends[t]
  <2>1. at = [t \in Tasks |-> ends[t-1]]
    BY DEF Init
  <2>2. QED
    BY <1>4, <2>1, Numbers DEF Tasks
<1>6. pool \subseteq Batches /\ Cardinality(pool) <= PoolCap
  BY Numbers, FS_EmptySet DEF PoolCap, Init
<1>7. rows \in [Batches -> Seq(Nat)] /\ \A b \in Batches : Len(rows[b]) <= BatchSize
  BY Numbers DEF Init
<1>8. out \in [Tasks -> Seq(Batches)] /\ \A t \in Tasks : Len(out[t]) <= ChanCap
  BY DEF Init, ChanCap
<1>9. points \in 0 .. ends[NTasks]
  BY <1>4, Numbers DEF Init
<1>10. /\ sched \in {"acquire", "slot", "offer", "spawn", "stopped"}
       /\ task \in 1 .. NTasks + 1 /\ used \in 0 .. Budget
       /\ closed \in BOOLEAN /\ ctxDone \in BOOLEAN
       /\ sem \in 0 .. Workers
  <2>1. sched = "acquire" /\ task = 1 /\ used = 0 /\ sem = 0
    BY DEF Init
  <2>2. closed \in BOOLEAN /\ ctxDone \in BOOLEAN
    BY DEF Init
  <2>3. QED
    BY <2>1, <2>2, Numbers
<1>11. /\ worker \in [Tasks -> {"none", "merge", "closed", "done"}]
       /\ cur \in [Tasks -> Batches \cup {NoBatch}]
       /\ herr \in [Tasks -> {"nil", "read", "ctx"}]
  BY DEF Init
<1>12. /\ cons \in {"next", "drain", "emit", "release", "join", "returned"}
       /\ handle \in Tasks \cup {NoTask}
       /\ held \in Batches \cup {NoBatch}
       /\ firstErr \in Tasks \cup {NoTask}
       /\ delivered \in Seq(Nat)
  BY DEF Init
<1>13. ordered \in Seq(Tasks) /\ Len(ordered) <= Workers
  <2>1. ordered = <<>>
    BY DEF Init
  <2>2. QED
    BY <2>1, Numbers
<1>14. QED
  BY <1>3, <1>5, <1>6, <1>7, <1>8, <1>9, <1>10, <1>11, <1>12, <1>13 DEF TypeOK

LEMMA TypeStep ==
  ASSUME TypeOK, InListOrder, Slots, BudgetKept, Owners, Delivery, [Next]_vars
  PROVE  TypeOK'
<1>1. [ends |-> ends, est |-> est]' \in Workloads
  BY WorkloadFixed DEF TypeOK
<1>2. ends' = ends /\ est' = est
  BY WorkloadFixed
<1>3. CASE UNCHANGED vars
  BY <1>3 DEF TypeOK, vars
<1>4. CASE Scheduler \/ CloseBudget
  <2> USE Numbers DEF scheduler, budget, consumer, batches, workers
  <2>0. /\ used \in 0 .. Budget /\ sem \in 0 .. Workers
        /\ sched \in {"acquire", "slot", "offer", "spawn", "stopped"} /\ closed \in BOOLEAN
        /\ task \in 1 .. NTasks + 1
        /\ ordered \in Seq(Tasks) /\ Len(ordered) <= Workers
        /\ worker \in [Tasks -> {"none", "merge", "closed", "done"}]
    BY DEF TypeOK
  <2>1. UNCHANGED <<at, cur, out, herr, pool, rows, cons, handle, held, firstErr, points,
                    delivered, ctxDone>>
    BY <1>4 DEF Scheduler, Acquire, AcquireCancelled, TakeSlot, SlotCancelled, Offer,
                OfferCancelled, Spawn, AllAdmitted, CloseBudget
  <2>2. sched' \in {"acquire", "slot", "offer", "spawn", "stopped"} /\ closed' \in BOOLEAN
    BY <1>4, <2>0 DEF Scheduler, Acquire, AcquireCancelled, TakeSlot, SlotCancelled, Offer,
                OfferCancelled, Spawn, AllAdmitted, CloseBudget
  <2>3. sched \in {"slot", "offer", "spawn"} => task \in Tasks
    BY DEF InListOrder
  <2>4. task' \in 1 .. NTasks + 1 /\ worker' \in [Tasks -> {"none", "merge", "closed", "done"}]
    <3>1. CASE Spawn
      BY <2>0, <2>3, <3>1 DEF Spawn, Tasks
    <3>2. CASE task' = task /\ worker' = worker
      BY <2>0, <3>2
    <3>3. QED
      BY <1>4, <3>1, <3>2 DEF Scheduler, Acquire, AcquireCancelled, TakeSlot, SlotCancelled,
                Offer, OfferCancelled, AllAdmitted, CloseBudget
  <2>5. used' \in 0 .. Budget
    <3>1. CASE SlotCancelled \/ OfferCancelled
      <4>1. task \in Charged
        <5>1. task \in Tasks /\ Taken \in Nat /\ Taken <= task /\ (handle = NoTask => Taken < task)
              /\ sched \in {"slot", "offer", "spawn"}
          <6>1. task \in Tasks /\ Taken \in Nat /\ ordered \in Seq(Tasks) /\ sched # "spawn"
                /\ sched \in {"slot", "offer"}
            BY <2>0, <2>3, <3>1, Positions DEF SlotCancelled, OfferCancelled
          <6>2. Taken = (task - 1) - Len(ordered) /\ Len(ordered) \in Nat
            BY <2>0, <6>1 DEF Taken, Offered
          <6>3. QED
            BY <6>1, <6>2 DEF Tasks
        <5>2. QED
          BY <5>1 DEF Charged
      <4>2. used = SumOver(Shares, Charged) /\ Charged \in SUBSET Tasks
        BY DEF BudgetKept, Charged
      <4>3. SumOver(Shares, Charged) - Clamped(task) \in Nat /\ Clamped(task) \in Nat
        BY <4>1, <4>2, Shares1
      <4>4. used' = used - Clamped(task)
        BY <3>1 DEF SlotCancelled, OfferCancelled
      <4>5. QED
        BY <2>0, <4>2, <4>3, <4>4
    <3>2. CASE Acquire
      <4>1. Clamped(task) \in Nat
        BY <3>2, ShareTypes DEF Acquire
      <4>2. QED
        BY <2>0, <3>2, <4>1 DEF Acquire, Fits
    <3>3. QED
      BY <1>4, <2>0, <3>1, <3>2 DEF Scheduler, AcquireCancelled, TakeSlot, Offer,
                Spawn, AllAdmitted, CloseBudget
  <2>6. sem' \in 0 .. Workers
    <3>1. CASE TakeSlot
      BY <2>0, <3>1 DEF TakeSlot, SlotFree
    <3>2. CASE OfferCancelled
      BY <2>0, <3>2, BusyFinite DEF OfferCancelled, Slots
    <3>3. QED
      BY <1>4, <2>0, <3>1, <3>2 DEF Scheduler, Acquire, AcquireCancelled, SlotCancelled, Offer,
                Spawn, AllAdmitted, CloseBudget
  <2>7. ordered' \in Seq(Tasks) /\ Len(ordered') <= Workers
    <3>1. CASE Offer
      BY <2>0, <2>3, <3>1 DEF Offer
    <3>2. QED
      BY <1>4, <2>0, <3>1 DEF Scheduler, Acquire, AcquireCancelled, TakeSlot, SlotCancelled,
                OfferCancelled, Spawn, AllAdmitted, CloseBudget
  <2>8. /\ at' \in [Tasks -> Nat] /\ \A t \in Tasks : at'[t] \in ends[t-1] .. ends[t]
        /\ cur' \in [Tasks -> Batches \cup {NoBatch}]
        /\ out' \in [Tasks -> Seq(Batches)] /\ \A t \in Tasks : Len(out'[t]) <= ChanCap
        /\ herr' \in [Tasks -> {"nil", "read", "ctx"}]
        /\ pool' \subseteq Batches /\ Cardinality(pool') <= PoolCap
        /\ rows' \in [Batches -> Seq(Nat)] /\ \A b \in Batches : Len(rows'[b]) <= BatchSize
        /\ cons' \in {"next", "drain", "emit", "release", "join", "returned"}
        /\ handle' \in Tasks \cup {NoTask}
        /\ held' \in Batches \cup {NoBatch}
        /\ firstErr' \in Tasks \cup {NoTask}
        /\ points' \in 0 .. ends[NTasks]
        /\ delivered' \in Seq(Nat)
        /\ ctxDone' \in BOOLEAN
    BY <2>1 DEF TypeOK
  <2>9. QED
    BY ONLY <1>1, <1>2, <2>2, <2>4, <2>5, <2>6, <2>7, <2>8 DEF TypeOK
<1>5. CASE \E t \in Tasks : Worker(t)
  <2> USE DEF scheduler, budget, consumer, batches, workers
  <2>1. PICK t \in Tasks : Worker(t)
    BY <1>5
  <2>2. UNCHANGED <<sched, task, used, closed, ctxDone, ordered, cons, handle, held, firstErr,
                    points, delivered>>
    BY <2>1 DEF Worker, MergeIntoNewBatch, MergeIntoBatch, Flush, FlushCancelled,
                MergeFails, MergeEnds, WorkerExits
  <2>3. /\ ends \in [0 .. NTasks -> Nat]
        /\ worker \in [Tasks -> {"none", "merge", "closed", "done"}]
        /\ at \in [Tasks -> Nat] /\ \A u \in Tasks : at[u] \in ends[u-1] .. ends[u]
        /\ cur \in [Tasks -> Batches \cup {NoBatch}]
        /\ out \in [Tasks -> Seq(Batches)] /\ \A u \in Tasks : Len(out[u]) <= ChanCap
        /\ herr \in [Tasks -> {"nil", "read", "ctx"}]
        /\ pool \subseteq Batches /\ Cardinality(pool) <= PoolCap
        /\ rows \in [Batches -> Seq(Nat)] /\ \A b \in Batches : Len(rows[b]) <= BatchSize
        /\ sem \in 0 .. Workers
    BY Ends DEF TypeOK
  <2>4. worker' \in [Tasks -> {"none", "merge", "closed", "done"}]
        /\ herr' \in [Tasks -> {"nil", "read", "ctx"}]
    BY <2>1, <2>3 DEF Worker, MergeIntoNewBatch, MergeIntoBatch, Flush, FlushCancelled,
                MergeFails, MergeEnds, WorkerExits
  <2>5. at' \in [Tasks -> Nat] /\ \A u \in Tasks : at'[u] \in ends[u-1] .. ends[u]
    <3>1. CASE MergeIntoNewBatch(t) \/ MergeIntoBatch(t)
      <4>1. at' = [at EXCEPT ![t] = @ + 1] /\ at[t] < ends[t]
        BY <3>1 DEF MergeIntoNewBatch, MergeIntoBatch
      <4>2. ends[t] \in Nat /\ ends[t-1] \in Nat
        BY <2>3, Numbers DEF Tasks
      <4>3. at'[t] \in ends[t-1] .. ends[t] /\ at'[t] \in Nat
        BY <2>3, <4>1, <4>2
      <4>4. QED
        BY <2>3, <4>1, <4>3
    <3>2. CASE at' = at
      BY <2>3, <3>2
    <3>3. QED
      BY <2>1, <3>1, <3>2 DEF Worker, Flush, FlushCancelled, MergeFails, MergeEnds, WorkerExits
  <2>6. /\ cur' \in [Tasks -> Batches \cup {NoBatch}]
        /\ pool' \subseteq Batches /\ Cardinality(pool') <= PoolCap
        /\ rows' \in [Batches -> Seq(Nat)] /\ \A b \in Batches : Len(rows'[b]) <= BatchSize
    <3>1. CASE MergeIntoNewBatch(t)
      <4> DEFINE b == Min(Obtainable)
      <4>1. b \in Batches /\ cur' = [cur EXCEPT ![t] = b] /\ pool' = pool \ {b}
            /\ rows' = [rows EXCEPT ![b] = <<at[t] + 1>>]
        BY <3>1, BatchObtained DEF MergeIntoNewBatch
      <4>2. <<at[t] + 1>> \in Seq(Nat) /\ Len(<<at[t] + 1>>) <= BatchSize
        BY <2>3, Numbers
      <4>3. IsFiniteSet(pool)
        <5>1. IsFiniteSet(Batches)
          BY Numbers, FS_Interval DEF Batches, ChanCap
        <5>2. QED
          BY <2>3, <5>1, FS_Subset
      <4> HIDE DEF b
      <4>4. Cardinality(pool \ {b}) <= Cardinality(pool) /\ Cardinality(pool \ {b}) \in Nat
            /\ Cardinality(pool) \in Nat
        <5>1. pool \ {b} \subseteq pool
          OBVIOUS
        <5>2. QED
          BY <4>3, <5>1, FS_Subset, FS_CardinalityType
      <4>5. Cardinality(pool') <= PoolCap
        BY <2>3, <4>1, <4>4, Numbers DEF PoolCap
      <4>6. QED
        BY <2>3, <4>1, <4>2, <4>5
    <3>2. CASE MergeIntoBatch(t)
      <4>1. cur' = cur /\ pool' = pool /\ cur[t] \in Batches
            /\ rows' = [rows EXCEPT ![cur[t]] = Append(rows[cur[t]], at[t] + 1)]
            /\ Len(rows[cur[t]]) < BatchSize
        BY <2>3, <3>2 DEF MergeIntoBatch
      <4>2. rows[cur[t]] \in Seq(Nat) /\ at[t] + 1 \in Nat
        BY <2>3, <4>1
      <4>3. Append(rows[cur[t]], at[t] + 1) \in Seq(Nat)
            /\ Len(Append(rows[cur[t]], at[t] + 1)) <= BatchSize
        BY <4>1, <4>2, AppendProperties, Numbers
      <4>4. QED
        BY <2>3, <4>1, <4>3
    <3>3. CASE Flush(t) \/ FlushCancelled(t) \/ MergeFails(t) \/ MergeEnds(t) \/ WorkerExits(t)
      BY <2>3, <3>3 DEF Flush, FlushCancelled, MergeFails, MergeEnds, WorkerExits
    <3>4. QED
      BY <2>1, <3>1, <3>2, <3>3 DEF Worker
  <2>7. out' \in [Tasks -> Seq(Batches)] /\ \A u \in Tasks : Len(out'[u]) <= ChanCap
    <3>1. CASE Flush(t)
      <4>1. out' = [out EXCEPT ![t] = Append(out[t], cur[t])] /\ cur[t] \in Batches
            /\ Len(out[t]) < ChanCap /\ out[t] \in Seq(Batches)
        BY <2>3, <3>1 DEF Flush
      <4>2. Append(out[t], cur[t]) \in Seq(Batches) /\ Len(Append(out[t], cur[t])) <= ChanCap
        BY <4>1, AppendProperties DEF ChanCap
      <4>3. QED
        BY <2>3, <4>1, <4>2
    <3>2. CASE out' = out
      BY <2>3, <3>2
    <3>3. QED
      BY <2>1, <3>1, <3>2 DEF Worker, MergeIntoNewBatch, MergeIntoBatch, FlushCancelled,
                MergeFails, MergeEnds, WorkerExits
  <2>8. sem' \in 0 .. Workers
    <3>1. CASE WorkerExits(t)
      <4>1. t \in Busy
        BY <3>1 DEF WorkerExits, Busy
      <4>2. Cardinality(Busy) # 0
        BY <4>1, BusyFinite, FS_EmptySet
      <4>3. QED
        BY <2>3, <3>1, <4>2, BusyFinite, Numbers DEF WorkerExits, Slots
    <3>2. CASE sem' = sem
      BY <2>3, <3>2
    <3>3. QED
      BY <2>1, <3>1, <3>2 DEF Worker, MergeIntoNewBatch, MergeIntoBatch, Flush, FlushCancelled,
                MergeFails, MergeEnds
  <2>9. /\ sched' \in {"acquire", "slot", "offer", "spawn", "stopped"} /\ task' \in 1 .. NTasks + 1
        /\ used' \in 0 .. Budget /\ closed' \in BOOLEAN /\ ctxDone' \in BOOLEAN
        /\ ordered' \in Seq(Tasks) /\ Len(ordered') <= Workers
        /\ cons' \in {"next", "drain", "emit", "release", "join", "returned"}
        /\ handle' \in Tasks \cup {NoTask} /\ held' \in Batches \cup {NoBatch}
        /\ firstErr' \in Tasks \cup {NoTask} /\ points' \in 0 .. ends[NTasks]
        /\ delivered' \in Seq(Nat)
    BY <2>2 DEF TypeOK
  <2>10. QED
    BY ONLY <1>1, <1>2, <2>4, <2>5, <2>6, <2>7, <2>8, <2>9 DEF TypeOK
<1>6. CASE Consumer
  <2> USE DEF scheduler, budget, batches, workers, consumer
  <2>1. UNCHANGED <<sched, task, closed, sem, worker, at, cur, herr, rows>>
    BY <1>6 DEF Consumer, TakeHandle, OrderedClosed, TakeBatch, EmitBatch, SettleHandle,
                ReleaseBudget, Return
  <2>2. cons' \in {"next", "drain", "emit", "release", "join", "returned"}
        /\ ctxDone' \in BOOLEAN
    BY <1>6 DEF Consumer, TakeHandle, OrderedClosed, TakeBatch, EmitBatch, SettleHandle,
                ReleaseBudget, Return, TypeOK
  <2>3. ordered' \in Seq(Tasks) /\ Len(ordered') <= Workers /\ handle' \in Tasks \cup {NoTask}
    <3>1. CASE TakeHandle
      <4>1. ordered \in Seq(Tasks) /\ ordered # <<>> /\ Len(ordered) <= Workers
            /\ handle' = Head(ordered) /\ ordered' = Tail(ordered)
        BY <3>1 DEF TakeHandle, TypeOK
      <4>2. QED
        BY <4>1, Numbers
    <3>2. CASE ordered' = ordered /\ handle' \in {handle, NoTask}
      BY <3>2 DEF TypeOK
    <3>3. QED
      BY <1>6, <3>1, <3>2 DEF Consumer, OrderedClosed, TakeBatch, EmitBatch, SettleHandle,
                ReleaseBudget, Return
  <2>4. /\ out' \in [Tasks -> Seq(Batches)] /\ \A u \in Tasks : Len(out'[u]) <= ChanCap
        /\ held' \in Batches \cup {NoBatch}
    <3>1. CASE TakeBatch
      <4>1. out \in [Tasks -> Seq(Batches)] /\ handle \in Tasks /\ out[handle] # <<>>
            /\ held' = Head(out[handle]) /\ out' = [out EXCEPT ![handle] = Tail(out[handle])]
            /\ \A u \in Tasks : Len(out[u]) <= ChanCap
        BY <3>1, Positions DEF TakeBatch, TypeOK
      <4>2. out[handle] \in Seq(Batches)
        BY <4>1
      <4>3. Head(out[handle]) \in Batches /\ Tail(out[handle]) \in Seq(Batches)
            /\ Len(Tail(out[handle])) <= ChanCap
        BY <4>1, <4>2 DEF ChanCap
      <4>4. QED
        BY <4>1, <4>3
    <3>2. CASE out' = out /\ held' \in {held, NoBatch}
      BY <3>2 DEF TypeOK
    <3>3. QED
      BY <1>6, <3>1, <3>2 DEF Consumer, TakeHandle, OrderedClosed, EmitBatch, SettleHandle,
                ReleaseBudget, Return
  <2>5. pool' \subseteq Batches /\ Cardinality(pool') <= PoolCap
    <3>1. CASE EmitBatch
      <4>1. pool \subseteq Batches /\ Cardinality(pool) <= PoolCap
            /\ held \in Batches \cup {NoBatch} /\ pool' = Recycled(held)
        BY <3>1 DEF EmitBatch, TypeOK
      <4>2. held \in Batches
        BY <3>1, <4>1 DEF EmitBatch, Owners
      <4>3. IsFiniteSet(pool) /\ Cardinality(pool) \in Nat
        <5>1. IsFiniteSet(Batches)
          BY Numbers, FS_Interval DEF Batches, ChanCap
        <5>2. QED
          BY <4>1, <5>1, FS_Subset, FS_CardinalityType
      <4>4. Cardinality(pool \cup {held}) <= Cardinality(pool) + 1
            /\ Cardinality(pool \cup {held}) \in Nat
        BY <4>3, FS_AddElement
      <4>5. QED
        BY <4>1, <4>2, <4>3, <4>4, Numbers DEF Recycled, PoolCap
    <3>2. CASE pool' = pool
      BY <3>2 DEF TypeOK
    <3>3. QED
      BY <1>6, <3>1, <3>2 DEF Consumer, TakeHandle, OrderedClosed, TakeBatch, SettleHandle,
                ReleaseBudget, Return
  <2>6. firstErr' \in Tasks \cup {NoTask} /\ points' \in 0 .. ends[NTasks]
    <3>1. CASE SettleHandle
      <4>1. handle \in Tasks /\ handle = Settled + 1 /\ firstErr \in Tasks \cup {NoTask}
            /\ points \in 0 .. ends[NTasks] /\ Settled \in Nat
        BY <3>1, Positions DEF SettleHandle, Drained, TypeOK
      <4>2. firstErr' \in Tasks \cup {NoTask}
        BY <3>1, <4>1 DEF SettleHandle
      <4>3. CASE firstErr = NoTask /\ ~ FailsRun
        <5>1. points' = points + (at[handle] - ends[handle-1]) /\ points = ends[handle-1]
          BY <3>1, <4>1, <4>3 DEF SettleHandle, Delivery
        <5>2. at[handle] \in ends[handle-1] .. ends[handle]
              /\ ends[handle] <= ends[NTasks] /\ ends[handle] \in Nat /\ ends[handle-1] \in Nat
              /\ ends[NTasks] \in Nat
          <6>1. at[handle] \in ends[handle-1] .. ends[handle]
            BY <4>1 DEF TypeOK
          <6>2. handle \in 0 .. NTasks /\ handle - 1 \in 0 .. NTasks /\ NTasks \in 0 .. NTasks
                /\ handle <= NTasks
            BY <4>1, Numbers DEF Tasks
          <6>3. QED
            BY <6>1, <6>2, Ends
        <5>3. points' \in 0 .. ends[NTasks]
          BY <5>1, <5>2
        <5>4. QED
          BY <4>2, <5>3
      <4>4. CASE firstErr # NoTask \/ FailsRun
        BY <3>1, <4>1, <4>2, <4>4 DEF SettleHandle, FailsRun
      <4>5. QED
        BY <4>3, <4>4
    <3>2. CASE firstErr' = firstErr /\ points' = points
      BY <3>2 DEF TypeOK
    <3>3. QED
      BY <1>6, <3>1, <3>2 DEF Consumer, TakeHandle, OrderedClosed, TakeBatch, EmitBatch,
                ReleaseBudget, Return
  <2>7. used' \in 0 .. Budget
    <3>1. CASE ReleaseBudget
      <4>1. handle \in Charged
        <5>1. handle = Taken /\ handle \in Tasks /\ handle # NoTask /\ Taken <= Offered
          <6>1. handle = Taken /\ handle \in Tasks /\ handle # NoTask
            BY <3>1, Positions, Numbers DEF ReleaseBudget, InListOrder, Tasks, NoTask
          <6>2. Len(ordered) \in Nat /\ Offered \in Int /\ Taken = Offered - Len(ordered)
            BY Numbers DEF TypeOK, Taken, Offered
          <6>3. QED
            BY <6>1, <6>2 DEF Tasks
        <5>2. QED
          BY <3>1, <5>1, Numbers DEF Charged, Offered, Tasks, TypeOK
      <4>2. used = SumOver(Shares, Charged) /\ Charged \in SUBSET Tasks /\ used \in 0 .. Budget
        BY DEF BudgetKept, Charged, TypeOK
      <4>3. SumOver(Shares, Charged) - Clamped(handle) \in Nat /\ Clamped(handle) \in Nat
        BY <4>1, <4>2, Shares1
      <4>4. used' = used - Clamped(handle)
        BY <3>1 DEF ReleaseBudget
      <4>5. QED
        BY <4>2, <4>3, <4>4, Numbers
    <3>2. CASE used' = used
      BY <3>2 DEF TypeOK
    <3>3. QED
      BY <1>6, <3>1, <3>2 DEF Consumer, TakeHandle, OrderedClosed, TakeBatch, EmitBatch,
                SettleHandle, Return
  <2>8. delivered' \in Seq(Nat)
    <3>1. CASE EmitBatch
      <4>1. delivered \in Seq(Nat) /\ held \in Batches /\ rows[held] \in Seq(Nat)
            /\ delivered' = Emitted
        BY <3>1 DEF EmitBatch, Owners, TypeOK
      <4>2. QED
        BY <4>1, ConcatProperties DEF Emitted
    <3>2. CASE delivered' = delivered
      BY <3>2 DEF TypeOK
    <3>3. QED
      BY <1>6, <3>1, <3>2 DEF Consumer, TakeHandle, OrderedClosed, TakeBatch, SettleHandle,
                ReleaseBudget, Return
  <2>9. QED
    BY <1>1, <1>2, <2>1, <2>2, <2>3, <2>4, <2>5, <2>6, <2>7, <2>8 DEF TypeOK
<1>7. QED
  BY <1>3, <1>4, <1>5, <1>6 DEF Next

-----------------------------------------------------------------------------
(* The invariant holds.                                                    *)

LEMMA AtRestStep ==
  ASSUME TypeOK, InListOrder, AtRest, [Next]_vars
  PROVE  AtRest'
<1> USE DEF AtRest, Joined
<1>1. CASE cons = "returned"
  <2>1. sched = "stopped" /\ \A t \in Tasks : worker[t] \in {"none", "done"}
    BY <1>1 DEF InListOrder
  <2>2. worker' = worker
    BY <1>1, <2>1 DEF Next, Scheduler, Worker, Consumer, vars, workers, Acquire,
         AcquireCancelled, TakeSlot, SlotCancelled, Offer, OfferCancelled, Spawn,
         AllAdmitted, CloseBudget, MergeIntoNewBatch, MergeIntoBatch, Flush,
         FlushCancelled, MergeFails, MergeEnds, WorkerExits, TakeHandle, OrderedClosed,
         TakeBatch, EmitBatch, SettleHandle, Drained, ReleaseBudget, Return
  <2>3. QED
    BY <2>1, <2>2
<1>2. CASE Return
  BY <1>2 DEF Return, workers
<1>3. CASE cons # "returned" /\ ~ Return
  <2>1. cons' # "returned"
    BY <1>3 DEF Next, Scheduler, Worker, Consumer, vars, consumer, Acquire,
         AcquireCancelled, TakeSlot, SlotCancelled, Offer, OfferCancelled, Spawn,
         AllAdmitted, CloseBudget, MergeIntoNewBatch, MergeIntoBatch, Flush,
         FlushCancelled, MergeFails, MergeEnds, WorkerExits, TakeHandle, OrderedClosed,
         TakeBatch, EmitBatch, SettleHandle, ReleaseBudget
  <2>2. QED
    BY <2>1
<1>4. QED
  BY <1>1, <1>2, <1>3

LEMMA InitIInv == ASSUME Init PROVE IInv
<1>1. TypeOK
  BY InitTypes
<1>2. AtRest
  BY DEF Init, AtRest
<1>3. QED
  BY <1>1, <1>2, InitOrder, InitCancellation, InitGoroutines, InitSlots, InitBudget,
     InitOwners, InitChain, InitDelivery DEF IInv

LEMMA NextIInv == ASSUME IInv, [Next]_vars PROVE IInv'
<1> USE DEF IInv
<1>1. TypeOK'
  BY TypeStep
<1>2. InListOrder'
  BY OrderStep
<1>3. Cancellation'
  BY CancellationStep
<1>4. Goroutines'
  BY <1>1, GoroutinesStep
<1>5. AtRest'
  BY AtRestStep
<1>6. Slots'
  BY SlotsStep
<1>7. BudgetKept'
  BY <1>2, BudgetStep
<1>8. Owners'
  BY OwnersStep
<1>9. Chain'
  BY ChainStep
<1>10. Delivery'
  BY DeliveryStep
<1>11. QED
  BY <1>1, <1>2, <1>3, <1>4, <1>5, <1>6, <1>7, <1>8, <1>9, <1>10

LEMMA Invariance == Spec => []IInv
  BY InitIInv, NextIInv, PTL DEF Spec

-----------------------------------------------------------------------------
(* What follows from it.                                                   *)

(* The state of the scheduler, the workers and the consumer is well typed  *)
(* in every reachable state.                                               *)
THEOREM SplitTypeCorrect == Spec => []TypeOK
<1>1. IInv => TypeOK
  BY DEF IInv
<1>2. QED
  BY <1>1, Invariance, PTL

(* The tasks that hold budget, as the property counts them.                *)
LEMMA HoldingIsCharged == ASSUME IInv PROVE Holding = Charged
<1> USE Numbers DEF IInv
<1>1. /\ task \in 1 .. NTasks + 1 /\ ordered \in Seq(Tasks) /\ Taken \in Nat
      /\ handle \in Tasks \cup {NoTask}
      /\ Len(ordered) \in Nat
  BY Positions DEF TypeOK
<1>2. Offered = Taken + Len(ordered) /\ Offered \in {task, task - 1}
      /\ (sched # "spawn" => Offered = task - 1)
  BY <1>1 DEF Taken, Offered
<1>3. handle = NoTask \/ (handle = Taken /\ Taken > 0 /\ handle # NoTask)
  BY <1>1 DEF InListOrder, NoTask
<1>4. ASSUME NEW t \in Admitted
      PROVE  ~ Retired(t) <=> IF handle = NoTask THEN Taken < t ELSE Taken <= t
  <2>1. t \in Tasks /\ t # NoTask
        /\ (t < task \/ (t = task /\ sched \in {"slot", "offer", "spawn"}))
    BY DEF Admitted, Tasks, NoTask
  <2>2. CASE Taken < t /\ t <= Offered
    <3>1. t - Taken \in 1 .. Len(ordered) /\ ordered[t - Taken] = t
      BY <1>1, <1>2, <2>1, <2>2 DEF InListOrder, Tasks
    <3>2. ~ Retired(t)
      BY <3>1 DEF Retired
    <3>3. QED
      BY <1>1, <2>1, <2>2, <3>2 DEF Tasks
  <2>3. CASE Offered < t
    <3>1. t = task
      BY <1>1, <1>2, <2>1, <2>3 DEF Tasks
    <3>2. worker[t] = "none"
      BY <1>1, <2>1, <3>1 DEF Goroutines
    <3>3. ~ Retired(t)
      BY <3>2 DEF Retired
    <3>4. QED
      BY <1>1, <1>2, <2>1, <2>3, <3>3 DEF Tasks
  <2>4. CASE t = Taken /\ handle = Taken
    BY <1>1, <1>3, <2>1, <2>4 DEF Retired
  <2>5. CASE t <= Taken /\ (t = Taken => handle = NoTask)
    <3>1. t <= Settled
      BY <1>1, <2>1, <2>5 DEF Settled, InListOrder, Tasks, NoTask
    <3>2. worker[t] \in {"closed", "done"}
      BY <2>1, <3>1 DEF Goroutines
    <3>3. t # handle
      BY <1>3, <2>1, <2>5
    <3>4. \A i \in 1 .. Len(ordered) : ordered[i] # t
      BY <1>1, <2>1, <2>5 DEF InListOrder, Tasks
    <3>5. Retired(t)
      BY <3>2, <3>3, <3>4 DEF Retired
    <3>6. QED
      BY <1>1, <2>1, <2>5, <3>5 DEF Tasks
  <2>6. QED
    BY <1>1, <1>2, <1>3, <2>1, <2>2, <2>3, <2>4, <2>5 DEF Tasks
<1>5. Charged = {t \in Admitted : IF handle = NoTask THEN Taken < t ELSE Taken <= t}
  BY DEF Charged, Admitted
<1>6. QED
  BY <1>4, <1>5 DEF Holding

(* The budget counts exactly the admitted tasks that have not retired, on  *)
(* every path of scheduler and consumer, the cancelled ones included.      *)
THEOREM BudgetCounted == Spec => []BudgetExact
<1>1. IInv => BudgetExact
  BY HoldingIsCharged DEF IInv, BudgetKept, BudgetExact, Shares
<1>2. QED
  BY <1>1, Invariance, PTL

(* The error returned is the first in list order, a read error and not the *)
(* cancellation that it causes, and all before it has been delivered.      *)
THEOREM FirstError == Spec => []FirstErrorIsFirst
<1>1. IInv => FirstErrorIsFirst
  BY DEF IInv, Delivery, FirstErrorIsFirst
<1>2. QED
  BY <1>1, Invariance, PTL

(* A set without two different elements.                                   *)
LEMMA AtMostOne ==
  ASSUME NEW S, \A x, y \in S : x = y
  PROVE  IF S = {} THEN Cardinality(S) = 0 ELSE Cardinality(S) = 1
<1>1. CASE S = {}
  BY <1>1, FS_EmptySet
<1>2. CASE S # {}
  <2>1. PICK x \in S : TRUE
    BY <1>2
  <2>2. S = {x}
    BY <2>1
  <2>3. QED
    BY <1>2, <2>2, FS_Singleton
<1>3. QED
  BY <1>1, <1>2

(* A batch is with one worker, in one channel, with the consumer or in the *)
(* pool, and in no two of these.                                           *)
THEOREM BatchOwned == Spec => []OneOwner
<1>1. ASSUME IInv, NEW b \in Batches
      PROVE  Cardinality({t \in Tasks : cur[t] = b})
               + Cardinality({p \in Tasks \X (1 .. ChanCap) :
                                p[2] <= Len(out[p[1]]) /\ out[p[1]][p[2]] = b})
               + (IF held = b THEN 1 ELSE 0)
               + (IF b \in pool THEN 1 ELSE 0) <= 1
  <2> DEFINE C == {t \in Tasks : cur[t] = b}
             Q == {p \in Tasks \X (1 .. ChanCap) :
                     p[2] <= Len(out[p[1]]) /\ out[p[1]][p[2]] = b}
  <2>1. b # NoBatch
    BY Numbers DEF Batches, NoBatch
  <2>2. \A t, u \in C : t = u
    BY <1>1, <2>1 DEF IInv, Owners
  <2>3. \A t \in Tasks : Len(out[t]) \in Nat
    BY <1>1 DEF IInv, TypeOK
  <2>4. \A p \in Q : p[1] \in Tasks /\ p[2] \in 1 .. Len(out[p[1]]) /\ out[p[1]][p[2]] = b
                     /\ p = <<p[1], p[2]>>
    BY <2>3 DEF ChanCap
  <2>5. \A p, q \in Q : p = q
    <3>1. SUFFICES ASSUME NEW p \in Q, NEW q \in Q PROVE p = q
      OBVIOUS
    <3>2. p[1] = q[1] /\ p[2] = q[2]
      BY <1>1, <2>4 DEF IInv, Owners
    <3>3. QED
      BY <2>4, <3>2
  <2>6. /\ C # {} => Q = {} /\ held # b /\ b \notin pool
        /\ Q # {} => held # b /\ b \notin pool
        /\ held = b => b \notin pool
    <3>1. C # {} => Q = {} /\ held # b /\ b \notin pool
      <4>1. ASSUME NEW t \in C PROVE Q = {} /\ held # b /\ b \notin pool
        <5>1. \A p \in Q : FALSE
          BY <1>1, <2>4 DEF IInv, Owners
        <5>2. held # b /\ b \notin pool
          BY <1>1, <2>1 DEF IInv, Owners
        <5>3. QED
          BY <5>1, <5>2
      <4>2. QED
        BY <4>1
    <3>2. ASSUME NEW p \in Q PROVE held # b /\ b \notin pool
      BY <1>1, <2>1, <2>4 DEF IInv, Owners
    <3>3. held = b => b \notin pool
      BY <1>1 DEF IInv, Owners
    <3>4. QED
      BY <3>1, <3>2, <3>3
  <2>7. IF C = {} THEN Cardinality(C) = 0 ELSE Cardinality(C) = 1
    BY <2>2, AtMostOne
  <2>8. IF Q = {} THEN Cardinality(Q) = 0 ELSE Cardinality(Q) = 1
    BY <2>5, AtMostOne
  <2> HIDE DEF C, Q
  <2>9. Cardinality(C) + Cardinality(Q) + (IF held = b THEN 1 ELSE 0)
          + (IF b \in pool THEN 1 ELSE 0) <= 1
    BY <2>6, <2>7, <2>8
  <2>10. QED
    BY <2>9 DEF C, Q
<1>2. IInv => OneOwner
  BY <1>1 DEF OneOwner
<1>3. QED
  BY <1>2, Invariance, PTL

(* Where the consumer is when there are no more handles.                   *)
LEMMA ListEnded ==
  ASSUME IInv, cons \in {"join", "returned"}
  PROVE  /\ sched = "stopped" /\ ordered = <<>> /\ handle = NoTask
         /\ Taken = task - 1 /\ Settled = task - 1
         /\ task \in 1 .. NTasks + 1
         /\ firstErr = NoTask => Settled = NTasks
<1>1. sched = "stopped" /\ ordered = <<>> /\ handle = NoTask
  BY DEF IInv, InListOrder
<1>2. task \in 1 .. NTasks + 1
  BY DEF IInv, TypeOK
<1>3. Len(ordered) = 0
  BY <1>1
<1>4. Offered = task - 1
  BY <1>1 DEF Offered
<1>5. Taken = task - 1
  BY <1>2, <1>3, <1>4 DEF Taken
<1>6. Settled = task - 1
  BY <1>5 DEF Settled
<1>7. firstErr = NoTask => task = NTasks + 1
  BY <1>1 DEF IInv, Cancellation
<1>8. QED
  BY <1>1, <1>2, <1>5, <1>6, <1>7, Numbers

(* When the caller has its answer nothing is left: no goroutine, slot,     *)
(* budget, handle or batch in a channel; and the count is complete.        *)
THEOREM NothingLeft == Spec => []NothingLeftBehind
<1>1. ASSUME IInv, cons = "returned"
      PROVE  /\ sched = "stopped" /\ ordered = <<>>
             /\ \A t \in Tasks : worker[t] \in {"none", "done"} /\ out[t] = <<>>
             /\ sem = 0 /\ used = 0
             /\ firstErr = NoTask => points = ends[NTasks]
  <2>1. /\ sched = "stopped" /\ ordered = <<>> /\ handle = NoTask
        /\ Taken = task - 1 /\ Settled = task - 1 /\ task \in 1 .. NTasks + 1
        /\ firstErr = NoTask => Settled = NTasks
    BY <1>1, ListEnded
  <2>2. \A t \in Tasks : worker[t] \in {"none", "done"}
    BY <1>1 DEF IInv, AtRest, Joined
  <2>3. ASSUME NEW t \in Tasks PROVE out[t] = <<>>
    <3>1. t <= Settled \/ t >= task
      BY <2>1, Numbers DEF Tasks
    <3>2. QED
      BY <1>1, <3>1 DEF IInv, Goroutines
  <2>4. sem = 0
    <3>1. Busy = {}
      BY <2>2 DEF Busy
    <3>2. Cardinality(Busy) = 0
      BY <3>1, FS_EmptySet
    <3>3. QED
      BY <1>1, <2>1, <3>2 DEF IInv, Slots
  <2>5. used = 0
    <3>1. Charged = {}
      BY <2>1, Numbers DEF Charged, Tasks
    <3>2. used = SumOver(Shares, {})
      BY <1>1, <3>1 DEF IInv, BudgetKept
    <3>3. QED
      BY <1>1, <3>2, Shares1 DEF IInv
  <2>6. firstErr = NoTask => points = ends[NTasks]
    BY <1>1, <2>1 DEF IInv, Delivery
  <2>7. QED
    BY <2>1, <2>2, <2>3, <2>4, <2>5, <2>6
<1>2. IInv => NothingLeftBehind
  BY <1>1 DEF NothingLeftBehind
<1>3. QED
  BY <1>2, Invariance, PTL

-----------------------------------------------------------------------------
(* The refinement of SerialExtraction.                                     *)

(* The batches in a channel come after what was taken from it.             *)
LEMMA ChainAscends ==
  ASSUME NEW t \in Tasks, Chained(t), Len(out[t]) \in Nat, at[t] \in Nat
  PROVE  UpTo(t, 0) \in 0 .. at[t]
<1> DEFINE N == {i \in Nat : i <= Len(out[t]) => UpTo(t, 0) <= UpTo(t, i) /\ UpTo(t, i) \in Nat}
<1>1. UpTo(t, 0) \in Nat
  <2>1. CASE Len(out[t]) = 0
    BY <2>1 DEF Chained
  <2>2. CASE Len(out[t]) # 0
    <3>1. Holds(out[t][1], UpTo(t, 1 - 1), UpTo(t, 1))
      BY <2>2 DEF Chained
    <3>2. QED
      BY <3>1 DEF Holds
  <2>3. QED
    BY <2>1, <2>2
<1>2. 0 \in N
  BY <1>1
<1>3. ASSUME NEW i \in N \cap Nat PROVE i + 1 \in N
  <2>1. SUFFICES ASSUME i + 1 <= Len(out[t])
                 PROVE  UpTo(t, 0) <= UpTo(t, i + 1) /\ UpTo(t, i + 1) \in Nat
    OBVIOUS
  <2>2. i + 1 \in 1 .. Len(out[t]) /\ (i + 1) - 1 = i /\ i <= Len(out[t])
    BY <2>1
  <2>3. Holds(out[t][i + 1], UpTo(t, (i + 1) - 1), UpTo(t, i + 1))
    BY <2>2 DEF Chained
  <2>4. Holds(out[t][i + 1], UpTo(t, i), UpTo(t, i + 1))
    BY <2>2, <2>3
  <2>5. QED
    BY <1>1, <2>2, <2>4 DEF Holds
<1>4. Nat \subseteq N
  <2> HIDE DEF N
  <2> QED BY <1>2, <1>3, SetInduction
<1>5. UpTo(t, 0) <= UpTo(t, Len(out[t]))
  BY <1>4
<1>6. UpTo(t, Len(out[t])) \in 0 .. at[t]
  BY DEF Chained
<1>7. QED
  BY <1>1, <1>5, <1>6

LEMMA InitSerial == ASSUME Init PROVE SerialOutput!SInit
<1>1. TypeOK
  BY InitTypes
<1>2. ends[NTasks] \in Nat
  BY <1>1, Ends, Numbers
<1>3. delivered = <<>> /\ cons = "next"
  BY DEF Init
<1>4. QED
  BY <1>2, <1>3 DEF SerialOutput!SInit, Result

(* A batch that the callback sees is a Deliver.                            *)
LEMMA EmitDelivers ==
  ASSUME IInv, EmitBatch
  PROVE  SerialOutput!Deliver \/ UNCHANGED delivered
<1>1. CASE firstErr = NoTask
  <2>1. /\ held \in Batches /\ Holds(held, Len(delivered), LastOf(held))
        /\ delivered' = delivered \o rows[held]
    <3>1. held \in Batches \cup {NoBatch} /\ held # NoBatch
      BY DEF EmitBatch, IInv, TypeOK, Owners
    <3>2. QED
      BY <1>1, <3>1 DEF IInv, Chain, EmitBatch, Emitted
  <2>2. /\ delivered' = SerialOutput!Serial(LastOf(held))
        /\ LastOf(held) \in Nat /\ LastOf(held) > Len(delivered)
    BY <1>1, <2>1, NextRows DEF IInv
  <2>3. handle \in Tasks /\ handle = Settled + 1 /\ Settled \in Nat /\ cons = "emit"
    BY Positions DEF IInv, EmitBatch
  <2>4. Chained(handle) /\ Len(out[handle]) \in Nat /\ at[handle] \in Nat
    BY <1>1, <2>3 DEF IInv, Chain, TypeOK
  <2>5. UpTo(handle, 0) = LastOf(held)
    BY <2>3 DEF UpTo, Out, IInv, Owners
  <2>6. LastOf(held) \in 0 .. at[handle]
    BY <2>3, <2>4, <2>5, ChainAscends
  <2>7. at[handle] <= ends[NTasks] /\ at[handle] \in Nat /\ ends[NTasks] \in Nat
    <3>1. at[handle] \in ends[handle-1] .. ends[handle] /\ at[handle] \in Nat
      BY <2>3 DEF IInv, TypeOK
    <3>2. handle \in 0 .. NTasks /\ NTasks \in 0 .. NTasks /\ handle - 1 \in 0 .. NTasks
          /\ handle <= NTasks
      BY <2>3, Numbers DEF Tasks
    <3>3. QED
      BY <3>1, <3>2, Ends DEF IInv
  <2>8. Len(delivered) \in Nat
    BY DEF IInv, TypeOK
  <2>9. LastOf(held) \in Len(delivered) .. ends[NTasks]
    BY <2>2, <2>6, <2>7, <2>8
  <2>10. ends' = ends /\ cons' = "drain"
    BY DEF EmitBatch, workload
  <2>11. Result = "running" /\ Result' = "running"
    BY <2>3, <2>10 DEF Result
  <2>12. QED
    BY <2>2, <2>9, <2>10, <2>11 DEF SerialOutput!Deliver
<1>2. CASE firstErr # NoTask
  BY <1>2 DEF EmitBatch, Emitted
<1>3. QED
  BY <1>1, <1>2

LEMMA NextSerial ==
  ASSUME IInv, [Next]_vars
  PROVE  [SerialOutput!SNext]_SerialOutput!svars
<1> USE DEF SerialOutput!SNext, SerialOutput!svars
<1>1. ends' = ends
  BY WorkloadFixed
<1>2. CASE EmitBatch
  <2>1. cons = "emit" /\ cons' = "drain"
    BY <1>2 DEF EmitBatch
  <2>2. Result = "running" /\ Result' = "running"
    BY <2>1 DEF Result
  <2>3. QED
    BY <1>1, <1>2, <2>2, EmitDelivers
<1>3. CASE Return
  <2>1. cons = "join" /\ cons' = "returned" /\ delivered' = delivered /\ firstErr' = firstErr
    BY <1>3 DEF Return
  <2>2. Result = "running"
    BY <2>1 DEF Result
  <2>3. CASE firstErr = NoTask
    <3>1. Len(delivered) = ends[NTasks]
      BY <2>1, <2>3, ListEnded DEF IInv, Delivery
    <3>2. Result' = "complete"
      BY <2>1, <2>3 DEF Result
    <3>3. QED
      BY <1>1, <2>1, <2>2, <3>1, <3>2 DEF SerialOutput!Complete
  <2>4. CASE firstErr # NoTask
    <3>1. Result' = "failed"
      BY <2>1, <2>4 DEF Result
    <3>2. QED
      BY <1>1, <2>1, <2>2, <3>1 DEF SerialOutput!Fail
  <2>5. QED
    BY <2>3, <2>4
<1>4. CASE ~ EmitBatch /\ ~ Return
  <2>1. delivered' = delivered
    BY <1>4 DEF Next, Scheduler, Worker, Consumer, vars, consumer, Acquire,
         AcquireCancelled, TakeSlot, SlotCancelled, Offer, OfferCancelled, Spawn,
         AllAdmitted, CloseBudget, MergeIntoNewBatch, MergeIntoBatch, Flush,
         FlushCancelled, MergeFails, MergeEnds, WorkerExits, TakeHandle, OrderedClosed,
         TakeBatch, SettleHandle, ReleaseBudget
  <2>2. \/ cons # "returned" /\ cons' # "returned"
        \/ cons' = cons /\ firstErr' = firstErr
    BY <1>4 DEF Next, Scheduler, Worker, Consumer, vars, consumer, Acquire,
         AcquireCancelled, TakeSlot, SlotCancelled, Offer, OfferCancelled, Spawn,
         AllAdmitted, CloseBudget, MergeIntoNewBatch, MergeIntoBatch, Flush,
         FlushCancelled, MergeFails, MergeEnds, WorkerExits, TakeHandle, OrderedClosed,
         TakeBatch, SettleHandle, Drained, ReleaseBudget
  <2>3. Result' = Result
    BY <2>2 DEF Result
  <2>4. QED
    BY <1>1, <2>1, <2>3
<1>5. QED
  BY <1>2, <1>3, <1>4

(* The parallel extraction implements the serial one: the callback sees    *)
(* the points 1, 2, 3, ... in this order, each once, whatever the number   *)
(* of workers, and an answer without an error means all of them.           *)
THEOREM SplitImplementsSerial == Spec => ImplementsSerial
<1>1. Init => SerialOutput!SInit
  BY InitSerial
<1>2. IInv /\ [Next]_vars => [SerialOutput!SNext]_SerialOutput!svars
  BY NextSerial
<1>3. QED
  BY <1>1, <1>2, Invariance, PTL DEF Spec, ImplementsSerial, SerialOutput!SSpec
=============================================================================
