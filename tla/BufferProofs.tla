---------------------------- MODULE BufferProofs -----------------------------
(***************************************************************************)
(* Proofs about ChunkBuffers, for every --inflight and any number and size *)
(* of chunks.                                                              *)
(***************************************************************************)
EXTENDS ChunkBuffers, SequenceTheorems, FiniteSetTheorems, TLAPS

InCallback == {"reclaim", "check", "token", "handoff", "inline"}

(* The chunk at seq has gone to the sender, and doFlush has not gone on.   *)
Handed == phase = "swap" /\ detached

(* The jobs out are those from Lo up to Hi - 1.                            *)
Lo == IF putBack THEN next + 1 ELSE next
Hi == IF Handed THEN seq + 1 ELSE seq
Outstanding == IF pipelined /\ Lo < Hi THEN Hi - Lo ELSE 0

(* Where doFlush and its callback are.                                     *)
Control ==
  /\ phase \in InCallback \ {"inline"} => pipelined
  /\ phase = "inline" => ~ pipelined
  /\ phase \in InCallback => seq > committed
  /\ phase \in InCallback \cup {"swap"} => Len(ends) = seq + 1 /\ cur.len > 0
  /\ phase = "extract" => Len(ends) = seq
  /\ Len(ends) \in {seq, seq + 1}
  /\ phase \in {"check", "token", "handoff"} => detached
  /\ phase \in {"extract", "reclaim", "inline"} => ~ detached
  /\ phase = "swap" => (detached <=> pipelined /\ seq > committed)
  /\ cur.len > 0 => seq < MaxChunks

(* Without a pipeline the first buffer is the only one.                    *)
Alone ==
  ~ pipelined =>
    /\ spares = << >> /\ spare = << >> /\ made = 1 /\ ~ detached
    /\ tokens = 0 /\ ~ putBack
    /\ \A s \in Seqs : job[s].st = "none"

(* The sender holds a window of the chunks, and as many tokens.            *)
Window ==
  pipelined =>
    /\ \A s \in Seqs : job[s].st \in Out <=> Lo <= s /\ s < Hi
    /\ next >= committed + 1
    /\ Lo <= Hi \/ (next = committed + 1 /\ ~ putBack)
    /\ putBack => next < Hi
    /\ tokens = (IF next < Hi THEN Hi - next ELSE 0)
                + (IF phase = "handoff" THEN 1 ELSE 0)
    /\ tokens <= inflight

(* No buffer is ever dropped: all that were made are somewhere.  A new one *)
(* is made only when all others are with the sender.                       *)
Counted ==
  /\ made = Len(spares) + Len(spare) + Outstanding + (IF Handed THEN 0 ELSE 1)
  /\ made <= seq + 1
  /\ made <= inflight + 2
  /\ phase \in {"check", "token", "handoff", "swap"} /\ detached /\ spares = << >>
       => made <= inflight + 1

Numbered ==
  /\ cur.buf <= made
  /\ \A i \in 1 .. Len(spares) : spares[i] <= made
  /\ \A i \in 1 .. Len(spare) : spare[i] <= made
  /\ \A s \in Seqs : job[s].st \in Out => job[s].buf \in 1 .. made
  /\ \A s \in Seqs : job[s].st \notin Out => job[s].buf = NoBuf

(* A buffer is in one place.                                               *)
Apart ==
  /\ ~ Handed =>
       /\ \A i \in 1 .. Len(spares) : spares[i] # cur.buf
       /\ \A i \in 1 .. Len(spare) : spare[i] # cur.buf
       /\ \A s \in Seqs : job[s].st \in Out => job[s].buf # cur.buf
  /\ \A i, j \in 1 .. Len(spares) : spares[i] = spares[j] => i = j
  /\ \A i, j \in 1 .. Len(spare) : spare[i] = spare[j] => i = j
  /\ \A i \in 1 .. Len(spares), j \in 1 .. Len(spare) : spares[i] # spare[j]
  /\ \A s \in Seqs : job[s].st \in Out =>
       /\ \A i \in 1 .. Len(spares) : spares[i] # job[s].buf
       /\ \A i \in 1 .. Len(spare) : spare[i] # job[s].buf
  /\ \A s, r \in Seqs : job[s].st \in Out /\ job[r].st \in Out
                          /\ job[s].buf = job[r].buf => s = r

(* The buffers hold what they are meant to.                                *)
Filled(b, s, n) == \A i \in 1 .. n : mem[b][i] = FirstLine(s) + i - 1

Contents ==
  /\ lines = FirstLine(seq) - 1 + cur.len
  /\ phase \in InCallback \cup {"swap"} => ends[seq + 1] = lines
  /\ Filled(cur.buf, seq, cur.len)
  /\ \A s \in Seqs : job[s].st = "new" =>
       /\ job[s].len = ends[s + 1] - FirstLine(s) + 1
       /\ Filled(job[s].buf, s, job[s].len)

Bodies ==
  \A s \in Seqs : body[s] # NoBody => s < Len(ends) /\ body[s] = ChunkLines(s)

IInv ==
  /\ TypeOK
  /\ Control
  /\ Alone
  /\ Window
  /\ Counted
  /\ Numbered
  /\ Apart
  /\ Contents
  /\ Bodies

-----------------------------------------------------------------------------
(* Types                                                                   *)

LEMMA TypeInit == Init => TypeOK
<1>1. SUFFICES ASSUME Init PROVE TypeOK
  OBVIOUS
<1>2. << >> \in Seq(Nat) /\ << >> \in Seq(Buffers)
  OBVIOUS
<1>3. MaxInflight \in Nat \ {0} /\ MaxChunks \in Nat \ {0} /\ MaxLines \in Nat \ {0}
  BY ConstantsAssumption
<1>4. mem \in [Buffers -> [1 .. MaxLines -> Nat]]
  BY <1>1 DEF Init
<1>5. /\ job \in [Seqs -> [st : JobStates, buf : {NoBuf} \cup Buffers, len : 0 .. MaxLines]]
      /\ body \in [Seqs -> Seq(Nat)]
  BY <1>1, <1>2, <1>3 DEF Init, NoJob, NoBuf, NoBody, JobStates
<1>6. made \in Buffers /\ cur \in SliceType
  BY <1>1, <1>3 DEF Init, Buffers, SliceType, Empty
<1>7. committed \in -1 .. 0 /\ next \in 0 .. MaxChunks /\ seq \in 0 .. MaxChunks
      /\ tokens \in 0 .. MaxInflight
  BY <1>1, <1>3 DEF Init
<1>8. QED
  BY <1>1, <1>2, <1>4, <1>5, <1>6, <1>7 DEF Init, TypeOK, Phases

(* What is read from a buffer is a sequence of line numbers.               *)
LEMMA ContentIsSeq ==
  ASSUME TypeOK, NEW slice, slice.buf \in Buffers, slice.len \in 0 .. MaxLines
  PROVE  /\ Content(slice) \in Seq(Nat)
         /\ Len(Content(slice)) = slice.len
         /\ \A i \in 1 .. slice.len : Content(slice)[i] = mem[slice.buf][i]
<1>1. MaxLines \in Nat
  BY ConstantsAssumption
<1>2. \A i \in 1 .. slice.len : mem[slice.buf][i] \in Nat
  BY <1>1 DEF TypeOK
<1>3. QED
  BY <1>1, <1>2 DEF Content

(* The numbers that the steps add and compare.                             *)
LEMMA Numbers ==
  ASSUME TypeOK
  PROVE  /\ MaxChunks \in Nat \ {0} /\ MaxLines \in Nat \ {0}
         /\ inflight \in Nat \ {0} /\ inflight <= MaxInflight /\ MaxInflight \in Nat
         /\ committed \in {-1, 0}
         /\ made \in Nat \ {0} /\ made <= MaxChunks + 1
         /\ cur.buf \in Nat \ {0} /\ cur.buf \in Buffers
         /\ cur.len \in 0 .. MaxLines /\ cur.len \in Nat
         /\ cur = [buf |-> cur.buf, len |-> cur.len]
         /\ seq \in Nat /\ seq <= MaxChunks
         /\ lines \in Nat /\ tokens \in Nat /\ next \in Nat /\ next <= MaxChunks
         /\ Len(ends) \in Nat /\ Len(spares) \in Nat /\ Len(spare) \in Nat
BY ConstantsAssumption DEF TypeOK, SliceType, Buffers

(* Each step keeps the types.                                              *)
LEMMA TypeNext ==
  ASSUME IInv, Next
  PROVE  TypeOK'
<1> USE DEF IInv
<1>n. /\ TypeOK
      /\ MaxChunks \in Nat \ {0} /\ MaxLines \in Nat \ {0}
      /\ inflight \in Nat \ {0} /\ inflight <= MaxInflight /\ MaxInflight \in Nat
      /\ made \in Nat \ {0} /\ seq \in Nat /\ lines \in Nat /\ tokens \in Nat
      /\ next \in Nat /\ next <= MaxChunks /\ cur.buf \in Buffers
      /\ cur.len \in 0 .. MaxLines /\ seq <= MaxChunks
  BY Numbers
<1>h. putBack => pipelined
  BY DEF Alone
<1>1. CASE AppendLine
  <2>1. /\ mem' = [mem EXCEPT ![cur.buf][cur.len + 1] = lines + 1]
        /\ cur' = [cur EXCEPT !.len = cur.len + 1]
        /\ lines' = lines + 1 /\ cur.len < MaxLines
    BY <1>1 DEF AppendLine
  <2>2. cur.len + 1 \in 1 .. MaxLines /\ cur.len + 1 \in 0 .. MaxLines
    BY <2>1, <1>n
  <2>3. mem' \in [Buffers -> [1 .. MaxLines -> Nat]]
    <3>1. mem \in [Buffers -> [1 .. MaxLines -> Nat]] /\ lines + 1 \in Nat
      BY <1>n DEF TypeOK
    <3>2. [mem[cur.buf] EXCEPT ![cur.len + 1] = lines + 1] \in [1 .. MaxLines -> Nat]
      BY <3>1, <2>2, <1>n
    <3>3. mem' = [mem EXCEPT ![cur.buf] = [mem[cur.buf] EXCEPT ![cur.len + 1] = lines + 1]]
      BY <2>1
    <3>4. QED
      BY <3>1, <3>2, <3>3, <1>n
  <2>4. cur' \in SliceType
    BY <2>1, <2>2, <1>n DEF TypeOK, SliceType
  <2>5. lines' \in Nat
    BY <2>1, <1>n
  <2>6. QED
    BY <1>1, <2>3, <2>4, <2>5, <1>n DEF TypeOK, AppendLine, config, sender
<1>2. CASE BeginFlush
  <2>1. ends' \in Seq(Nat) /\ phase' \in Phases
    BY <1>2, <1>n, AppendProperties DEF BeginFlush, TypeOK, Phases
  <2>2. QED
    BY <1>2, <2>1, <1>n DEF TypeOK, BeginFlush, config, sender
<1>3. CASE Reclaim
  <2>1. Head(spare) \in Buffers /\ Tail(spare) \in Seq(Buffers)
    BY <1>3, <1>n, HeadTailProperties DEF Reclaim, TypeOK
  <2>2. spares' \in Seq(Buffers)
    BY <1>3, <1>n, <2>1, AppendProperties DEF Reclaim, TypeOK, Recycle
  <2>3. QED
    BY <1>3, <2>1, <2>2, <1>n DEF TypeOK, Reclaim, config
<1>4. CASE ReclaimedAll
  BY <1>4, <1>n DEF TypeOK, ReclaimedAll, config, sender, Detach, Phases
<1>5. CASE Swap
  <2>1. seq < MaxChunks /\ made <= seq + 1
    BY <1>5 DEF Swap, Control, Counted
  <2>2. seq + 1 \in 0 .. MaxChunks /\ made + 1 \in Buffers
    BY <2>1, <1>n DEF Buffers
  <2>3. 0 \in 0 .. MaxLines
    BY <1>n
  <2>4. CASE ~ detached
    <3>1. cur' \in SliceType
      BY <1>5, <2>3, <2>4, <1>n DEF Swap, Empty, SliceType
    <3>2. spares' = spares /\ made' = made
      BY <1>5, <2>4 DEF Swap
    <3>3. QED
      BY <1>5, <2>2, <3>1, <3>2, <1>n DEF TypeOK, Swap, Phases, config, sender
  <2>5. CASE detached /\ spares # << >>
    <3>1. Len(spares) \in Nat \ {0} /\ spares[Len(spares)] \in Buffers
      BY <2>5, <1>n, EmptySeq, ElementOfSeq DEF TypeOK
    <3>2. SparesLeft \in Seq(Buffers)
      BY <3>1, <1>n, ElementOfSeq, SubSeqProperties DEF SparesLeft, TypeOK
    <3>3. cur' \in SliceType
      BY <1>5, <2>3, <2>5, <3>1 DEF Swap, Empty, SliceType
    <3>4. spares' = SparesLeft /\ made' = made
      BY <1>5, <2>5 DEF Swap
    <3>5. QED
      BY <1>5, <2>2, <3>2, <3>3, <3>4, <1>n DEF TypeOK, Swap, Phases, config, sender
  <2>6. CASE detached /\ spares = << >>
    <3>1. cur' \in SliceType
      BY <1>5, <2>2, <2>3, <2>6 DEF Swap, Empty, SliceType
    <3>2. spares' = spares /\ made' \in Buffers
      BY <1>5, <2>2, <2>6 DEF Swap
    <3>3. QED
      BY <1>5, <2>2, <3>1, <3>2, <1>n DEF TypeOK, Swap, Phases, config, sender
  <2>7. QED
    BY <2>4, <2>5, <2>6, <1>n DEF TypeOK
<1>6. CASE SubmitCheck
  BY <1>6, <1>n DEF TypeOK, SubmitCheck, Phases, config, accum, sender
<1>7. CASE TakeToken
  <2>1. tokens + 1 \in 0 .. MaxInflight
    BY <1>7, <1>n DEF TakeToken, TokenFree
  <2>2. QED
    BY <1>7, <2>1, <1>n DEF TypeOK, TakeToken, Phases, config, accum
<1>8. CASE HandOff
  <2>1. seq \in Seqs
    BY <1>8, <1>n DEF HandOff, Control, InCallback, Seqs
  <2>2. [st |-> "new", buf |-> cur.buf, len |-> cur.len]
          \in [st : JobStates, buf : {NoBuf} \cup Buffers, len : 0 .. MaxLines]
    BY <1>n DEF JobStates
  <2>3. QED
    BY <1>8, <2>1, <2>2, <1>n DEF TypeOK, HandOff, Phases, config, accum
<1>9. CASE SubmitCancelled
  <2>1. phase = "handoff" => tokens >= 1
    BY <1>n DEF Control, InCallback, Window, Hi, Handed
  <2>2. tokens' \in 0 .. MaxInflight
    BY <1>9, <2>1, <1>n DEF SubmitCancelled, TypeOK
  <2>3. QED
    BY <1>9, <2>2, <1>n DEF TypeOK, SubmitCancelled, Phases, config, accum
<1>10. CASE InlinePost
  <2>1. Content(cur) \in Seq(Nat)
    BY <1>n, ContentIsSeq
  <2>2. body' \in [Seqs -> Seq(Nat)]
    BY <1>10, <2>1, <1>n DEF InlinePost, TypeOK
  <2>3. QED
    BY <1>10, <2>2, <1>n DEF TypeOK, InlinePost, Phases, config, accum, sender
<1>11. CASE StopExtracting
  BY <1>11, <1>n DEF TypeOK, StopExtracting, Phases, config, accum, sender
<1>12. CASE Drained
  BY <1>12, <1>n DEF TypeOK, Drained, Phases, config, accum, sender
<1>13. ASSUME NEW s \in Seqs, BuildRequest(s) PROVE TypeOK'
  <2>1. job[s].buf \in Buffers /\ job[s].len \in 0 .. MaxLines
    BY <1>13, <1>n, SMTT(20) DEF BuildRequest, Numbered, Out, TypeOK, Buffers
  <2>2. Content(job[s]) \in Seq(Nat)
    BY <2>1, <1>n, ContentIsSeq
  <2>3. body' \in [Seqs -> Seq(Nat)]
    BY <1>13, <2>2, <1>n DEF BuildRequest, TypeOK
  <2>4. job' \in [Seqs -> [st : JobStates, buf : {NoBuf} \cup Buffers, len : 0 .. MaxLines]]
    BY <1>13, <1>n DEF BuildRequest, TypeOK, JobStates
  <2>5. QED
    BY <1>13, <2>3, <2>4, <1>n DEF TypeOK, BuildRequest, config, accum
<1>14. ASSUME NEW s \in Seqs, PostReturns(s) PROVE TypeOK'
  <2>1. job' \in [Seqs -> [st : JobStates, buf : {NoBuf} \cup Buffers, len : 0 .. MaxLines]]
    BY <1>14, <1>n DEF PostReturns, TypeOK, JobStates
  <2>2. QED
    BY <1>14, <2>1, <1>n DEF TypeOK, PostReturns, config, accum
<1>15. CASE PutBack
  <2>1. next \in Seqs
    BY <1>15, <1>n DEF PutBack, Seqs
  <2>2. job[next].buf \in Buffers
    BY <1>15, <2>1, <1>n, SMTT(20) DEF PutBack, MayRetire, Numbered, Out, TypeOK, Buffers
  <2>3. spare' \in Seq(Buffers)
    BY <1>15, <2>2, <1>n, AppendProperties DEF PutBack, TypeOK
  <2>4. job' \in [Seqs -> [st : JobStates, buf : {NoBuf} \cup Buffers, len : 0 .. MaxLines]]
    <3>1. 0 \in 0 .. MaxLines
      BY <1>n
    <3>2. [NoJob EXCEPT !.st = "retired"]
            \in [st : JobStates, buf : {NoBuf} \cup Buffers, len : 0 .. MaxLines]
      BY <3>1 DEF NoJob, JobStates
    <3>3. QED
      BY <1>15, <3>2, <2>1, <1>n DEF PutBack, TypeOK
  <2>5. QED
    BY <1>15, <2>3, <2>4, <1>n DEF TypeOK, PutBack, config, accum
<1>16. CASE ReleaseToken
  <2>1. next < Hi /\ tokens >= 1 /\ Hi <= MaxChunks
    BY <1>16, <1>h, <1>n DEF ReleaseToken, Window, Control, Hi, Handed
  <2>2. next + 1 \in 0 .. MaxChunks /\ tokens - 1 \in 0 .. MaxInflight
    BY <2>1, <1>n DEF Hi, TypeOK
  <2>3. QED
    BY <1>16, <2>2, <1>n DEF TypeOK, ReleaseToken, config, accum
<1>17. CASE Cancel
  BY <1>17, <1>n DEF TypeOK, Cancel, config, accum, sender
<1>18. QED
  BY <1>1, <1>2, <1>3, <1>4, <1>5, <1>6, <1>7, <1>8, <1>9, <1>10, <1>11, <1>12,
     <1>13, <1>14, <1>15, <1>16, <1>17 DEF Next

-----------------------------------------------------------------------------
(* Control                                                                 *)

LEMMA ControlNext ==
  ASSUME IInv, Next
  PROVE  Control'
<1> USE DEF IInv
<1>n. /\ TypeOK /\ Control
      /\ MaxChunks \in Nat \ {0} /\ MaxLines \in Nat \ {0} /\ committed \in {-1, 0}
      /\ seq \in Nat /\ seq <= MaxChunks /\ cur.len \in Nat /\ Len(ends) \in Nat
      /\ pipelined \in BOOLEAN /\ detached \in BOOLEAN /\ phase \in Phases
      /\ cur \in SliceType
  BY Numbers DEF TypeOK
<1>1. CASE AppendLine
  <2>1. cur'.len = cur.len + 1
    BY <1>1, <1>n DEF AppendLine, SliceType
  <2>2. QED
    BY <1>1, <2>1, <1>n DEF Control, AppendLine, InCallback, config, sender
<1>2. CASE BeginFlush
  <2>1. Len(ends') = Len(ends) + 1
    BY <1>2, <1>n, AppendProperties DEF BeginFlush, TypeOK
  <2>2. QED
    BY <1>2, <2>1, <1>n DEF Control, BeginFlush, InCallback, config, sender
<1>3. CASE Reclaim
  BY <1>3, <1>n DEF Control, Reclaim, InCallback, config
<1>4. CASE ReclaimedAll
  BY <1>4, <1>n DEF Control, ReclaimedAll, InCallback, config, sender, Detach
<1>5. CASE Swap
  <2>1. cur'.len = 0 /\ seq' = seq + 1 /\ ends' = ends /\ detached' = FALSE
        /\ phase' = "extract" /\ pipelined' = pipelined /\ committed' = committed
    BY <1>5 DEF Swap, Empty, config
  <2>2. Len(ends) = seq + 1
    BY <1>5, <1>n DEF Swap, Control
  <2>3. QED
    BY <2>1, <2>2, <1>n DEF Control, InCallback
<1>6. CASE SubmitCheck
  BY <1>6, <1>n DEF Control, SubmitCheck, InCallback, config, accum, sender
<1>7. CASE TakeToken
  BY <1>7, <1>n DEF Control, TakeToken, InCallback, config, accum
<1>8. CASE HandOff
  BY <1>8, <1>n DEF Control, HandOff, InCallback, config, accum
<1>9. CASE SubmitCancelled
  BY <1>9, <1>n DEF Control, SubmitCancelled, InCallback, config, accum
<1>10. CASE InlinePost
  BY <1>10, <1>n DEF Control, InlinePost, InCallback, config, accum, sender
<1>11. CASE StopExtracting
  BY <1>11, <1>n DEF Control, StopExtracting, InCallback, config, accum, sender
<1>12. CASE Drained
  BY <1>12, <1>n DEF Control, Drained, InCallback, config, accum, sender
<1>13. ASSUME NEW s \in Seqs, BuildRequest(s) PROVE Control'
  BY <1>13, <1>n DEF Control, BuildRequest, InCallback, config, accum
<1>14. ASSUME NEW s \in Seqs, PostReturns(s) PROVE Control'
  BY <1>14, <1>n DEF Control, PostReturns, InCallback, config, accum
<1>15. CASE PutBack
  BY <1>15, <1>n DEF Control, PutBack, InCallback, config, accum
<1>16. CASE ReleaseToken
  BY <1>16, <1>n DEF Control, ReleaseToken, InCallback, config, accum
<1>17. CASE Cancel
  BY <1>17, <1>n DEF Control, Cancel, InCallback, config, accum, sender
<1>18. QED
  BY <1>1, <1>2, <1>3, <1>4, <1>5, <1>6, <1>7, <1>8, <1>9, <1>10, <1>11, <1>12,
     <1>13, <1>14, <1>15, <1>16, <1>17 DEF Next

(* A sender's step finds a chunk out, which there is none of without a     *)
(* pipeline.                                                               *)
LEMMA AloneNext ==
  ASSUME IInv, Next
  PROVE  Alone'
<1> USE DEF IInv
<1>n. /\ TypeOK /\ Control /\ Alone /\ seq \in Nat /\ seq <= MaxChunks
      /\ cur \in SliceType /\ next \in Nat
  BY Numbers DEF TypeOK
<1>p. pipelined' = pipelined
  BY DEF Next, AppendLine, BeginFlush, Reclaim, ReclaimedAll, Swap, SubmitCheck,
         TakeToken, HandOff, SubmitCancelled, InlinePost, StopExtracting, Drained,
         BuildRequest, PostReturns, PutBack, ReleaseToken, Cancel, config
<1> SUFFICES ASSUME ~ pipelined
             PROVE  Alone'
  BY <1>p DEF Alone
<1>a. /\ spares = << >> /\ spare = << >> /\ made = 1 /\ ~ detached
      /\ tokens = 0 /\ ~ putBack
      /\ \A s \in Seqs : job[s].st = "none"
  BY DEF Alone
<1>b. phase \notin {"reclaim", "check", "token", "handoff"}
  BY <1>n DEF Control, InCallback
<1>c. \A s \in Seqs : ~ BuildRequest(s) /\ ~ PostReturns(s)
  BY <1>a DEF BuildRequest, PostReturns
<1>d. ~ PutBack
  BY <1>a, <1>n, ConstantsAssumption DEF PutBack, MayRetire, Seqs
<1>e. ~ Reclaim /\ ~ ReclaimedAll /\ ~ SubmitCheck /\ ~ TakeToken /\ ~ HandOff
      /\ ~ SubmitCancelled /\ ~ ReleaseToken
  BY <1>a, <1>b DEF Reclaim, ReclaimedAll, SubmitCheck, TakeToken, HandOff,
                    SubmitCancelled, ReleaseToken
<1>1. CASE Swap
  BY <1>1, <1>a, <1>p DEF Alone, Swap, sender
<1>2. CASE AppendLine \/ BeginFlush \/ InlinePost \/ StopExtracting \/ Drained \/ Cancel
  BY <1>2, <1>a, <1>p DEF Alone, AppendLine, BeginFlush, InlinePost, StopExtracting,
     Drained, Cancel, accum, sender
<1>3. QED
  BY <1>1, <1>2, <1>c, <1>d, <1>e DEF Next

-----------------------------------------------------------------------------
(* The window                                                              *)

(* The steps that leave the sender, and the job it is about to be given,   *)
(* where they are.                                                         *)
LEMMA FrameSteps ==
  ASSUME IInv,
         AppendLine \/ BeginFlush \/ Reclaim \/ ReclaimedAll \/ SubmitCheck
         \/ InlinePost \/ StopExtracting \/ Drained \/ Cancel
  PROVE  /\ ~ Handed \/ UNCHANGED <<phase, detached>>
         /\ Handed' = Handed
         /\ UNCHANGED <<pipelined, inflight, committed, job, tokens, next, putBack, seq, made>>
         /\ phase # "handoff" \/ UNCHANGED phase
         /\ phase' # "handoff" \/ UNCHANGED phase
<1>n. Control /\ detached \in BOOLEAN
  BY DEF IInv, TypeOK
<1>1. CASE AppendLine
  BY <1>1, <1>n DEF Control, AppendLine, Handed, config, sender
<1>2. CASE BeginFlush
  BY <1>2, <1>n DEF Control, BeginFlush, Handed, config, sender
<1>3. CASE Reclaim
  BY <1>3, <1>n DEF Control, Reclaim, Handed, config
<1>4. CASE ReclaimedAll
  BY <1>4, <1>n DEF Control, ReclaimedAll, Handed, config, sender
<1>5. CASE SubmitCheck
  BY <1>5, <1>n DEF Control, SubmitCheck, Handed, config, accum, sender
<1>6. CASE InlinePost
  BY <1>6, <1>n DEF Control, InlinePost, Handed, config, accum, sender
<1>7. CASE StopExtracting
  BY <1>7, <1>n DEF Control, StopExtracting, Handed, config, accum, sender
<1>8. CASE Drained
  BY <1>8, <1>n DEF Control, Drained, Handed, config, accum, sender
<1>9. CASE Cancel
  BY <1>9, <1>n DEF Control, Cancel, Handed, config, accum, sender
<1>10. QED
  BY <1>1, <1>2, <1>3, <1>4, <1>5, <1>6, <1>7, <1>8, <1>9

(* A worker's step neither begins nor ends a job.                          *)
LEMMA WorkerSteps ==
  ASSUME IInv, NEW r \in Seqs, BuildRequest(r) \/ PostReturns(r)
  PROVE  /\ UNCHANGED <<pipelined, inflight, committed, tokens, next, putBack, seq, made,
                        phase, detached, spare, spares, cur, mem, lines, ends>>
         /\ \A s \in Seqs : job'[s].st \in Out <=> job[s].st \in Out
         /\ \A s \in Seqs : job'[s].buf = job[s].buf /\ job'[s].len = job[s].len
         /\ \A s \in Seqs : job'[s].st = "new" => job[s].st = "new"
<1>n. job \in [Seqs -> [st : JobStates, buf : {NoBuf} \cup Buffers, len : 0 .. MaxLines]]
  BY DEF IInv, TypeOK
<1>1. CASE BuildRequest(r)
  BY <1>1, <1>n DEF BuildRequest, Out, config, accum
<1>2. CASE PostReturns(r)
  BY <1>2, <1>n DEF PostReturns, Out, config, accum
<1>3. QED
  BY <1>1, <1>2

LEMMA WindowNext ==
  ASSUME IInv, Next
  PROVE  Window'
<1> USE DEF IInv
<1>n. /\ TypeOK /\ Control /\ Alone /\ Window
      /\ MaxChunks \in Nat \ {0} /\ committed \in {-1, 0}
      /\ seq \in Nat /\ seq <= MaxChunks /\ next \in Nat /\ tokens \in Nat
      /\ inflight \in Nat \ {0} /\ detached \in BOOLEAN /\ putBack \in BOOLEAN
      /\ job \in [Seqs -> [st : JobStates, buf : {NoBuf} \cup Buffers, len : 0 .. MaxLines]]
  BY Numbers DEF TypeOK
<1>p. pipelined' = pipelined
  BY DEF Next, AppendLine, BeginFlush, Reclaim, ReclaimedAll, Swap, SubmitCheck,
         TakeToken, HandOff, SubmitCancelled, InlinePost, StopExtracting, Drained,
         BuildRequest, PostReturns, PutBack, ReleaseToken, Cancel, config
<1> SUFFICES ASSUME pipelined
             PROVE  Window'
  BY <1>p DEF Window
<1>a. /\ \A s \in Seqs : job[s].st \in Out <=> Lo <= s /\ s < Hi
      /\ next >= committed + 1
      /\ Lo <= Hi \/ (next = committed + 1 /\ ~ putBack)
      /\ putBack => next < Hi
      /\ tokens = (IF next < Hi THEN Hi - next ELSE 0)
                  + (IF phase = "handoff" THEN 1 ELSE 0)
      /\ tokens <= inflight
  BY <1>n DEF Window
<1>1. CASE AppendLine \/ BeginFlush \/ Reclaim \/ ReclaimedAll \/ SubmitCheck
           \/ InlinePost \/ StopExtracting \/ Drained \/ Cancel
  <2>1. /\ UNCHANGED <<pipelined, inflight, committed, job, tokens, next, putBack, seq>>
        /\ Handed' = Handed
        /\ (phase' = "handoff") <=> (phase = "handoff")
    BY <1>1, FrameSteps
  <2>2. Lo' = Lo /\ Hi' = Hi
    BY <2>1 DEF Lo, Hi
  <2>3. QED
    BY <2>1, <2>2, <1>a, <1>n DEF Window
<1>2. CASE Swap
  <2>1. /\ UNCHANGED <<pipelined, inflight, committed, job, tokens, next, putBack>>
        /\ seq' = seq + 1 /\ ~ detached' /\ phase = "swap" /\ phase' = "extract"
    BY <1>2 DEF Swap, config, sender
  <2>2. Lo' = Lo /\ Hi' = seq + 1
    BY <2>1 DEF Lo, Hi, Handed
  <2>3. CASE detached
    <3>1. Hi = seq + 1
      BY <2>1, <2>3 DEF Hi, Handed
    <3>2. QED
      BY <2>1, <2>2, <3>1, <1>a, <1>n DEF Window
  <2>4. CASE ~ detached
    <3>1. Hi = seq /\ seq <= committed
      BY <2>1, <2>4, <1>n DEF Hi, Handed, Control
    <3>2. next = committed + 1 /\ ~ putBack /\ Lo = next
      BY <3>1, <1>a, <1>n DEF Lo
    <3>3. \A s \in Seqs : s \in Int
      BY <1>n DEF Seqs
    <3>4. \A s \in Seqs : job'[s].st \in Out <=> Lo' <= s /\ s < Hi'
      BY <2>1, <2>2, <3>1, <3>2, <3>3, <1>a, <1>n
    <3>5. tokens = 0
      BY <2>1, <3>1, <3>2, <1>a, <1>n
    <3>6. QED
      BY <2>1, <2>2, <3>1, <3>2, <3>4, <3>5, <1>a, <1>n DEF Window
  <2>5. QED
    BY <2>3, <2>4, <1>n
<1>3. CASE TakeToken
  <2>1. /\ UNCHANGED <<pipelined, inflight, committed, job, next, putBack, seq, detached>>
        /\ tokens' = tokens + 1 /\ phase = "token" /\ phase' = "handoff"
        /\ tokens < inflight
    BY <1>3 DEF TakeToken, TokenFree, config, accum
  <2>2. Lo' = Lo /\ Hi' = Hi
    BY <2>1 DEF Lo, Hi, Handed
  <2>3. QED
    BY <2>1, <2>2, <1>a, <1>n DEF Window, Hi
<1>4. CASE HandOff
  <2>1. /\ UNCHANGED <<pipelined, inflight, committed, tokens, next, putBack, seq, detached>>
        /\ phase = "handoff" /\ phase' = "swap"
        /\ job' = [job EXCEPT ![seq] = [st |-> "new", buf |-> cur.buf, len |-> cur.len]]
    BY <1>4 DEF HandOff, config, accum
  <2>2. detached /\ seq > committed /\ seq < MaxChunks
    BY <2>1, <1>n DEF Control, InCallback
  <2>3. Lo' = Lo /\ Hi = seq /\ Hi' = seq + 1
    BY <2>1, <2>2 DEF Lo, Hi, Handed
  <2>4. Lo <= seq /\ next <= seq
    BY <2>2, <2>3, <1>a, <1>n DEF Lo
  <2>5. \A s \in Seqs : job'[s].st \in Out <=> (s = seq \/ job[s].st \in Out)
    BY <2>1, <1>n DEF Out
  <2>6. Lo \in Nat /\ \A s \in Seqs : s \in Int
    BY <1>n DEF Lo, Seqs
  <2>7. \A s \in Seqs : job'[s].st \in Out <=> Lo' <= s /\ s < Hi'
    BY <2>3, <2>4, <2>5, <2>6, <1>a, <1>n
  <2>8. QED
    BY <2>1, <2>2, <2>3, <2>4, <2>6, <2>7, <1>a, <1>n DEF Window
<1>5. CASE SubmitCancelled
  <2>1. /\ UNCHANGED <<pipelined, inflight, committed, job, next, putBack, seq, detached>>
        /\ tokens' = (IF phase = "handoff" THEN tokens - 1 ELSE tokens)
        /\ phase \in {"token", "handoff"} /\ phase' = "unwind"
    BY <1>5 DEF SubmitCancelled, config, accum
  <2>2. Lo' = Lo /\ Hi' = Hi /\ Hi \in Nat
    BY <2>1, <1>n DEF Lo, Hi, Handed
  <2>3. tokens' = IF next < Hi THEN Hi - next ELSE 0
    BY <2>1, <2>2, <1>a, <1>n
  <2>4. QED
    BY <2>1, <2>2, <2>3, <1>a, <1>n DEF Window
<1>6. ASSUME NEW r \in Seqs, BuildRequest(r) \/ PostReturns(r) PROVE Window'
  <2>1. /\ UNCHANGED <<pipelined, inflight, committed, tokens, next, putBack, seq, phase, detached>>
        /\ \A s \in Seqs : job'[s].st \in Out <=> job[s].st \in Out
    BY <1>6, WorkerSteps
  <2>2. Lo' = Lo /\ Hi' = Hi
    BY <2>1 DEF Lo, Hi, Handed
  <2>3. QED
    BY <2>1, <2>2, <1>a, <1>n DEF Window
<1>7. CASE PutBack
  <2>1. /\ UNCHANGED <<pipelined, inflight, committed, tokens, next, seq, phase, detached>>
        /\ job' = [job EXCEPT ![next] = [NoJob EXCEPT !.st = "retired"]]
        /\ ~ putBack /\ putBack' /\ next < MaxChunks /\ job[next].st = "result"
    BY <1>7 DEF PutBack, MayRetire, config, accum
  <2>2. next \in Seqs /\ Lo = next /\ Lo' = next + 1 /\ Hi' = Hi /\ Hi \in Nat
    BY <2>1, <1>n DEF Lo, Hi, Handed, Seqs
  <2>3. next < Hi
    BY <2>1, <2>2, <1>a DEF Out
  <2>4. \A s \in Seqs : job'[s].st \in Out <=> (s # next /\ job[s].st \in Out)
    BY <2>1, <1>n DEF Out, NoJob
  <2>5. \A s \in Seqs : s \in Int
    BY <1>n DEF Seqs
  <2>6. \A s \in Seqs : job'[s].st \in Out <=> Lo' <= s /\ s < Hi'
    BY <2>2, <2>3, <2>4, <2>5, <1>a, <1>n
  <2>7. QED
    BY <2>1, <2>2, <2>3, <2>6, <1>a, <1>n DEF Window
<1>8. CASE ReleaseToken
  <2>1. /\ UNCHANGED <<pipelined, inflight, committed, job, seq, phase, detached>>
        /\ tokens' = tokens - 1 /\ next' = next + 1 /\ putBack /\ ~ putBack'
    BY <1>8 DEF ReleaseToken, config, accum
  <2>2. Lo' = next + 1 /\ Lo = next + 1 /\ Hi' = Hi /\ Hi \in Nat /\ next < Hi
    BY <2>1, <1>a, <1>n DEF Lo, Hi, Handed
  <2>3. QED
    BY <2>1, <2>2, <1>a, <1>n DEF Window
<1>9. QED
  BY <1>1, <1>2, <1>3, <1>4, <1>5, <1>6, <1>7, <1>8 DEF Next

-----------------------------------------------------------------------------
(* The number of buffers                                                   *)

LEMMA WindowNumbers ==
  ASSUME TypeOK
  PROVE  Lo \in Nat /\ Hi \in Nat /\ Outstanding \in Nat
<1>1. next \in Nat /\ seq \in Nat
  BY Numbers
<1>2. Lo \in Nat /\ Hi \in Nat
  BY <1>1 DEF Lo, Hi
<1>3. QED
  BY <1>2 DEF Outstanding

(* reclaim always has room: as long as a buffer is on its way back, not    *)
(* all of the others are spares.                                           *)
LEMMA ReclaimKeeps ==
  ASSUME IInv, Reclaim
  PROVE  /\ spares' = Append(spares, Head(spare))
         /\ Len(spares') = Len(spares) + 1
         /\ Len(spare') = Len(spare) - 1
         /\ ~ Handed
<1>n. TypeOK /\ Counted /\ Len(spares) \in Nat /\ inflight \in Nat /\ made \in Nat
      /\ spare # << >> /\ spare \in Seq(Buffers) /\ spares \in Seq(Buffers)
      /\ Outstanding \in Nat /\ phase = "reclaim"
  BY Numbers, WindowNumbers DEF IInv, TypeOK, Reclaim
<1>1. ~ Handed
  BY <1>n DEF Handed
<1>2. Len(spare) \in Nat \ {0} /\ Head(spare) \in Buffers /\ Len(Tail(spare)) = Len(spare) - 1
  BY <1>n, EmptySeq, HeadTailProperties
<1>3. Len(spares) < inflight + 1
  BY <1>n, <1>1, <1>2 DEF Counted
<1>4. spares' = Append(spares, Head(spare)) /\ spare' = Tail(spare)
  BY <1>3 DEF Reclaim, Recycle, SpareCap
<1>5. QED
  BY <1>1, <1>2, <1>4, <1>n, AppendProperties

(* Neither is a buffer lost on the committer's side.                       *)
LEMMA PutBackKeeps ==
  ASSUME IInv, PutBack
  PROVE  /\ pipelined /\ next \in Seqs /\ job[next].st = "result"
         /\ job[next].buf \in Buffers
         /\ spare' = Append(spare, job[next].buf)
         /\ Len(spare') = Len(spare) + 1
         /\ Lo = next /\ Lo' = next + 1 /\ Hi' = Hi /\ next < Hi /\ Hi \in Nat
         /\ Handed' = Handed
         /\ UNCHANGED <<pipelined, inflight, committed, spares, made, cur, seq, phase,
                        detached, next, mem, ends, lines>>
<1>n. TypeOK /\ Counted /\ Len(spares) \in Nat /\ inflight \in Nat /\ made \in Nat
      /\ Len(spare) \in Nat /\ spare \in Seq(Buffers) /\ spares \in Seq(Buffers)
      /\ Outstanding \in Nat /\ MaxChunks \in Nat /\ next \in Nat /\ seq \in Nat
  BY Numbers, WindowNumbers DEF IInv, TypeOK
<1>1. next \in Seqs /\ job[next].st = "result" /\ ~ putBack /\ putBack'
  BY <1>n DEF PutBack, MayRetire, Seqs
<1>2. pipelined
  BY <1>1 DEF IInv, Alone
<1>3. job[next].buf \in Buffers
  BY <1>1, <1>n DEF IInv, Numbered, Out, TypeOK, Buffers
<1>4. UNCHANGED <<pipelined, inflight, committed, spares, made, cur, seq, phase,
                  detached, next, mem, ends, lines>>
  BY DEF PutBack, config, accum
<1>5. Lo = next /\ Lo' = next + 1 /\ Hi' = Hi /\ Hi \in Nat /\ Handed' = Handed
  BY <1>1, <1>4, <1>n DEF Lo, Hi, Handed
<1>6. next < Hi
  BY <1>1, <1>2, <1>5 DEF IInv, Window, Out
<1>7. Outstanding >= 1
  BY <1>2, <1>5, <1>6, <1>n DEF Outstanding
<1>8. Len(spare) < inflight + 1
  <2>1. CASE ~ Handed
    BY <2>1, <1>7, <1>n DEF Counted
  <2>2. CASE Handed /\ spares = << >>
    BY <2>2, <1>7, <1>n DEF Counted, Handed
  <2>3. CASE Handed /\ spares # << >>
    <3>1. Len(spares) >= 1
      BY <2>3, <1>n, EmptySeq
    <3>2. QED
      BY <3>1, <2>3, <1>7, <1>n DEF Counted
  <2>4. QED
    BY <2>1, <2>2, <2>3
<1>9. spare' = Append(spare, job[next].buf)
  BY <1>8 DEF PutBack
<1>10. Len(spare') = Len(spare) + 1
  BY <1>9, <1>3, <1>n, AppendProperties
<1>11. QED
  BY <1>1, <1>2, <1>3, <1>4, <1>5, <1>6, <1>9, <1>10

LEMMA CountedNext ==
  ASSUME IInv, Next
  PROVE  Counted'
<1>n. /\ TypeOK /\ Control /\ Alone /\ Window /\ Counted
      /\ MaxChunks \in Nat \ {0} /\ committed \in {-1, 0}
      /\ seq \in Nat /\ seq <= MaxChunks /\ next \in Nat /\ tokens \in Nat
      /\ inflight \in Nat \ {0} /\ detached \in BOOLEAN /\ putBack \in BOOLEAN
      /\ made \in Nat \ {0} /\ Len(spares) \in Nat /\ Len(spare) \in Nat
      /\ spares \in Seq(Buffers) /\ spare \in Seq(Buffers)
      /\ Lo \in Nat /\ Hi \in Nat /\ Outstanding \in Nat
  BY Numbers, WindowNumbers DEF IInv, TypeOK
<1>c. /\ made = Len(spares) + Len(spare) + Outstanding + (IF Handed THEN 0 ELSE 1)
      /\ made <= seq + 1
      /\ made <= inflight + 2
      /\ phase \in {"check", "token", "handoff", "swap"} /\ detached /\ spares = << >>
           => made <= inflight + 1
  BY <1>n DEF Counted
<1>p. pipelined' = pipelined
  BY DEF Next, AppendLine, BeginFlush, Reclaim, ReclaimedAll, Swap, SubmitCheck,
         TakeToken, HandOff, SubmitCancelled, InlinePost, StopExtracting, Drained,
         BuildRequest, PostReturns, PutBack, ReleaseToken, Cancel, config
<1>a. CASE ~ pipelined
  <2>1. Alone' /\ TypeOK'
    BY AloneNext, TypeNext
  <2>2. spares' = << >> /\ spare' = << >> /\ made' = 1 /\ ~ detached'
    BY <2>1, <1>p, <1>a DEF Alone
  <2>3. Outstanding' = 0 /\ ~ Handed' /\ Len(spares') = 0 /\ Len(spare') = 0
    BY <2>2, <1>p, <1>a DEF Outstanding, Handed
  <2>4. seq' \in Nat /\ inflight' \in Nat
    BY <2>1 DEF TypeOK
  <2>5. made' <= seq' + 1 /\ made' <= inflight' + 2
    <3>1. made' = 1
      BY <2>2
    <3>2. \A n \in Nat : 1 <= n + 1 /\ 1 <= n + 2
      OBVIOUS
    <3>3. QED
      BY ONLY <2>4, <3>1, <3>2
  <2>6. made' = Len(spares') + Len(spare') + Outstanding' + (IF Handed' THEN 0 ELSE 1)
    BY <2>2, <2>3
  <2>7. QED
    BY <2>2, <2>5, <2>6 DEF Counted
<1> SUFFICES ASSUME pipelined
             PROVE  Counted'
  BY <1>a
<1>w. /\ next >= committed + 1
      /\ Lo <= Hi \/ (next = committed + 1 /\ ~ putBack)
      /\ putBack => next < Hi
      /\ tokens = (IF next < Hi THEN Hi - next ELSE 0)
                  + (IF phase = "handoff" THEN 1 ELSE 0)
      /\ tokens <= inflight
  BY <1>n DEF Window
<1>o. Outstanding = IF Lo < Hi THEN Hi - Lo ELSE 0
  BY DEF Outstanding
<1>o1. Outstanding' = IF Lo' < Hi' THEN Hi' - Lo' ELSE 0
  BY <1>p DEF Outstanding
<1>1. CASE AppendLine \/ BeginFlush \/ SubmitCheck \/ InlinePost \/ StopExtracting
           \/ Drained \/ Cancel
  <2>1. /\ UNCHANGED <<inflight, next, putBack, seq, made>>
        /\ Handed' = Handed
    BY <1>1, FrameSteps
  <2>2. UNCHANGED <<spares, spare>>
    BY <1>1 DEF AppendLine, BeginFlush, SubmitCheck, InlinePost, StopExtracting,
       Drained, Cancel, accum, sender
  <2>3. Lo' = Lo /\ Hi' = Hi
    BY <2>1 DEF Lo, Hi
  <2>4. phase' \in {"check", "token", "handoff", "swap"} /\ detached'
          => phase \in {"check", "token", "handoff", "swap"} /\ detached
    BY <1>1, <1>n DEF AppendLine, BeginFlush, SubmitCheck, InlinePost,
       StopExtracting, Drained, Cancel, accum, sender, Control
  <2>5. Outstanding' = Outstanding
    BY <2>3, <1>o, <1>o1
  <2>6. QED
    BY <2>1, <2>2, <2>4, <2>5, <1>c DEF Counted
<1>2. CASE Reclaim
  <2>1. /\ UNCHANGED <<inflight, next, putBack, seq, made>>
        /\ Handed' = Handed
    BY <1>2, FrameSteps
  <2>2. /\ Len(spares') = Len(spares) + 1
        /\ Len(spare') = Len(spare) - 1
        /\ ~ Handed
    BY <1>2, ReclaimKeeps DEF IInv
  <2>3. Lo' = Lo /\ Hi' = Hi
    BY <2>1 DEF Lo, Hi
  <2>4. Outstanding' = Outstanding
    BY <2>3, <1>o, <1>o1
  <2>5. phase' = "reclaim"
    BY <1>2 DEF Reclaim
  <2>6. QED
    BY <2>1, <2>2, <2>4, <2>5, <1>c, <1>n DEF Counted
<1>3. CASE ReclaimedAll
  <2>1. /\ UNCHANGED <<inflight, next, putBack, seq, made>>
        /\ Handed' = Handed
    BY <1>3, FrameSteps
  <2>2. UNCHANGED <<spares, spare>> /\ spare = << >> /\ phase = "reclaim"
    BY <1>3 DEF ReclaimedAll, sender
  <2>3. Lo' = Lo /\ Hi' = Hi
    BY <2>1 DEF Lo, Hi
  <2>4. Outstanding' = Outstanding
    BY <2>3, <1>o, <1>o1
  <2>5. Outstanding <= inflight
    BY <2>2, <1>o, <1>w, <1>n DEF Lo
  <2>6. spares = << >> => Len(spares) = 0
    OBVIOUS
  <2>7. Len(spare) = 0 /\ ~ Handed
    BY <2>2 DEF Handed
  <2>8. spares = << >> => made <= inflight + 1
    BY <2>5, <2>6, <2>7, <1>c, <1>n
  <2>9. QED
    BY <2>1, <2>2, <2>4, <2>8, <1>c DEF Counted
<1>4. CASE Swap
  <2>1. /\ UNCHANGED <<inflight, next, putBack, spare>>
        /\ seq' = seq + 1 /\ ~ detached' /\ phase = "swap" /\ phase' = "extract"
    BY <1>4 DEF Swap, config, sender
  <2>2. Lo' = Lo /\ Hi' = seq + 1 /\ ~ Handed'
    BY <2>1 DEF Lo, Hi, Handed
  <2>3. CASE ~ detached
    <3>1. Hi = seq /\ seq <= committed /\ ~ Handed
      BY <2>1, <2>3, <1>n DEF Hi, Handed, Control
    <3>2. Outstanding = 0 /\ Outstanding' = 0
      BY <2>2, <3>1, <1>o, <1>o1, <1>w, <1>n DEF Lo
    <3>3. UNCHANGED <<spares, made>>
      BY <1>4, <2>3 DEF Swap
    <3>4. QED
      BY <2>1, <2>2, <3>1, <3>2, <3>3, <1>c, <1>n DEF Counted
  <2>4. CASE detached
    <3>1. Handed /\ Hi = seq + 1
      BY <2>1, <2>4 DEF Hi, Handed
    <3>2. Outstanding' = Outstanding
      BY <2>2, <3>1, <1>o, <1>o1
    <3>3. CASE spares # << >>
      <4>1. Len(spares) \in Nat \ {0}
        BY <3>3, <1>n, EmptySeq
      <4>2. \A i \in 1 .. Len(spares) - 1 : spares[i] \in Buffers
        BY <4>1, <1>n, ElementOfSeq
      <4>3. Len(SparesLeft) = Len(spares) - 1
        <5>1. Len(spares) - 1 \in Int /\ 1 \in Int
          BY <4>1
        <5>2. Len(SparesLeft) = IF 1 <= Len(spares) - 1 THEN (Len(spares) - 1) - 1 + 1 ELSE 0
          BY <5>1, <4>2, SubSeqProperties DEF SparesLeft
        <5>3. PICK n \in Nat \ {0} : n = Len(spares)
          BY <4>1
        <5>4. Len(SparesLeft) = IF 1 <= n - 1 THEN (n - 1) - 1 + 1 ELSE 0
          BY <5>2, <5>3
        <5>5. (IF 1 <= n - 1 THEN (n - 1) - 1 + 1 ELSE 0) = n - 1
          BY ONLY <5>3
        <5>6. QED
          BY <5>3, <5>4, <5>5
      <4>4. spares' = SparesLeft /\ made' = made
        BY <1>4, <2>4, <3>3 DEF Swap
      <4>5. QED
        BY <2>1, <2>2, <3>1, <3>2, <4>1, <4>3, <4>4, <1>c, <1>n DEF Counted
    <3>4. CASE spares = << >>
      <4>1. UNCHANGED spares /\ made' = made + 1
        BY <1>4, <2>4, <3>4 DEF Swap
      <4>2. made <= inflight + 1
        BY <2>1, <2>4, <3>4, <1>c
      <4>3. QED
        BY <2>1, <2>2, <3>1, <3>2, <4>1, <4>2, <1>c, <1>n DEF Counted
    <3>5. QED
      BY <3>3, <3>4
  <2>5. QED
    BY <2>3, <2>4
<1>5. CASE TakeToken \/ SubmitCancelled \/ ReleaseToken
  <2>1. UNCHANGED <<inflight, seq, detached, made, spares, spare>>
    BY <1>5 DEF TakeToken, SubmitCancelled, ReleaseToken, config, accum
  <2>2. Handed' = Handed
    BY <1>5, <2>1 DEF TakeToken, SubmitCancelled, ReleaseToken, Handed
  <2>3. Hi' = Hi
    BY <2>1, <2>2 DEF Hi
  <2>4. Lo' = Lo
    BY <1>5 DEF TakeToken, SubmitCancelled, ReleaseToken, Lo
  <2>5. Outstanding' = Outstanding
    BY <2>3, <2>4, <1>o, <1>o1
  <2>6. phase' \in {"check", "token", "handoff", "swap"}
          => phase \in {"check", "token", "handoff", "swap"}
    BY <1>5 DEF TakeToken, SubmitCancelled, ReleaseToken
  <2>7. QED
    BY <2>1, <2>2, <2>5, <2>6, <1>c DEF Counted
<1>6. CASE HandOff
  <2>1. /\ UNCHANGED <<inflight, next, putBack, seq, detached, made, spares, spare>>
        /\ phase = "handoff" /\ phase' = "swap"
    BY <1>6 DEF HandOff, config, accum
  <2>2. detached /\ seq > committed
    BY <2>1, <1>n DEF Control, InCallback
  <2>3. Lo' = Lo /\ Hi = seq /\ Hi' = seq + 1 /\ Handed' /\ ~ Handed
    BY <2>1, <2>2 DEF Lo, Hi, Handed
  <2>4. Lo <= seq
    BY <2>2, <2>3, <1>w, <1>n DEF Lo
  <2>5. Outstanding' = Outstanding + 1
    BY <2>3, <2>4, <1>o, <1>o1, <1>n
  <2>6. QED
    BY <2>1, <2>2, <2>3, <2>5, <1>c, <1>n DEF Counted
<1>7. ASSUME NEW r \in Seqs, BuildRequest(r) \/ PostReturns(r) PROVE Counted'
  <2>1. UNCHANGED <<inflight, next, putBack, seq, made, phase, detached, spare, spares>>
    BY <1>7, WorkerSteps
  <2>2. Lo' = Lo /\ Hi' = Hi /\ Handed' = Handed
    BY <2>1 DEF Lo, Hi, Handed
  <2>3. Outstanding' = Outstanding
    BY <2>2, <1>o, <1>o1
  <2>4. QED
    BY <2>1, <2>2, <2>3, <1>c DEF Counted
<1>8. CASE PutBack
  <2>1. /\ Len(spare') = Len(spare) + 1 /\ Lo = next /\ Lo' = next + 1 /\ Hi' = Hi
        /\ next < Hi /\ Handed' = Handed
        /\ UNCHANGED <<inflight, spares, made, seq, phase, detached>>
    BY <1>8, PutBackKeeps
  <2>2. Outstanding' = Outstanding - 1
    BY <2>1, <1>o, <1>o1, <1>n
  <2>3. QED
    BY <2>1, <2>2, <1>c, <1>n DEF Counted
<1>9. QED
  BY <1>1, <1>2, <1>3, <1>4, <1>5, <1>6, <1>7, <1>8 DEF Next

-----------------------------------------------------------------------------
(* Where the buffers are                                                   *)

(* The steps that move no buffer.                                          *)
StillStep ==
  AppendLine \/ BeginFlush \/ ReclaimedAll \/ SubmitCheck \/ TakeToken
  \/ SubmitCancelled \/ InlinePost \/ StopExtracting \/ Drained \/ ReleaseToken \/ Cancel

LEMMA StillSteps ==
  ASSUME IInv, StillStep
  PROVE  /\ UNCHANGED <<job, spares, spare, made>>
         /\ cur'.buf = cur.buf
         /\ Handed' = Handed
<1>n. Control /\ detached \in BOOLEAN /\ cur \in SliceType
  BY DEF IInv, TypeOK
<1>1. CASE AppendLine
  BY <1>1, <1>n DEF Control, AppendLine, Handed, config, sender, SliceType
<1>2. CASE BeginFlush
  BY <1>2, <1>n DEF Control, BeginFlush, Handed, config, sender
<1>3. CASE ReclaimedAll
  BY <1>3, <1>n DEF Control, ReclaimedAll, Handed, config, sender
<1>4. CASE SubmitCheck \/ InlinePost \/ StopExtracting \/ Drained \/ Cancel
  BY <1>4, <1>n DEF Control, SubmitCheck, InlinePost, StopExtracting, Drained, Cancel,
     Handed, config, accum, sender
<1>5. CASE TakeToken \/ SubmitCancelled \/ ReleaseToken
  BY <1>5, <1>n DEF Control, TakeToken, SubmitCancelled, ReleaseToken, Handed, config, accum
<1>6. QED
  BY <1>1, <1>2, <1>3, <1>4, <1>5 DEF StillStep

LEMMA ReclaimMoves ==
  ASSUME IInv, Reclaim
  PROVE  /\ UNCHANGED <<job, cur, made>>
         /\ ~ Handed /\ ~ Handed'
         /\ Len(spares') = Len(spares) + 1
         /\ Len(spare') = Len(spare) - 1
         /\ Len(spare) \in Nat \ {0}
         /\ \A i \in 1 .. Len(spares) : spares'[i] = spares[i]
         /\ spares'[Len(spares) + 1] = spare[1]
         /\ \A i \in 1 .. Len(spare) - 1 : spare'[i] = spare[i + 1]
<1>n. spares \in Seq(Buffers) /\ spare \in Seq(Buffers) /\ spare # << >>
  BY DEF IInv, TypeOK, Reclaim
<1>1. /\ spares' = Append(spares, Head(spare))
      /\ Len(spares') = Len(spares) + 1
      /\ Len(spare') = Len(spare) - 1
      /\ ~ Handed /\ Handed' = Handed
  BY ReclaimKeeps, FrameSteps
<1>2. UNCHANGED <<job, cur, made>> /\ spare' = Tail(spare)
  BY DEF Reclaim
<1>3. /\ Head(spare) \in Buffers /\ Head(spare) = spare[1]
      /\ \A i \in 1 .. Len(spare) - 1 : Tail(spare)[i] = spare[i + 1]
      /\ Len(spare) \in Nat \ {0}
  BY <1>n, HeadTailProperties, EmptySeq
<1>4. QED
  BY <1>1, <1>2, <1>3, <1>n, AppendProperties

LEMMA SwapMoves ==
  ASSUME IInv, Swap
  PROVE  /\ UNCHANGED <<job, spare>> /\ ~ Handed'
         /\ \/ ~ Handed /\ cur'.buf = cur.buf /\ UNCHANGED <<spares, made>>
            \/ /\ Handed /\ made' = made
               /\ Len(spares) \in Nat \ {0} /\ Len(spares') = Len(spares) - 1
               /\ \A i \in 1 .. Len(spares) - 1 : spares'[i] = spares[i]
               /\ cur'.buf = spares[Len(spares)]
            \/ Handed /\ cur'.buf = made + 1 /\ made' = made + 1 /\ UNCHANGED spares
<1>n. spares \in Seq(Buffers) /\ phase = "swap" /\ detached \in BOOLEAN
  BY DEF IInv, TypeOK, Swap
<1>1. UNCHANGED <<job, spare>> /\ ~ Handed'
  BY DEF Swap, sender, Handed
<1>2. CASE ~ detached
  BY <1>1, <1>2 DEF Swap, Handed, Empty
<1>3. CASE detached /\ spares # << >>
  <2>1. PICK n \in Nat \ {0} : n = Len(spares)
    BY <1>3, <1>n, EmptySeq
  <2>2. \A i \in 1 .. n - 1 : spares[i] \in Buffers
    BY <2>1, <1>n, ElementOfSeq
  <2>3. /\ Len(SubSeq(spares, 1, n - 1)) = (IF 1 <= n - 1 THEN (n - 1) - 1 + 1 ELSE 0)
        /\ \A i \in 1 .. (n - 1) - 1 + 1 : SubSeq(spares, 1, n - 1)[i] = spares[1 + i - 1]
    BY <2>1, <2>2, SubSeqProperties
  <2>4. (IF 1 <= n - 1 THEN (n - 1) - 1 + 1 ELSE 0) = n - 1 /\ (n - 1) - 1 + 1 = n - 1
    BY ONLY <2>1
  <2>5. \A i \in 1 .. n - 1 : 1 + i - 1 = i
    BY ONLY <2>1
  <2>6. spares' = SubSeq(spares, 1, n - 1) /\ cur'.buf = spares[n] /\ made' = made
    BY <1>3, <2>1 DEF Swap, SparesLeft, Empty
  <2>7. Handed
    BY <1>3, <1>n DEF Handed
  <2>8. Len(spares') = n - 1
    BY <2>3, <2>4, <2>6
  <2>9. \A i \in 1 .. n - 1 : spares'[i] = spares[i]
    BY <2>3, <2>4, <2>5, <2>6
  <2>10. QED
    BY <1>1, <2>1, <2>6, <2>7, <2>8, <2>9
<1>4. CASE detached /\ spares = << >>
  BY <1>1, <1>4, <1>n DEF Swap, Handed, Empty
<1>5. QED
  BY <1>2, <1>3, <1>4

LEMMA HandOffMoves ==
  ASSUME IInv, HandOff
  PROVE  /\ UNCHANGED <<cur, spares, spare, made, mem, ends, lines, seq>>
         /\ ~ Handed /\ Handed' /\ seq \in Seqs
         /\ job[seq].st \notin Out
         /\ job'[seq].st \in Out /\ job'[seq].buf = cur.buf /\ job'[seq].len = cur.len
         /\ \A s \in Seqs : s # seq => job'[s] = job[s]
<1>n. /\ TypeOK /\ Control /\ Alone /\ Window /\ phase = "handoff"
      /\ MaxChunks \in Nat /\ seq \in Nat /\ detached \in BOOLEAN
      /\ job \in [Seqs -> [st : JobStates, buf : {NoBuf} \cup Buffers, len : 0 .. MaxLines]]
  BY Numbers DEF IInv, HandOff, TypeOK
<1>1. pipelined /\ detached /\ seq < MaxChunks
  BY <1>n DEF Control, InCallback
<1>2. seq \in Seqs
  BY <1>1, <1>n DEF Seqs
<1>3. job[seq].st \notin Out
  BY <1>1, <1>2, <1>n DEF Window, Hi, Handed
<1>4. job' = [job EXCEPT ![seq] = [st |-> "new", buf |-> cur.buf, len |-> cur.len]]
  BY DEF HandOff
<1>5. UNCHANGED <<cur, spares, spare, made, mem, ends, lines, seq, detached>> /\ phase' = "swap"
  BY DEF HandOff, accum
<1>6. ~ Handed /\ Handed'
  BY <1>1, <1>5, <1>n DEF Handed
<1>7. QED
  BY <1>2, <1>3, <1>4, <1>5, <1>6, <1>n DEF Out

LEMMA PutBackMoves ==
  ASSUME IInv, PutBack
  PROVE  /\ UNCHANGED <<cur, spares, made>> /\ Handed' = Handed
         /\ next \in Seqs /\ job[next].st \in Out
         /\ job'[next].st \notin Out /\ job'[next].buf = NoBuf
         /\ \A s \in Seqs : s # next => job'[s] = job[s]
         /\ Len(spare') = Len(spare) + 1
         /\ \A i \in 1 .. Len(spare) : spare'[i] = spare[i]
         /\ spare'[Len(spare) + 1] = job[next].buf
<1>n. /\ spare \in Seq(Buffers)
      /\ job \in [Seqs -> [st : JobStates, buf : {NoBuf} \cup Buffers, len : 0 .. MaxLines]]
  BY DEF IInv, TypeOK
<1>1. /\ next \in Seqs /\ job[next].st = "result" /\ job[next].buf \in Buffers
      /\ spare' = Append(spare, job[next].buf) /\ Handed' = Handed
      /\ UNCHANGED <<cur, spares, made>>
  BY PutBackKeeps
<1>2. job' = [job EXCEPT ![next] = [NoJob EXCEPT !.st = "retired"]]
  BY DEF PutBack
<1>3. job'[next].st = "retired" /\ job'[next].buf = NoBuf
  BY <1>1, <1>2, <1>n DEF NoJob
<1>4. \A s \in Seqs : s # next => job'[s] = job[s]
  BY <1>2, <1>n
<1>5. QED
  BY <1>1, <1>3, <1>4, <1>n, AppendProperties DEF Out

LEMMA BufferNumbers ==
  ASSUME NEW q \in Seq(Buffers), NEW i \in 1 .. Len(q)
  PROVE  q[i] \in Nat \ {0}
<1>1. \A b \in Buffers : b \in Nat \ {0}
  BY ConstantsAssumption DEF Buffers
<1>2. q[i] \in Buffers
  BY ElementOfSeq
<1>3. QED
  BY <1>1, <1>2

LEMMA NumberedNext ==
  ASSUME IInv, Next
  PROVE  Numbered'
<1>n. /\ Numbered /\ made \in Nat \ {0} /\ Len(spares) \in Nat /\ Len(spare) \in Nat
      /\ cur.buf \in Nat \ {0} /\ spares \in Seq(Buffers) /\ spare \in Seq(Buffers)
  BY Numbers DEF IInv, TypeOK
<1>b. /\ \A i \in 1 .. Len(spares) : spares[i] \in Nat \ {0}
      /\ \A i \in 1 .. Len(spare) : spare[i] \in Nat \ {0}
  BY <1>n, BufferNumbers
<1>i. /\ cur.buf <= made
      /\ \A i \in 1 .. Len(spares) : spares[i] <= made
      /\ \A i \in 1 .. Len(spare) : spare[i] <= made
      /\ \A s \in Seqs : job[s].st \in Out => job[s].buf \in 1 .. made
      /\ \A s \in Seqs : job[s].st \notin Out => job[s].buf = NoBuf
  BY <1>n DEF Numbered
<1>1. CASE StillStep
  BY <1>1, <1>i, StillSteps DEF Numbered
<1>2. CASE Reclaim
  <2>1. /\ UNCHANGED <<job, cur, made>>
        /\ Len(spares') = Len(spares) + 1 /\ Len(spare') = Len(spare) - 1
        /\ \A i \in 1 .. Len(spares) : spares'[i] = spares[i]
        /\ spares'[Len(spares) + 1] = spare[1]
        /\ \A i \in 1 .. Len(spare) - 1 : spare'[i] = spare[i + 1]
        /\ Len(spare) \in Nat \ {0}
    BY <1>2, ReclaimMoves
  <2>2. \A i \in 1 .. Len(spares') : spares'[i] <= made
    BY <2>1, <1>i, <1>n
  <2>3. \A i \in 1 .. Len(spare') : spare'[i] <= made
    BY <2>1, <1>i, <1>n, SMTT(20)
  <2>4. QED
    BY <2>1, <2>2, <2>3, <1>i DEF Numbered
<1>3. CASE Swap
  <2>1. UNCHANGED <<job, spare>>
    BY <1>3, SwapMoves
  <2>2. \/ cur'.buf = cur.buf /\ UNCHANGED <<spares, made>>
        \/ /\ made' = made
           /\ Len(spares) \in Nat \ {0} /\ Len(spares') = Len(spares) - 1
           /\ \A i \in 1 .. Len(spares) - 1 : spares'[i] = spares[i]
           /\ cur'.buf = spares[Len(spares)]
        \/ cur'.buf = made + 1 /\ made' = made + 1 /\ UNCHANGED spares
    BY <1>3, SwapMoves
  <2>3. made' \in Nat /\ made <= made'
    BY <2>2, <1>n
  <2>4. cur'.buf <= made'
    BY <2>2, <1>i, <1>n
  <2>5. \A i \in 1 .. Len(spares') : spares'[i] \in Nat /\ spares'[i] <= made
    <3>1. CASE UNCHANGED spares
      BY <3>1, <1>i, <1>b
    <3>2. CASE /\ Len(spares) \in Nat \ {0} /\ Len(spares') = Len(spares) - 1
               /\ \A i \in 1 .. Len(spares) - 1 : spares'[i] = spares[i]
      BY <3>2, <1>i, <1>b
    <3>3. QED
      BY <2>2, <3>1, <3>2
  <2>6. \A i \in 1 .. Len(spares') : spares'[i] <= made'
    BY <2>3, <2>5, <1>n
  <2>7. \A i \in 1 .. Len(spare') : spare'[i] <= made'
    BY <2>1, <2>3, <1>i, <1>b, <1>n
  <2>8. \A s \in Seqs : job'[s].st \in Out => job'[s].buf \in 1 .. made'
    BY <2>1, <2>3, <1>i, <1>n
  <2>9. QED
    BY <2>1, <2>4, <2>6, <2>7, <2>8, <1>i DEF Numbered
<1>4. CASE HandOff
  <2>1. /\ UNCHANGED <<cur, spares, spare, made>> /\ seq \in Seqs
        /\ job'[seq].st \in Out /\ job'[seq].buf = cur.buf
        /\ \A s \in Seqs : s # seq => job'[s] = job[s]
    BY <1>4, HandOffMoves
  <2>2. cur.buf \in 1 .. made
    BY <1>i, <1>n
  <2>3. QED
    BY <2>1, <2>2, <1>i DEF Numbered
<1>5. ASSUME NEW r \in Seqs, BuildRequest(r) \/ PostReturns(r) PROVE Numbered'
  BY <1>5, <1>i, WorkerSteps DEF Numbered
<1>6. CASE PutBack
  <2>1. /\ UNCHANGED <<cur, spares, made>>
        /\ next \in Seqs /\ job[next].st \in Out
        /\ job'[next].st \notin Out /\ job'[next].buf = NoBuf
        /\ \A s \in Seqs : s # next => job'[s] = job[s]
        /\ Len(spare') = Len(spare) + 1
        /\ \A i \in 1 .. Len(spare) : spare'[i] = spare[i]
        /\ spare'[Len(spare) + 1] = job[next].buf
    BY <1>6, PutBackMoves
  <2>2. \A i \in 1 .. Len(spare') : spare'[i] <= made
    <3>1. job[next].buf <= made
      BY <2>1, <1>i, <1>n
    <3>2. QED
      BY <2>1, <3>1, <1>i, <1>n, SMTT(20)
  <2>3. QED
    BY <2>1, <2>2, <1>i DEF Numbered
<1>7. QED
  BY <1>1, <1>2, <1>3, <1>4, <1>5, <1>6 DEF Next, StillStep

(* Buffers change places, and no step copies one.                          *)
LEMMA ApartNext ==
  ASSUME IInv, Next
  PROVE  Apart'
<1>n. /\ Numbered /\ Apart /\ made \in Nat \ {0}
      /\ Len(spares) \in Nat /\ Len(spare) \in Nat
      /\ cur.buf \in Nat \ {0} /\ spares \in Seq(Buffers) /\ spare \in Seq(Buffers)
  BY Numbers DEF IInv, TypeOK
<1>b. /\ \A i \in 1 .. Len(spares) : spares[i] \in Nat \ {0} /\ spares[i] <= made
      /\ \A i \in 1 .. Len(spare) : spare[i] \in Nat \ {0} /\ spare[i] <= made
      /\ \A s \in Seqs : job[s].st \in Out => job[s].buf \in 1 .. made
  BY <1>n, BufferNumbers DEF Numbered
<1>c. ~ Handed =>
        /\ \A i \in 1 .. Len(spares) : spares[i] # cur.buf
        /\ \A i \in 1 .. Len(spare) : spare[i] # cur.buf
        /\ \A s \in Seqs : job[s].st \in Out => job[s].buf # cur.buf
  BY <1>n DEF Apart
<1>s. /\ \A i, j \in 1 .. Len(spares) : spares[i] = spares[j] => i = j
      /\ \A i, j \in 1 .. Len(spare) : spare[i] = spare[j] => i = j
      /\ \A i \in 1 .. Len(spares), j \in 1 .. Len(spare) : spares[i] # spare[j]
  BY <1>n DEF Apart
<1>j. /\ \A s \in Seqs : job[s].st \in Out =>
           /\ \A i \in 1 .. Len(spares) : spares[i] # job[s].buf
           /\ \A i \in 1 .. Len(spare) : spare[i] # job[s].buf
      /\ \A s, r \in Seqs : job[s].st \in Out /\ job[r].st \in Out
                              /\ job[s].buf = job[r].buf => s = r
  BY <1>n DEF Apart
<1>1. CASE StillStep
  <2>1. /\ UNCHANGED <<job, spares, spare, made>>
        /\ cur'.buf = cur.buf /\ Handed' = Handed
    BY <1>1, StillSteps
  <2>2. QED
    BY <2>1, <1>c, <1>s, <1>j DEF Apart
<1>2. CASE Reclaim
  <2>1. /\ UNCHANGED <<job, cur, made>> /\ ~ Handed
        /\ Len(spares') = Len(spares) + 1 /\ Len(spare') = Len(spare) - 1
        /\ \A i \in 1 .. Len(spares) : spares'[i] = spares[i]
        /\ spares'[Len(spares) + 1] = spare[1]
        /\ \A i \in 1 .. Len(spare) - 1 : spare'[i] = spare[i + 1]
        /\ Len(spare) \in Nat \ {0}
    BY <1>2, ReclaimMoves
  <2>2. PICK m \in Nat, n \in Nat \ {0} : m = Len(spares) /\ n = Len(spare)
    BY <2>1, <1>n
  <2>3. /\ \A i \in 1 .. m + 1 : \/ i \in 1 .. m /\ spares'[i] = spares[i]
                                 \/ i = m + 1 /\ spares'[i] = spare[1]
        /\ 1 \in 1 .. n
        /\ \A i \in 1 .. n - 1 : i + 1 \in 1 .. n /\ i + 1 # 1 /\ i \in Int
                                   /\ spare'[i] = spare[i + 1]
    BY <2>1, <2>2
  <2>4. Len(spares') = m + 1 /\ Len(spare') = n - 1
    BY <2>1, <2>2
  <2>5. /\ \A i \in 1 .. m + 1 : spares'[i] # cur.buf
        /\ \A i \in 1 .. n - 1 : spare'[i] # cur.buf
        /\ \A s \in Seqs : job[s].st \in Out => job[s].buf # cur.buf
    BY <2>1, <2>2, <2>3, <1>c
  <2>6. \A i, j \in 1 .. m + 1 : spares'[i] = spares'[j] => i = j
    BY <2>2, <2>3, <1>s
  <2>7. \A i, j \in 1 .. n - 1 : spare'[i] = spare'[j] => i = j
    <3>1. ASSUME NEW i \in 1 .. n - 1, NEW j \in 1 .. n - 1, spare'[i] = spare'[j]
          PROVE  i + 1 = j + 1
      BY <3>1, <2>2, <2>3, <1>s
    <3>2. ASSUME NEW i \in 1 .. n - 1, NEW j \in 1 .. n - 1, i + 1 = j + 1
          PROVE  i = j
      BY <3>2, <2>2
    <3>3. QED
      BY <3>1, <3>2
  <2>8. \A i \in 1 .. m + 1, j \in 1 .. n - 1 : spares'[i] # spare'[j]
    BY <2>2, <2>3, <1>s
  <2>9. \A s \in Seqs : job[s].st \in Out =>
           /\ \A i \in 1 .. m + 1 : spares'[i] # job[s].buf
           /\ \A i \in 1 .. n - 1 : spare'[i] # job[s].buf
    BY <2>2, <2>3, <1>j
  <2>10. QED
    BY <2>1, <2>4, <2>5, <2>6, <2>7, <2>8, <2>9, <1>j DEF Apart
<1>3. CASE Swap
  <2>1. UNCHANGED <<job, spare>> /\ ~ Handed'
    BY <1>3, SwapMoves
  <2>2. CASE ~ Handed /\ cur'.buf = cur.buf /\ UNCHANGED <<spares, made>>
    BY <2>1, <2>2, <1>c, <1>s, <1>j DEF Apart
  <2>3. CASE /\ made' = made
             /\ Len(spares) \in Nat \ {0} /\ Len(spares') = Len(spares) - 1
             /\ \A i \in 1 .. Len(spares) - 1 : spares'[i] = spares[i]
             /\ cur'.buf = spares[Len(spares)]
    <3>1. PICK n \in Nat \ {0} : n = Len(spares)
      BY <2>3
    <3>2. n \in 1 .. n /\ \A i \in 1 .. n - 1 : i \in 1 .. n /\ i # n /\ spares'[i] = spares[i]
      BY <3>1, <2>3
    <3>3. \A i \in 1 .. n - 1 : spares'[i] # cur'.buf
      BY <3>1, <3>2, <2>3, <1>s
    <3>4. /\ \A i \in 1 .. Len(spare) : spare[i] # cur'.buf
          /\ \A s \in Seqs : job[s].st \in Out => job[s].buf # cur'.buf
      BY <3>1, <3>2, <2>3, <1>s, <1>j
    <3>5. /\ \A i, j \in 1 .. n - 1 : spares'[i] = spares'[j] => i = j
          /\ \A i \in 1 .. n - 1, j \in 1 .. Len(spare) : spares'[i] # spare[j]
          /\ \A s \in Seqs : job[s].st \in Out =>
               \A i \in 1 .. n - 1 : spares'[i] # job[s].buf
      BY <3>1, <3>2, <1>s, <1>j, SMTT(20)
    <3>6. Len(spares') = n - 1
      BY <3>1, <2>3
    <3>7. QED
      BY <2>1, <3>3, <3>4, <3>5, <3>6, <1>s, <1>j DEF Apart
  <2>4. CASE cur'.buf = made + 1 /\ made' = made + 1 /\ UNCHANGED spares
    <3>1. \A b \in Nat : b <= made => b # cur'.buf
      BY <2>4, <1>n
    <3>2. /\ \A i \in 1 .. Len(spares) : spares[i] # cur'.buf
          /\ \A i \in 1 .. Len(spare) : spare[i] # cur'.buf
      BY <3>1, <1>b
    <3>3. \A s \in Seqs : job[s].st \in Out => job[s].buf # cur'.buf
      BY <3>1, <1>b, <1>n
    <3>4. QED
      BY <2>1, <2>4, <3>2, <3>3, <1>s, <1>j DEF Apart
  <2>5. QED
    BY <1>3, <2>2, <2>3, <2>4, SwapMoves
<1>4. CASE HandOff
  <2>1. /\ UNCHANGED <<cur, spares, spare, made>> /\ seq \in Seqs
        /\ ~ Handed /\ Handed'
        /\ job'[seq].st \in Out /\ job'[seq].buf = cur.buf
        /\ \A s \in Seqs : s # seq => job'[s] = job[s]
    BY <1>4, HandOffMoves
  <2>2. \A s \in Seqs : job'[s].st \in Out =>
           /\ \A i \in 1 .. Len(spares) : spares[i] # job'[s].buf
           /\ \A i \in 1 .. Len(spare) : spare[i] # job'[s].buf
    BY <2>1, <1>c, <1>j
  <2>3. \A s, r \in Seqs : job'[s].st \in Out /\ job'[r].st \in Out
                              /\ job'[s].buf = job'[r].buf => s = r
    BY <2>1, <1>c, <1>j
  <2>4. QED
    BY <2>1, <2>2, <2>3, <1>s DEF Apart
<1>5. ASSUME NEW r \in Seqs, BuildRequest(r) \/ PostReturns(r) PROVE Apart'
  <2>1. UNCHANGED <<phase, detached, spare, spares, cur>>
    BY <1>5, WorkerSteps
  <2>2. /\ \A s \in Seqs : job'[s].st \in Out <=> job[s].st \in Out
        /\ \A s \in Seqs : job'[s].buf = job[s].buf
    BY <1>5, WorkerSteps
  <2>3. Handed' = Handed
    BY <2>1 DEF Handed
  <2>4. QED
    BY <2>1, <2>2, <2>3, <1>c, <1>s, <1>j DEF Apart
<1>6. CASE PutBack
  <2>1. /\ UNCHANGED <<cur, spares, made>> /\ Handed' = Handed
        /\ next \in Seqs /\ job[next].st \in Out
        /\ job'[next].st \notin Out
        /\ \A s \in Seqs : s # next => job'[s] = job[s]
        /\ Len(spare') = Len(spare) + 1
        /\ \A i \in 1 .. Len(spare) : spare'[i] = spare[i]
        /\ spare'[Len(spare) + 1] = job[next].buf
    BY <1>6, PutBackMoves
  <2>2. PICK n \in Nat : n = Len(spare)
    BY <1>n
  <2>3. \A i \in 1 .. n + 1 : \/ i \in 1 .. n /\ spare'[i] = spare[i]
                              \/ i = n + 1 /\ spare'[i] = job[next].buf
    BY <2>1, <2>2
  <2>4. Len(spare') = n + 1
    BY <2>1, <2>2
  <2>5. ~ Handed => \A i \in 1 .. n + 1 : spare'[i] # cur.buf
    BY <2>1, <2>2, <2>3, <1>c
  <2>6. \A i, j \in 1 .. n + 1 : spare'[i] = spare'[j] => i = j
    BY <2>1, <2>2, <2>3, <1>s, <1>j
  <2>7. \A i \in 1 .. Len(spares), j \in 1 .. n + 1 : spares[i] # spare'[j]
    BY <2>1, <2>2, <2>3, <1>s, <1>j
  <2>8. \A s \in Seqs : job'[s].st \in Out => s # next /\ job[s].st \in Out
                                               /\ job'[s].buf = job[s].buf
    BY <2>1
  <2>9. \A s \in Seqs : job'[s].st \in Out =>
           /\ \A i \in 1 .. Len(spares) : spares[i] # job'[s].buf
           /\ \A i \in 1 .. n + 1 : spare'[i] # job'[s].buf
    <3>1. ASSUME NEW s \in Seqs, job'[s].st \in Out
          PROVE  job[s].buf # job[next].buf /\ s # next
      BY <3>1, <2>1, <2>8, <1>j
    <3>2. QED
      BY <3>1, <2>2, <2>3, <2>8, <1>j
  <2>10. QED
    BY <2>1, <2>4, <2>5, <2>6, <2>7, <2>8, <2>9, <1>c, <1>s, <1>j DEF Apart
<1>7. QED
  BY <1>1, <1>2, <1>3, <1>4, <1>5, <1>6 DEF Next, StillStep

-----------------------------------------------------------------------------
(* What the buffers hold                                                   *)

(* The cut that ends a chunk with the sender has been made.                *)
LEMMA JobIsCut ==
  ASSUME IInv, NEW s \in Seqs, job[s].st \in Out
  PROVE  /\ s \in Nat /\ s + 1 \in 1 .. Len(ends)
         /\ s <= seq /\ (~ Handed => s < seq)
<1>n. /\ Control /\ Alone /\ Window /\ MaxChunks \in Nat /\ seq \in Nat
      /\ Len(ends) \in Nat
  BY Numbers DEF IInv
<1>1. pipelined
  BY <1>n DEF Alone, Out
<1>2. s < Hi
  BY <1>1, <1>n DEF Window
<1>3. s \in Nat
  BY <1>n DEF Seqs
<1>4. Handed => Hi = seq + 1 /\ Len(ends) = seq + 1
  BY <1>n DEF Hi, Handed, Control
<1>5. ~ Handed => Hi = seq
  BY DEF Hi
<1>6. Len(ends) = seq \/ Len(ends) = seq + 1
  BY <1>n DEF Control
<1>7. QED
  BY <1>2, <1>3, <1>4, <1>5, <1>6, <1>n

(* Cuts, once made, stay.                                                  *)
LEMMA EndsStay ==
  ASSUME IInv, Next
  PROVE  /\ Len(ends') \in Nat /\ Len(ends) <= Len(ends')
         /\ \A i \in 1 .. Len(ends) : ends'[i] = ends[i] /\ ends[i] \in Nat
<1>n. ends \in Seq(Nat) /\ lines \in Nat
  BY DEF IInv, TypeOK
<1>0. \A i \in 1 .. Len(ends) : ends[i] \in Nat
  BY <1>n, ElementOfSeq
<1>1. CASE BeginFlush
  BY <1>0, <1>1, <1>n, AppendProperties DEF BeginFlush
<1>2. CASE ends' = ends
  BY <1>0, <1>2, <1>n
<1>3. BeginFlush \/ ends' = ends
  BY DEF Next, AppendLine, Reclaim, ReclaimedAll, Swap, SubmitCheck,
         TakeToken, HandOff, SubmitCancelled, InlinePost, StopExtracting, Drained,
         BuildRequest, PostReturns, PutBack, ReleaseToken, Cancel, accum
<1>4. QED
  BY <1>1, <1>2, <1>3

LEMMA FirstLines ==
  ASSUME IInv, Next, NEW s \in Nat, s <= Len(ends)
  PROVE  /\ FirstLine(s) \in Nat
         /\ (IF s = 0 THEN 1 ELSE ends'[s] + 1) = FirstLine(s)
<1>1. s # 0 => s \in 1 .. Len(ends)
  BY Numbers DEF IInv
<1>2. QED
  BY <1>1, EndsStay DEF FirstLine

(* The content of the chunk being cut, and of the chunks with the sender.  *)
CurContent ==
  /\ lines = FirstLine(seq) - 1 + cur.len
  /\ phase \in InCallback \cup {"swap"} => ends[seq + 1] = lines
  /\ Filled(cur.buf, seq, cur.len)

JobContent ==
  \A s \in Seqs : job[s].st = "new" =>
     /\ job[s].len = ends[s + 1] - FirstLine(s) + 1
     /\ Filled(job[s].buf, s, job[s].len)

LEMMA CurContentNext ==
  ASSUME IInv, Next
  PROVE  CurContent'
<1>n. /\ TypeOK /\ Control /\ Len(ends) \in Nat /\ seq \in Nat /\ cur \in SliceType
      /\ cur.buf \in Buffers /\ cur.len \in 0 .. MaxLines /\ cur.len \in Nat
      /\ lines \in Nat /\ MaxLines \in Nat
      /\ mem \in [Buffers -> [1 .. MaxLines -> Nat]]
  BY Numbers DEF IInv, TypeOK
<1>c. /\ lines = FirstLine(seq) - 1 + cur.len
      /\ phase \in InCallback \cup {"swap"} => ends[seq + 1] = lines
      /\ \A i \in 1 .. cur.len : mem[cur.buf][i] = FirstLine(seq) + i - 1
  BY DEF IInv, Contents, Filled
<1>l. seq <= Len(ends)
  BY <1>n DEF Control
<1>f. /\ FirstLine(seq) \in Nat
      /\ (IF seq = 0 THEN 1 ELSE ends'[seq] + 1) = FirstLine(seq)
  BY <1>l, <1>n, FirstLines
<1>1. CASE AppendLine
  <2>1. /\ mem' = [mem EXCEPT ![cur.buf][cur.len + 1] = lines + 1]
        /\ cur'.len = cur.len + 1 /\ cur'.buf = cur.buf /\ lines' = lines + 1
        /\ cur.len + 1 \in 1 .. MaxLines
        /\ seq' = seq /\ phase' = "extract"
    BY <1>1, <1>n DEF AppendLine, SliceType
  <2>2. FirstLine(seq)' = FirstLine(seq)
    BY <2>1, <1>f DEF FirstLine
  <2>3. mem'[cur.buf][cur.len + 1] = lines + 1
    BY <2>1, <1>n
  <2>4. \A i \in 1 .. cur.len : i \in 1 .. MaxLines /\ i # cur.len + 1
    BY <2>1, <1>n
  <2>5. \A i \in 1 .. cur.len : mem'[cur.buf][i] = mem[cur.buf][i]
    BY <2>1, <2>4, <1>n
  <2>6. ASSUME NEW i \in 1 .. cur.len + 1
        PROVE  mem'[cur.buf][i] = FirstLine(seq) + i - 1
    <3>1. CASE i = cur.len + 1
      <4>1. lines + 1 = FirstLine(seq) + (cur.len + 1) - 1
        <5>1. PICK f \in Nat, n \in Nat : f = FirstLine(seq) /\ n = cur.len
          BY <1>f, <1>n
        <5>2. (f - 1 + n) + 1 = f + (n + 1) - 1
          BY ONLY <5>1
        <5>3. QED
          BY <1>c, <5>1, <5>2
      <4>2. QED
        BY <3>1, <4>1, <2>3
    <3>2. CASE i # cur.len + 1
      <4>1. i \in 1 .. cur.len
        BY <3>2, <1>n
      <4>2. QED
        BY <4>1, <2>5, <1>c
    <3>3. QED
      BY <3>1, <3>2
  <2>7. lines' = FirstLine(seq)' - 1 + cur'.len
    BY <2>1, <2>2, <1>c, <1>f, <1>n
  <2>8. Filled(cur.buf, seq, cur.len)'
    BY <2>1, <2>2, <2>6 DEF Filled
  <2>9. QED
    BY <2>1, <2>7, <2>8 DEF CurContent, InCallback
<1>2. CASE BeginFlush
  <2>1. UNCHANGED <<mem, cur, seq, lines>> /\ ends' = Append(ends, lines)
        /\ phase = "extract"
    BY <1>2 DEF BeginFlush
  <2>2. Len(ends) = seq
    BY <2>1, <1>n DEF Control
  <2>3. ends'[seq + 1] = lines
    BY <2>1, <2>2, <1>n, AppendProperties DEF TypeOK
  <2>4. FirstLine(seq)' = FirstLine(seq)
    BY <2>1, <1>f DEF FirstLine
  <2>5. Filled(cur.buf, seq, cur.len)'
    BY <2>1, <2>4, <1>c DEF Filled
  <2>6. QED
    BY <2>1, <2>3, <2>4, <2>5, <1>c DEF CurContent
<1>3. CASE Swap
  <2>1. UNCHANGED <<lines, ends>> /\ seq' = seq + 1 /\ cur'.len = 0 /\ phase = "swap"
        /\ phase' = "extract"
    BY <1>3 DEF Swap, Empty
  <2>2. ends[seq + 1] = lines
    BY <2>1, <1>c
  <2>3. FirstLine(seq)' = lines + 1
    BY <2>1, <2>2, <1>n DEF FirstLine
  <2>4. lines' = FirstLine(seq)' - 1 + cur'.len
    BY <2>1, <2>3, <1>n
  <2>5. Filled(cur.buf, seq, cur.len)'
    BY <2>1 DEF Filled
  <2>6. QED
    BY <2>1, <2>4, <2>5 DEF CurContent, InCallback
<1>4. CASE /\ UNCHANGED <<mem, cur, seq, lines, ends>>
           /\ phase' \in InCallback \cup {"swap"} => phase \in InCallback \cup {"swap"}
  <2>1. FirstLine(seq)' = FirstLine(seq)
    BY <1>4, <1>f DEF FirstLine
  <2>2. Filled(cur.buf, seq, cur.len)'
    BY <1>4, <2>1, <1>c DEF Filled
  <2>3. QED
    BY <1>4, <2>1, <2>2, <1>c DEF CurContent
<1>5. CASE Reclaim \/ ReclaimedAll \/ SubmitCheck \/ TakeToken \/ HandOff \/ SubmitCancelled
  BY <1>4, <1>5 DEF Reclaim, ReclaimedAll, SubmitCheck, TakeToken, HandOff,
     SubmitCancelled, InCallback, accum
<1>6. CASE InlinePost \/ StopExtracting \/ Drained \/ PutBack \/ ReleaseToken \/ Cancel
  BY <1>4, <1>6 DEF InlinePost, StopExtracting, Drained, PutBack, ReleaseToken, Cancel,
     InCallback, accum
<1>7. ASSUME NEW r \in Seqs, BuildRequest(r) \/ PostReturns(r) PROVE CurContent'
  BY <1>4, <1>7, WorkerSteps
<1>8. QED
  BY <1>1, <1>2, <1>3, <1>5, <1>6, <1>7 DEF Next

(* While a job waits to be read, no line goes into its buffer.             *)
LEMMA JobContentNext ==
  ASSUME IInv, Next
  PROVE  JobContent'
<1>n. /\ TypeOK /\ Control /\ Apart /\ Len(ends) \in Nat /\ seq \in Nat
      /\ cur \in SliceType
      /\ cur.buf \in Buffers /\ cur.len \in 0 .. MaxLines /\ cur.len \in Nat
      /\ lines \in Nat /\ MaxLines \in Nat
      /\ mem \in [Buffers -> [1 .. MaxLines -> Nat]]
      /\ job \in [Seqs -> [st : JobStates, buf : {NoBuf} \cup Buffers, len : 0 .. MaxLines]]
  BY Numbers DEF IInv, TypeOK
<1>j. \A s \in Seqs : job[s].st = "new" =>
         /\ job[s].len = ends[s + 1] - FirstLine(s) + 1
         /\ \A i \in 1 .. job[s].len : mem[job[s].buf][i] = FirstLine(s) + i - 1
  BY DEF IInv, Contents, Filled
<1>k. ASSUME NEW s \in Seqs, job[s].st \in Out
      PROVE  /\ ends'[s + 1] = ends[s + 1]
             /\ FirstLine(s)' = FirstLine(s)
  <2>1. s \in Nat /\ s + 1 \in 1 .. Len(ends)
    BY <1>k, JobIsCut
  <2>2. s <= Len(ends)
    BY <2>1, <1>n
  <2>3. (IF s = 0 THEN 1 ELSE ends'[s] + 1) = FirstLine(s)
    BY <2>1, <2>2, FirstLines
  <2>4. QED
    BY <2>1, <2>3, EndsStay DEF FirstLine
<1>1. CASE AppendLine
  <2>1. /\ mem' = [mem EXCEPT ![cur.buf][cur.len + 1] = lines + 1]
        /\ UNCHANGED <<job, ends>> /\ phase = "extract"
    BY <1>1 DEF AppendLine, sender
  <2>2. \A b \in Buffers : b # cur.buf => mem'[b] = mem[b]
    BY <2>1, <1>n
  <2>3. ASSUME NEW s \in Seqs, job[s].st = "new"
        PROVE  mem'[job[s].buf] = mem[job[s].buf]
    <3>1. job[s].buf # cur.buf
      BY <2>1, <2>3, <1>n DEF Apart, Handed, Out
    <3>2. job[s].buf \in Buffers
      <4>1. job[s].buf \in 1 .. made
        BY <2>3 DEF IInv, Numbered, Out
      <4>2. 1 .. made \subseteq Buffers
        BY Numbers, <1>n DEF Buffers
      <4>3. QED
        BY <4>1, <4>2
    <3>3. QED
      BY <2>2, <3>1, <3>2
  <2>4. \A s \in Seqs : job[s].st = "new" => FirstLine(s)' = FirstLine(s)
    BY <1>k DEF Out
  <2>5. QED
    BY <2>1, <2>3, <2>4, <1>j DEF JobContent, Filled
<1>2. CASE HandOff
  <2>1. /\ UNCHANGED <<cur, mem, ends, lines, seq>> /\ seq \in Seqs
        /\ job'[seq].buf = cur.buf /\ job'[seq].len = cur.len
        /\ \A s \in Seqs : s # seq => job'[s] = job[s]
    BY <1>2, HandOffMoves
  <2>2. phase = "handoff"
    BY <1>2 DEF HandOff
  <2>3. /\ lines = FirstLine(seq) - 1 + cur.len
        /\ ends[seq + 1] = lines
        /\ \A i \in 1 .. cur.len : mem[cur.buf][i] = FirstLine(seq) + i - 1
    BY <2>2 DEF IInv, Contents, Filled, InCallback
  <2>4. FirstLine(seq) \in Nat
    BY <1>n, FirstLines DEF Control
  <2>5. cur.len = ends[seq + 1] - FirstLine(seq) + 1
    BY <2>3, <2>4, <1>n
  <2>6. \A s \in Seqs : FirstLine(s)' = FirstLine(s)
    BY <2>1 DEF FirstLine
  <2>7. ASSUME NEW s \in Seqs, job'[s].st = "new"
        PROVE  /\ job'[s].len = ends'[s + 1] - FirstLine(s)' + 1
               /\ \A i \in 1 .. job'[s].len : mem'[job'[s].buf][i] = FirstLine(s)' + i - 1
    <3>1. CASE s = seq
      BY <3>1, <2>1, <2>3, <2>5, <2>6
    <3>2. CASE s # seq
      BY <3>2, <2>1, <2>6, <2>7, <1>j
    <3>3. QED
      BY <3>1, <3>2
  <2>8. QED
    BY <2>7 DEF JobContent, Filled
<1>3. CASE /\ \A s \in Seqs : job'[s].st = "new" =>
                 /\ job[s].st = "new" /\ job'[s].len = job[s].len
                 /\ job'[s].buf = job[s].buf
           /\ mem' = mem
  <2>1. ASSUME NEW s \in Seqs, job'[s].st = "new"
        PROVE  /\ job'[s].len = ends'[s + 1] - FirstLine(s)' + 1
               /\ \A i \in 1 .. job'[s].len : mem'[job'[s].buf][i] = FirstLine(s)' + i - 1
    <3>1. job[s].st = "new" /\ job[s].st \in Out
      BY <1>3, <2>1 DEF Out
    <3>2. QED
      BY <3>1, <2>1, <1>3, <1>j, <1>k
  <2>2. QED
    BY <2>1 DEF JobContent, Filled
<1>4. CASE BeginFlush \/ Reclaim \/ ReclaimedAll \/ Swap \/ SubmitCheck \/ TakeToken
           \/ SubmitCancelled \/ InlinePost \/ StopExtracting \/ Drained
           \/ ReleaseToken \/ Cancel
  <2>1. UNCHANGED <<job, mem>>
    BY <1>4 DEF BeginFlush, Reclaim, ReclaimedAll, Swap, SubmitCheck, TakeToken,
       SubmitCancelled, InlinePost, StopExtracting, Drained, ReleaseToken, Cancel,
       accum, sender
  <2>2. QED
    BY <2>1, <1>3
<1>5. CASE PutBack
  <2>1. mem' = mem
    BY <1>5 DEF PutBack, accum
  <2>2. /\ next \in Seqs /\ job'[next].st \notin Out
        /\ \A s \in Seqs : s # next => job'[s] = job[s]
    BY <1>5, PutBackMoves
  <2>3. QED
    BY <2>1, <2>2, <1>3 DEF Out
<1>6. ASSUME NEW r \in Seqs, BuildRequest(r) \/ PostReturns(r) PROVE JobContent'
  BY <1>6, <1>3, WorkerSteps
<1>7. QED
  BY <1>1, <1>2, <1>4, <1>5, <1>6 DEF Next

(* What a buffer filled with a chunk gives the sink.                       *)
LEMMA ReadsChunk ==
  ASSUME IInv, NEW s \in Seqs, NEW slice,
         slice.buf \in Buffers, slice.len \in 0 .. MaxLines,
         slice.len = ends[s + 1] - FirstLine(s) + 1,
         Filled(slice.buf, s, slice.len)
  PROVE  Content(slice) = ChunkLines(s)
<1>1. \A i \in 1 .. slice.len : mem[slice.buf][i] = FirstLine(s) + i - 1
  BY DEF Filled
<1>2. Content(slice) = [i \in 1 .. slice.len |-> FirstLine(s) + i - 1]
  BY <1>1 DEF Content
<1>3. QED
  BY <1>2 DEF ChunkLines

LEMMA BodiesNext ==
  ASSUME IInv, Next
  PROVE  Bodies'
<1>n. /\ TypeOK /\ Control /\ Len(ends) \in Nat /\ seq \in Nat /\ cur \in SliceType
      /\ cur.buf \in Buffers /\ cur.len \in 0 .. MaxLines /\ cur.len \in Nat
      /\ lines \in Nat /\ MaxChunks \in Nat
      /\ body \in [Seqs -> Seq(Nat)]
  BY Numbers DEF IInv, TypeOK
<1>b. \A s \in Seqs : body[s] # NoBody => s < Len(ends) /\ body[s] = ChunkLines(s)
  BY DEF IInv, Bodies
<1>k. ASSUME NEW s \in Seqs, s < Len(ends)
      PROVE  s < Len(ends') /\ ChunkLines(s)' = ChunkLines(s)
  <2>1. s \in Nat /\ s + 1 \in 1 .. Len(ends) /\ s <= Len(ends)
    BY <1>k, <1>n DEF Seqs
  <2>2. (IF s = 0 THEN 1 ELSE ends'[s] + 1) = FirstLine(s)
    BY <2>1, FirstLines
  <2>3. FirstLine(s)' = FirstLine(s) /\ ends'[s + 1] = ends[s + 1]
        /\ Len(ends') \in Nat /\ Len(ends) <= Len(ends')
    BY <2>1, <2>2, EndsStay DEF FirstLine
  <2>4. s < Len(ends')
    BY <2>1, <2>3, <1>k, <1>n
  <2>5. QED
    BY <2>3, <2>4 DEF ChunkLines
<1>1. CASE body' = body
  BY <1>1, <1>b, <1>k DEF Bodies
<1>2. ASSUME NEW r \in Seqs, NEW c, body' = [body EXCEPT ![r] = c],
             r < Len(ends), c = ChunkLines(r)
      PROVE  Bodies'
  <2>1. \A s \in Seqs : body'[s] = IF s = r THEN c ELSE body[s]
    BY <1>2, <1>n
  <2>2. ASSUME NEW s \in Seqs, body'[s] # NoBody
        PROVE  s < Len(ends') /\ body'[s] = ChunkLines(s)'
    <3>1. s < Len(ends) /\ body'[s] = ChunkLines(s)
      BY <2>1, <2>2, <1>2, <1>b
    <3>2. QED
      BY <3>1, <1>k
  <2>3. QED
    BY <2>2 DEF Bodies, NoBody
<1>3. CASE InlinePost
  <2>1. phase = "inline" /\ body' = [body EXCEPT ![seq] = Content(cur)]
    BY <1>3 DEF InlinePost
  <2>2. Len(ends) = seq + 1 /\ seq < MaxChunks
    BY <2>1, <1>n DEF Control, InCallback
  <2>3. seq \in Seqs /\ seq < Len(ends)
    BY <2>2, <1>n DEF Seqs
  <2>4. /\ lines = FirstLine(seq) - 1 + cur.len
        /\ ends[seq + 1] = lines
        /\ Filled(cur.buf, seq, cur.len)
    BY <2>1 DEF IInv, Contents, InCallback
  <2>5. FirstLine(seq) \in Nat
    BY <2>2, <1>n, FirstLines
  <2>6. cur.len = ends[seq + 1] - FirstLine(seq) + 1
    BY <2>4, <2>5, <1>n
  <2>7. Content(cur) = ChunkLines(seq)
    BY <2>3, <2>4, <2>6, <1>n, ReadsChunk
  <2>8. QED
    BY <2>1, <2>3, <2>7, <1>2
<1>4. ASSUME NEW r \in Seqs, BuildRequest(r) PROVE Bodies'
  <2>1. job[r].st = "new" /\ body' = [body EXCEPT ![r] = Content(job[r])]
    BY <1>4 DEF BuildRequest
  <2>2. r \in Nat /\ r + 1 \in 1 .. Len(ends)
    BY <2>1, JobIsCut DEF Out
  <2>3. r < Len(ends)
    BY <2>2, <1>n
  <2>4. job[r].buf \in 1 .. made /\ job[r].len \in 0 .. MaxLines
    BY <2>1, <1>n DEF IInv, Numbered, Out, TypeOK
  <2>5. job[r].buf \in Buffers
    BY <2>4, Numbers, <1>n, SMTT(20) DEF Buffers
  <2>6. /\ job[r].len = ends[r + 1] - FirstLine(r) + 1
        /\ Filled(job[r].buf, r, job[r].len)
    BY <2>1 DEF IInv, Contents
  <2>7. Content(job[r]) = ChunkLines(r)
    BY <2>4, <2>5, <2>6, ReadsChunk
  <2>8. QED
    BY <2>1, <2>3, <2>7, <1>2
<1>5. ASSUME NEW r \in Seqs, PostReturns(r) PROVE Bodies'
  BY <1>5, <1>1 DEF PostReturns
<1>6. CASE AppendLine \/ BeginFlush \/ Reclaim \/ ReclaimedAll \/ Swap \/ SubmitCheck
           \/ TakeToken \/ HandOff \/ SubmitCancelled \/ StopExtracting \/ Drained
           \/ PutBack \/ ReleaseToken \/ Cancel
  BY <1>6, <1>1 DEF AppendLine, BeginFlush, Reclaim, ReclaimedAll, Swap, SubmitCheck,
     TakeToken, HandOff, SubmitCancelled, StopExtracting, Drained, PutBack,
     ReleaseToken, Cancel
<1>7. QED
  BY <1>3, <1>4, <1>5, <1>6 DEF Next

-----------------------------------------------------------------------------
(* The invariant                                                           *)

LEMMA Initially == Init => IInv
<1>1. SUFFICES ASSUME Init PROVE IInv
  OBVIOUS
<1>n. TypeOK /\ MaxChunks \in Nat \ {0} /\ MaxLines \in Nat \ {0}
  BY <1>1, TypeInit, ConstantsAssumption
<1>2. /\ committed \in {-1, 0} /\ next = committed + 1 /\ seq = 0 /\ ~ detached /\ ~ putBack
      /\ cur.len = 0 /\ cur.buf = 1 /\ made = 1 /\ lines = 0 /\ tokens = 0
      /\ phase = "extract" /\ inflight \in Nat \ {0}
  BY <1>1, Numbers, <1>n DEF Init, Empty
<1>3. Len(ends) = 0 /\ Len(spares) = 0 /\ Len(spare) = 0
  BY <1>1 DEF Init
<1>4. \A s \in Seqs : job[s].st = "none" /\ job[s].buf = NoBuf /\ body[s] = NoBody
  BY <1>1 DEF Init, NoJob
<1>5. ~ Handed /\ Lo = committed + 1 /\ Hi = 0
  BY <1>2 DEF Handed, Lo, Hi
<1>6. Outstanding = 0
  BY <1>2, <1>5 DEF Outstanding
<1>7. Control
  BY <1>2, <1>3, <1>n DEF Control, InCallback
<1>8. Alone
  BY <1>1, <1>2, <1>4 DEF Alone, Init
<1>9. Window
  <2>1. \A s \in Seqs : s \in Int
    BY <1>n DEF Seqs
  <2>2. \A s \in Seqs : ~ (Lo <= s /\ s < Hi)
    BY <2>1, <1>2, <1>5
  <2>3. QED
    BY <2>2, <1>2, <1>4, <1>5 DEF Window, Out
<1>10. Counted
  <2>1. made = Len(spares) + Len(spare) + Outstanding + (IF Handed THEN 0 ELSE 1)
    BY <1>2, <1>3, <1>5, <1>6
  <2>2. QED
    BY <2>1, <1>2 DEF Counted
<1>11. Numbered
  BY <1>2, <1>3, <1>4 DEF Numbered, Out
<1>12. Apart
  BY <1>3, <1>4 DEF Apart, Out
<1>13. Contents
  <2>1. FirstLine(seq) = 1
    BY <1>2 DEF FirstLine
  <2>2. Filled(cur.buf, seq, cur.len)
    BY <1>2 DEF Filled
  <2>3. QED
    BY <2>1, <2>2, <1>2, <1>4 DEF Contents, InCallback
<1>14. Bodies
  BY <1>4 DEF Bodies
<1>15. QED
  BY <1>n, <1>7, <1>8, <1>9, <1>10, <1>11, <1>12, <1>13, <1>14 DEF IInv

LEMMA Stutters == IInv /\ UNCHANGED vars => IInv'
BY DEF vars, IInv, TypeOK, Control, Alone, Window, Counted, Numbered, Apart,
       Contents, Bodies, InCallback, Handed, Lo, Hi, Outstanding, Filled, FirstLine,
       ChunkLines

LEMMA Invariance == Spec => []IInv
<1>1. IInv /\ Next => IInv'
  <2>1. SUFFICES ASSUME IInv, Next PROVE IInv'
    OBVIOUS
  <2>2. TypeOK' /\ Control' /\ Alone' /\ Window' /\ Counted'
    BY <2>1, TypeNext, ControlNext, AloneNext, WindowNext, CountedNext
  <2>3. Numbered' /\ Apart' /\ CurContent' /\ JobContent' /\ Bodies'
    BY <2>1, NumberedNext, ApartNext, CurContentNext, JobContentNext, BodiesNext
  <2>4. Contents'
    BY <2>3 DEF Contents, CurContent, JobContent
  <2>5. QED
    BY <2>2, <2>3, <2>4 DEF IInv
<1>2. QED
  BY <1>1, Initially, Stutters, PTL DEF Spec

-----------------------------------------------------------------------------
(* The theorems                                                            *)

(* Every variable of the load's buffers has its type: no buffer is         *)
(* numbered beyond the ones that MaxChunks chunks can need.                *)
THEOREM BuffersTypeCorrect == Spec => []TypeOK
BY Invariance, PTL DEF IInv

(* What the sink reads for a chunk is that chunk, although the memory it   *)
(* reads was handed over and not copied: a buffer comes back to the        *)
(* Accumulator only after its post (submit, putBack and reclaim in run.go).*)
THEOREM ChunksArriveIntact == Spec => []BodiesIntact
<1>1. IInv => BodiesIntact
  BY DEF IInv, Bodies, BodiesIntact
<1>2. QED
  BY <1>1, Invariance, PTL

(* However many chunks a shard has, its load holds at most --inflight + 2  *)
(* chunk buffers (Recycle, Detach and the token semaphore).                *)
THEOREM MemoryBounded == Spec => []BuffersBounded
<1>1. ASSUME IInv PROVE BuffersBounded
  <2>n. made \in Nat /\ inflight \in Nat /\ made <= inflight + 2
    BY <1>1, Numbers DEF IInv, Counted
  <2>1. cur.buf \in 1 .. made
    BY <1>1, Numbers, <2>n DEF IInv, Numbered
  <2>2. /\ \A i \in DOMAIN spares : spares[i] \in 1 .. made
        /\ \A i \in DOMAIN spare : spare[i] \in 1 .. made
    <3>1. spares \in Seq(Buffers) /\ spare \in Seq(Buffers)
      BY <1>1 DEF IInv, TypeOK
    <3>2. DOMAIN spares = 1 .. Len(spares) /\ DOMAIN spare = 1 .. Len(spare)
      BY <3>1, LenProperties
    <3>3. \A i \in 1 .. Len(spares) : spares[i] \in Nat \ {0} /\ spares[i] <= made
      BY <1>1, <3>1, BufferNumbers DEF IInv, Numbered
    <3>4. \A i \in 1 .. Len(spare) : spare[i] \in Nat \ {0} /\ spare[i] <= made
      BY <1>1, <3>1, BufferNumbers DEF IInv, Numbered
    <3>5. QED
      BY <3>2, <3>3, <3>4, <2>n
  <2>3. \A s \in Seqs : job[s].buf # NoBuf => job[s].buf \in 1 .. made
    BY <1>1 DEF IInv, Numbered
  <2>4. Live \subseteq 1 .. made
    BY <2>1, <2>2, <2>3 DEF Live
  <2>5. IsFiniteSet(1 .. made) /\ Cardinality(1 .. made) = made
    BY <2>n, FS_Interval
  <2>6. IsFiniteSet(Live) /\ Cardinality(Live) <= made
    BY <2>4, <2>5, FS_Subset
  <2>7. Cardinality(Live) \in Nat
    BY <2>6, FS_CardinalityType
  <2>8. QED
    BY <2>6, <2>7, <2>n DEF BuffersBounded
<1>2. QED
  BY <1>1, Invariance, PTL
=============================================================================
