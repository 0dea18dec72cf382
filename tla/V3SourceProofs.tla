---------------------------- MODULE V3SourceProofs ----------------------------
(***************************************************************************)
(* Proofs about V3Source, for every bound on the server's and the tool's   *)
(* steps, and about the catalog it reads last (module Catalog), for every  *)
(* list of names and every bound.                                          *)
(***************************************************************************)
EXTENDS V3Source, V3Catalog, SequenceTheorems, FiniteSetTheorems, WellFoundedInduction, TLAPS

-----------------------------------------------------------------------------
(* Induction over the natural numbers, in a form without a parameter.      *)

(* A non-empty set of natural numbers has a least element.                 *)
LEMMA LeastElement ==
  ASSUME NEW T \in SUBSET Nat, T # {}
  PROVE  \E x \in T : \A y \in T : x <= y
<1>1. PICK x \in T : \A y \in T : ~ (<<y, x>> \in OpToRel(<, Nat))
  BY NatLessThanWellFounded, WFMin
<1>2. \A y \in T : ~ (y < x)
  BY <1>1 DEF OpToRel
<1>3. QED
  BY <1>2

(* Induction over the natural numbers.                                     *)
LEMMA SetInduction ==
  ASSUME NEW T, 0 \in T, \A n \in T \cap Nat : n + 1 \in T
  PROVE  Nat \subseteq T
<1>1. SUFFICES ASSUME Nat \ T # {} PROVE FALSE
  OBVIOUS
<1>2. PICK x \in Nat \ T : \A y \in Nat \ T : x <= y
  BY <1>1, LeastElement
<1>3. x - 1 \in T \cap Nat /\ (x - 1) + 1 = x
  BY <1>2
<1>4. (x - 1) + 1 \in T
  BY <1>3
<1>5. QED
  BY <1>2, <1>3, <1>4

(* A bounded non-empty set of natural numbers has a greatest element.      *)
LEMMA MaxOf ==
  ASSUME NEW n \in Nat, NEW S \in SUBSET (0 .. n), S # {}
  PROVE  Max(S) \in S /\ \A y \in S : y <= Max(S)
<1> DEFINE T == {m \in Nat : \A y \in S : y <= m}
<1>1. n \in T /\ T \in SUBSET Nat
  OBVIOUS
<1>2. PICK m \in T : \A k \in T : m <= k
  BY <1>1, LeastElement
<1>3. m \in S
  <2>1. SUFFICES ASSUME m \notin S PROVE FALSE
    OBVIOUS
  <2>2. \A y \in S : y \in Nat /\ y < m
    BY <1>2, <2>1
  <2>3. m - 1 \in T
    <3>1. m # 0
      <4>1. PICK y : y \in S
        OBVIOUS
      <4>2. y \in Nat /\ y < m
        BY <2>2, <4>1
      <4>3. QED
        BY <4>2
    <3>2. \A y \in S : y <= m - 1
      BY <2>2
    <3>3. QED
      BY <3>1, <3>2
  <2>4. QED
    BY <1>2, <2>3
<1>4. \A y \in S : m >= y
  BY <1>2
<1>5. QED
  BY <1>3, <1>4 DEF Max

-----------------------------------------------------------------------------
(* The store.                                                              *)

Removed(t) == snaps[t].removed

(* Columns are only added, and a write needs none that comes after it; a   *)
(* log file goes only once a snapshot covers it, and every snapshot covers *)
(* more than the one before it.                                            *)
LogSound ==
  /\ \A v, w \in 1 .. written : v <= w => needs[v] <= needs[w]
  /\ \A w \in 1 .. written : w \in wal \/ w <= Mark(Len(snaps))
  /\ \A s, t \in 0 .. Len(snaps) : s < t => Mark(s) < Mark(t)

(* A file is live unless a snapshot removed it or the index has forgotten  *)
(* it, and no metadata still says otherwise about a live file.             *)
MetadataSound ==
  /\ index.files \subseteq 1 .. index.floor
  /\ \A t \in Files : Removed(t) \subseteq 1 .. t - 1 /\ Removed(t) \cap server = {}
  /\ \A x \in server : x <= index.floor => x \in index.files
  /\ \A x \in Files \ server :
       \/ x <= index.floor /\ x \notin index.files
       \/ \E t \in Files : t > index.floor /\ x \in Removed(t)

(* The delta of a snapshot that removes files is there before those of the *)
(* files it removes, and outlives them.                                    *)
DeltasSound ==
  \A t \in Files : \A x \in Removed(t) :
    /\ t \in deltas \/ t <= index.floor
    /\ x \in deltas => t \in deltas

-----------------------------------------------------------------------------
(* A run.                                                                  *)

Listed   == run.pc \in {"index", "deltas", "wal", "catalog", "decode", "reconcile", "config",
                        "loading", "done"}
Built    == run.pc \in {"wal", "catalog", "decode", "reconcile", "config", "loading", "done"}
LogRead  == run.pc \in {"catalog", "decode"}
CatalogRead == run.pc \in {"decode", "reconcile", "config", "loading", "done"}
Decided  == run.pc \in {"reconcile", "config", "loading", "done"}

\* ix says that file x is gone, or a manifest among the first n does.
Forgotten(x, ix, n) ==
  \/ x <= ix.floor /\ x \notin ix.files
  \/ \E t \in 1 .. n : t > ix.floor /\ x \in Removed(t)

(* What the run knows of the files.                                        *)
FilesKnown ==
  /\ run.pc # "idle" => run.gone \cap server = {}
  /\ Listed => run.mark = Mark(run.seen) /\ run.gone \subseteq 1 .. run.seen
  /\ run.pc = "index" => \A x \in run.gone : Forgotten(x, index, run.seen)
  /\ run.pc = "deltas" =>
       /\ run.index.files \subseteq 1 .. run.index.floor
       /\ \A x \in run.gone : Forgotten(x, run.index, run.seen)
       /\ \A x \in server : x <= run.index.floor => x \in run.index.files
  /\ Built => /\ run.live \cap run.gone = {}
              /\ \A x \in server : x <= run.seen => x \in run.live

(* What the run knows of the log.                                          *)
LogKnown ==
  /\ run.pc \in {"index", "deltas", "wal"} /\ ~run.swept =>
       \A w \in 1 .. written : w > run.mark => w \in wal
  /\ ~Decided /\ run.pc # "refused" => run.decoded = {}
  /\ LogRead => /\ run.pending \subseteq run.mark + 1 .. run.flushed
                /\ ~run.swept => run.pending = run.mark + 1 .. run.flushed
  /\ Decided => /\ run.decoded \subseteq run.mark + 1 .. run.flushed
                /\ run.skip => run.decoded = {}
                /\ ~run.skip /\ ~run.swept => run.decoded = run.mark + 1 .. run.flushed

\* The writes whose columns the run will look up.
Described == run.pending \cup run.decoded \cup UNION {WritesOf(f) : f \in run.live}

(* What the run knows of the catalog.                                      *)
CatalogKnown ==
  /\ run.why # "column"
  /\ ~CatalogRead /\ run.pc # "refused" => run.catalog = "none"
  /\ CatalogRead /\ run.catalog = "fresh" =>
       /\ \A w \in Described : 1 .. needs[w] \subseteq run.columns
       /\ run.columns = {} => /\ run.seen = 0 /\ run.index.floor = 0
                              /\ run.live = {} /\ run.pending = {} /\ run.decoded = {}

(* As long as nobody touches the store, what was read is what is there.    *)
Undisturbed ==
  run.steps = 0 =>
    /\ run.pc # "idle" => run.gone = Files \ server
    /\ Listed => run.seen = Len(snaps)
    /\ LogRead => run.pending = Unsnapshotted(run.mark)
    /\ Decided => run.decoded = IF run.skip THEN {} ELSE Unsnapshotted(run.mark)

(* The checkpoint describes its input, and, until somebody touches the     *)
(* store, what another run would find.                                     *)
CheckpointSound ==
  checkpoint # NoCheckpoint =>
    /\ checkpoint.input.live = checkpoint.fp[1]
    /\ ~checkpoint.swept =>
         checkpoint.input.decoded = checkpoint.fp[2] + 1 .. checkpoint.fp[3]
    /\ ~touched =>
         checkpoint.fp = <<server, Mark(Len(snaps)),
                           Max({0} \cup IF checkpoint.skip THEN {}
                                        ELSE Unsnapshotted(Mark(Len(snaps))))>>

IInv ==
  /\ TypeOK
  /\ LogSound /\ MetadataSound /\ DeltasSound
  /\ FilesKnown /\ LogKnown /\ CatalogKnown /\ Undisturbed
  /\ CheckpointSound
  /\ RefusedForCause /\ SameInput
-----------------------------------------------------------------------------
(* The live set that a list of manifests and deltas makes.                 *)

\* g[m] is what base becomes by those of D among the first m.
Applies(g, base, floor, D, n) ==
  g = [s \in 0 .. n |-> IF s = 0 THEN base
                        ELSE IF s \in D THEN Applied(floor, g[s-1], s) ELSE g[s-1]]

\* The snapshots of D only remove files older than their own.
Older(D) == \A t \in D : Removed(t) \subseteq 1 .. t - 1

\* What base becomes by D.
Result(files, base, floor, D) ==
  \A x : x \in files <=> /\ x \in base \/ (x \in D /\ x > floor)
                         /\ ~ \E t \in D : t > floor /\ x \in Removed(t)

LEMMA AppliesExists ==
  ASSUME NEW base, NEW floor, NEW D, NEW n \in Nat
  PROVE  \E g : Applies(g, base, floor, D, n)
<1> DEFINE N == {m \in Nat : \E g : Applies(g, base, floor, D, m)}
<1>1. 0 \in N
  <2>1. Applies([s \in 0 .. 0 |-> base], base, floor, D, 0)
    BY DEF Applies
  <2>2. QED
    BY <2>1
<1>2. ASSUME NEW m \in N \cap Nat PROVE m + 1 \in N
  <2>1. PICK g : Applies(g, base, floor, D, m)
    OBVIOUS
  <2> DEFINE last == IF m + 1 \in D THEN Applied(floor, g[m], m + 1) ELSE g[m]
             h == [s \in 0 .. m + 1 |-> IF s \in 0 .. m THEN g[s] ELSE last]
  <2>2. ASSUME NEW s \in 0 .. m + 1
        PROVE  h[s] = IF s = 0 THEN base
                      ELSE IF s \in D THEN Applied(floor, h[s-1], s) ELSE h[s-1]
    <3>1. CASE s = 0
      BY <2>1, <3>1 DEF Applies
    <3>2. CASE s \in 1 .. m
      <4>1. h[s] = g[s] /\ h[s-1] = g[s-1] /\ s # 0
        BY <3>2
      <4>2. g[s] = IF s \in D THEN Applied(floor, g[s-1], s) ELSE g[s-1]
        BY <2>1, <3>2 DEF Applies
      <4>3. QED
        BY <4>1, <4>2
    <3>3. CASE s = m + 1
      <4>1. h[s] = last /\ h[s-1] = g[m] /\ s # 0
        BY <3>3
      <4>2. QED
        BY <4>1, <3>3
    <3>4. QED
      BY <3>1, <3>2, <3>3
  <2>3. Applies(h, base, floor, D, m + 1)
    BY <2>2 DEF Applies
  <2>4. QED
    <3> HIDE DEF h
    <3> QED BY <2>3
<1>3. Nat \subseteq N
  <2> HIDE DEF N
  <2> QED BY <1>1, <1>2, SetInduction
<1>4. QED
  BY <1>3

(* A file is in the result if it was there or was added, and nothing that  *)
(* was applied removes it: a snapshot only removes files older than its    *)
(* own.                                                                    *)
LEMMA AppliedFiles ==
  ASSUME NEW base, NEW floor \in Nat, NEW n \in Nat, NEW D \in SUBSET (1 .. n), NEW g,
         Applies(g, base, floor, D, n), Older(D)
  PROVE  Result(g[n], base, floor, D)
<1> DEFINE Cut(x, m) == \E t \in D : t <= m /\ t > floor /\ x \in Removed(t)
           Had(x, m) == x \in base \/ (x \in D /\ x <= m /\ x > floor)
           Is(m) == \A x : x \in g[m] <=> Had(x, m) /\ ~Cut(x, m)
           N == {m \in Nat : m <= n => Is(m)}
<1>0. \A t \in D : Removed(t) \subseteq 1 .. t - 1
  BY DEF Older
<1>1. 0 \in N
  <2>1. g[0] = base
    BY DEF Applies
  <2>2. \A t \in D : ~ (t <= 0)
    OBVIOUS
  <2>3. \A x : ~Cut(x, 0)
    BY <2>2
  <2>4. \A x : Had(x, 0) <=> x \in base
    BY <2>2
  <2> HIDE DEF Cut, Had
  <2>5. Is(0)
    BY <2>1, <2>3, <2>4
  <2>6. QED
    BY <2>5
<1>2. ASSUME NEW m \in N \cap Nat PROVE m + 1 \in N
  <2>1. SUFFICES ASSUME m + 1 <= n PROVE Is(m + 1)
    OBVIOUS
  <2>2. Is(m)
    <3> HIDE DEF Is
    <3> QED BY <2>1
  <2>3. g[m + 1] = IF m + 1 \in D THEN Applied(floor, g[m], m + 1) ELSE g[m]
    BY <2>1 DEF Applies
  <2>4. \A x \in D : x <= m + 1 <=> (x <= m \/ x = m + 1)
    OBVIOUS
  <2>5. \A x : Cut(x, m + 1) <=> \/ Cut(x, m)
                                 \/ m + 1 \in D /\ m + 1 > floor /\ x \in Removed(m + 1)
    <3>1. m + 1 <= m + 1
      OBVIOUS
    <3>2. QED
      BY ONLY <2>4, <3>1
  <2>6. \A x : Had(x, m + 1) <=> Had(x, m) \/ (m + 1 \in D /\ m + 1 > floor /\ x = m + 1)
    <3>1. m + 1 <= m + 1
      OBVIOUS
    <3>2. QED
      BY ONLY <2>4, <3>1
  <2>7. m + 1 \in D => ~Cut(m + 1, m) /\ m + 1 \notin Removed(m + 1)
    <3>1. \A t \in D : t <= m + 1 => m + 1 \notin Removed(t)
      <4>1. \A t \in D : t <= m + 1 => m + 1 \notin 1 .. t - 1
        OBVIOUS
      <4>2. QED
        BY <1>0, <4>1
    <3>2. QED
      BY <2>4, <3>1
  <2> HIDE DEF Cut, Had
  <2>8. CASE ~ (m + 1 \in D /\ m + 1 > floor)
    <3>1. g[m + 1] = g[m]
      BY <2>3, <2>8 DEF Applied
    <3>2. QED
      BY <2>2, <2>5, <2>6, <2>8, <3>1
  <2>9. CASE m + 1 \in D /\ m + 1 > floor
    <3>1. g[m + 1] = (g[m] \cup {m + 1}) \ Removed(m + 1)
      BY <2>3, <2>9 DEF Applied, Removed
    <3>2. QED
      BY <2>2, <2>5, <2>6, <2>7, <2>9, <3>1
  <2>10. QED
    BY <2>8, <2>9
<1>3. Nat \subseteq N
  <2> HIDE DEF N
  <2> QED BY <1>1, <1>2, SetInduction
<1>4. Is(n)
  <2> HIDE DEF Is
  <2> QED BY <1>3
<1>5. \A x \in D : x <= n
  OBVIOUS
<1>6. \A x : Had(x, n) <=> x \in base \/ (x \in D /\ x > floor)
  BY ONLY <1>5
<1>7. \A x : Cut(x, n) <=> \E t \in D : t > floor /\ x \in Removed(t)
  BY ONLY <1>5
<1> HIDE DEF Cut, Had
<1>8. QED
  BY <1>4, <1>6, <1>7 DEF Result

LEMMA LiveSet ==
  ASSUME Len(snaps) \in Nat, NEW n \in 0 .. Len(snaps), NEW ix, ix.floor \in Nat,
         NEW ds \in SUBSET Files, \A t \in Files : Removed(t) \subseteq 1 .. t - 1
  PROVE  \A x : x \in BuildLiveSet(n, ix, ds) <=>
           /\ \/ /\ x \in ix.files \/ (x \in 1 .. n /\ x > ix.floor)
                 /\ ~ \E t \in 1 .. n : t > ix.floor /\ x \in Removed(t)
              \/ x \in ds /\ x > ix.floor
           /\ ~ \E t \in ds : t > ix.floor /\ x \in Removed(t)
<1> DEFINE IsM(g) == g = [s \in 0 .. n |-> IF s = 0 THEN ix.files
                                           ELSE Applied(ix.floor, g[s-1], s)]
           manifests == CHOOSE g : IsM(g)
           IsD(g) == g = [s \in 0 .. Len(snaps) |->
                            IF s = 0 THEN manifests[n]
                            ELSE IF s \in ds THEN Applied(ix.floor, g[s-1], s) ELSE g[s-1]]
           withDeltas == CHOOSE g : IsD(g)
<1>1. BuildLiveSet(n, ix, ds) = withDeltas[Len(snaps)]
  BY DEF BuildLiveSet
<1>2. IsM(manifests)
  <2>1. PICK g : Applies(g, ix.files, ix.floor, 1 .. n, n)
    BY AppliesExists, SMTT(20)
  <2>2. \A s \in 0 .. n : s # 0 => s \in 1 .. n
    OBVIOUS
  <2>3. IsM(g)
    BY <2>1, <2>2 DEF Applies
  <2> HIDE DEF IsM
  <2>4. QED
    BY <2>3
<1> HIDE DEF manifests
<1>3. Applies(manifests, ix.files, ix.floor, 1 .. n, n)
  <2>1. \A s \in 0 .. n : s # 0 => s \in 1 .. n
    OBVIOUS
  <2>2. QED
    BY <1>2, <2>1 DEF Applies
<1>4. IsD(withDeltas)
  <2>1. PICK g : Applies(g, manifests[n], ix.floor, ds, Len(snaps))
    BY AppliesExists
  <2>2. IsD(g)
    BY <2>1 DEF Applies
  <2> HIDE DEF IsD
  <2>3. QED
    BY <2>2
<1> HIDE DEF withDeltas
<1>5. Applies(withDeltas, manifests[n], ix.floor, ds, Len(snaps))
  BY <1>4 DEF Applies
<1>6. n \in Nat /\ ix.floor \in Nat /\ 1 .. n \in SUBSET (1 .. n)
      /\ ds \in SUBSET (1 .. Len(snaps)) /\ Len(snaps) \in Nat
  BY DEF Files
<1>61. \A t \in 1 .. n : Removed(t) \subseteq 1 .. t - 1
  BY DEF Files
<1>62. \A t \in ds : Removed(t) \subseteq 1 .. t - 1
  OBVIOUS
<1>7. \A x : x \in manifests[n] <=> /\ x \in ix.files \/ (x \in 1 .. n /\ x > ix.floor)
                                    /\ ~ \E t \in 1 .. n : t > ix.floor /\ x \in Removed(t)
  <2>1. Older(1 .. n)
    BY <1>61 DEF Older
  <2>2. Result(manifests[n], ix.files, ix.floor, 1 .. n)
    BY ONLY <1>3, <1>6, <2>1, AppliedFiles
  <2>3. QED
    BY <2>2 DEF Result
<1>8. \A x : x \in withDeltas[Len(snaps)] <=>
               /\ x \in manifests[n] \/ (x \in ds /\ x > ix.floor)
               /\ ~ \E t \in ds : t > ix.floor /\ x \in Removed(t)
  <2>1. Older(ds)
    BY <1>62 DEF Older
  <2>2. Result(withDeltas[Len(snaps)], manifests[n], ix.floor, ds)
    BY ONLY <1>5, <1>6, <2>1, AppliedFiles
  <2>3. QED
    BY <2>2 DEF Result
<1>9. QED
  BY <1>1, <1>7, <1>8
-----------------------------------------------------------------------------
(* Small facts.                                                            *)

\* The end of the decoded log tells what was decoded.
LEMMA DecodedEnd ==
  ASSUME NEW m \in Nat, NEW n \in Nat
  PROVE  /\ Max({0} \cup (m + 1 .. n)) \in Nat
         /\ m + 1 .. n = m + 1 .. Max({0} \cup (m + 1 .. n))
<1> DEFINE S == {0} \cup (m + 1 .. n)
<1>1. S \in SUBSET (0 .. n) /\ S # {}
  OBVIOUS
<1>2. Max(S) \in S /\ \A y \in S : y <= Max(S)
  BY <1>1, MaxOf
<1>3. CASE m + 1 <= n
  <2>1. n \in S
    BY <1>3
  <2>2. Max(S) = n
    <3>1. PICK k \in S : k = Max(S)
      BY <1>2
    <3>2. n <= k /\ k <= n /\ k \in Nat
      BY <1>2, <2>1, <3>1
    <3>3. QED
      BY <3>1, <3>2
  <2>3. QED
    BY <2>2
<1>4. CASE ~ (m + 1 <= n)
  <2>1. S = {0}
    BY <1>4
  <2>2. Max(S) = 0
    BY <1>2, <2>1
  <2>3. QED
    BY <1>4, <2>2
<1>5. QED
  BY <1>3, <1>4

LEMMA MaxIsNatural ==
  ASSUME NEW n \in Nat, NEW S \in SUBSET (1 .. n)
  PROVE  Max({0} \cup S) \in Nat
<1>1. {0} \cup S \in SUBSET (0 .. n) /\ {0} \cup S # {}
  OBVIOUS
<1>2. Max({0} \cup S) \in {0} \cup S
  BY <1>1, MaxOf
<1>3. PICK k \in {0} \cup S : k = Max({0} \cup S)
  BY <1>2
<1>4. k \in Nat
  OBVIOUS
<1>5. QED
  BY <1>3, <1>4

LEMMA MarkType ==
  ASSUME TypeOK
  PROVE  /\ Len(snaps) \in Nat /\ written \in Nat
         /\ \A t \in 0 .. Len(snaps) : Mark(t) \in 0 .. written
<1>1. Len(snaps) \in Nat /\ written \in Nat
  BY DEF TypeOK, written
<1>2. ASSUME NEW t \in 1 .. Len(snaps) PROVE snaps[t].mark \in 1 .. written
  <2> DEFINE Manifests == [mark : 1 .. written, removed : SUBSET Files]
  <2>1. snaps[t] \in Manifests
    <3>1. snaps \in Seq(Manifests)
      BY DEF TypeOK
    <3> HIDE DEF Manifests
    <3>2. QED
      BY <3>1, ElementOfSeq
  <2>2. QED
    BY <2>1
<1>3. ASSUME NEW t \in 0 .. Len(snaps) PROVE Mark(t) \in 0 .. written
  <2>1. CASE t = 0
    BY <1>1, <2>1 DEF Mark
  <2>2. CASE t # 0
    <3>1. t \in 1 .. Len(snaps)
      BY <1>1, <2>2
    <3>2. QED
      BY <1>1, <1>2, <2>2, <3>1 DEF Mark
  <2>3. QED
    BY <2>1, <2>2
<1>4. QED
  BY <1>1, <1>3

\* Each write that a snapshot covers is in one file.
LEMMA Tiling ==
  ASSUME TypeOK, NEW n \in 0 .. Len(snaps), NEW w \in Nat, 1 <= w, w <= Mark(n)
  PROVE  \E f \in 1 .. n : w \in WritesOf(f)
<1>1. Len(snaps) \in Nat /\ \A t \in 0 .. Len(snaps) : Mark(t) \in Nat
  BY MarkType
<1> DEFINE T == {t \in 0 .. n : w <= Mark(t)}
<1>2. n \in T /\ T \in SUBSET Nat
  OBVIOUS
<1>3. PICK f \in T : \A t \in T : f <= t
  BY <1>2, LeastElement
<1>4. f # 0
  BY <1>3 DEF Mark
<1>5. f - 1 \in 0 .. n /\ f - 1 \notin T /\ f \in 1 .. n
  BY <1>1, <1>3, <1>4
<1>6. ~ (w <= Mark(f - 1)) /\ Mark(f - 1) \in Nat /\ w <= Mark(f) /\ Mark(f) \in Nat
  BY <1>1, <1>3, <1>5
<1>7. w \in WritesOf(f)
  BY <1>6 DEF WritesOf
<1>8. QED
  BY <1>5, <1>7
-----------------------------------------------------------------------------
(* What a step of the server leaves alone.                                 *)

Reading(r) == <<r.pc, r.why, r.skip, r.seen, r.mark, r.index, r.live, r.pending,
                r.catalog, r.columns, r.decoded, r.gone, r.flushed>>

\* The run goes on, and only notes that the server was there.
Passing ==
  /\ Reading(run') = Reading(run)
  /\ run.swept => run'.swept
  /\ run.pc \notin {"refused", "done"}
  /\ run.pc # "idle" => run'.steps # 0
  /\ runs' = runs /\ checkpoint' = checkpoint /\ touched' = (checkpoint # NoCheckpoint)

\* What was written stays, and a file once dropped is not live again.
Growing ==
  /\ written <= written' /\ \A w \in 1 .. written : needs'[w] = needs[w]
  /\ Len(snaps) <= Len(snaps') /\ \A t \in Files : snaps'[t] = snaps[t]
  /\ columns <= columns'
  /\ \A x \in server' : x \in server \/ x \notin Files

LEMMA CountedRun ==
  ASSUME NEW r \in Runs, MayAct, r.pc = run.pc, r.steps = run.steps
  PROVE  /\ Counted(r) \in Runs
         /\ Reading(Counted(r)) = Reading(r)
         /\ Counted(r).swept = r.swept
         /\ run.pc \notin {"refused", "done"}
         /\ run.pc # "idle" => Counted(r).steps # 0
<1>1. CASE run.pc = "idle"
  <2>1. Counted(r) = r
    BY <1>1 DEF Counted, Busy
  <2>2. QED
    BY <1>1, <2>1
<1>2. CASE run.pc # "idle"
  <2>1. Counted(r) = [r EXCEPT !.steps = @ + 1] /\ run.pc \notin {"refused", "done"}
    BY <1>2 DEF Counted, Busy, MayAct
  <2>2. r.steps \in 0 .. MaxSteps /\ r.steps + 1 \in 0 .. MaxSteps
    <3>1. MaxSteps \in Nat
      BY BoundsAssumption
    <3>2. r.steps \in 0 .. MaxSteps
      BY DEF Runs
    <3>3. r.steps < MaxSteps
      BY <1>2 DEF MayAct
    <3>4. QED
      BY <3>1, <3>2, <3>3
  <2>3. Counted(r) \in Runs
    BY <2>1, <2>2 DEF Runs
  <2>4. Counted(r).steps = r.steps + 1 /\ r.steps + 1 # 0 /\ Counted(r).swept = r.swept
    <3>1. Counted(r).steps = r.steps + 1 /\ Counted(r).swept = r.swept
      BY <2>1 DEF Runs
    <3>2. QED
      BY <2>2, <3>1
  <2>5. Reading(Counted(r)) = Reading(r)
    BY <2>1 DEF Reading, Runs
  <2>6. QED
    BY <2>1, <2>3, <2>4, <2>5
<1>3. QED
  BY <1>1, <1>2

LEMMA ServerPasses ==
  ASSUME TypeOK, Server
  PROVE  Passing /\ run' \in Runs
<1>1. run \in Runs
  BY DEF TypeOK
<1>2. CASE Noticed
  <2>1. run' = Counted(run) /\ MayAct
    BY <1>2 DEF Noticed
  <2>2. QED
    BY <1>1, <1>2, <2>1, CountedRun DEF Noticed, Passing
<1>3. CASE CleanWAL
  <2>1. PICK w \in wal : run' = Counted([run EXCEPT
                 !.swept = @ \/ (run.pc \in {"index", "deltas", "wal"} /\ w > run.mark)])
    BY <1>3 DEF CleanWAL
  <2> DEFINE r == [run EXCEPT
                 !.swept = @ \/ (run.pc \in {"index", "deltas", "wal"} /\ w > run.mark)]
  <2>2. r \in Runs /\ r.pc = run.pc /\ r.steps = run.steps
    BY <1>1 DEF Runs
  <2>3. Reading(r) = Reading(run) /\ (run.swept => r.swept)
    BY <1>1 DEF Reading, Runs
  <2>4. MayAct /\ run' = Counted(r)
    BY <1>3, <2>1 DEF CleanWAL
  <2> HIDE DEF r
  <2>5. QED
    BY <1>3, <2>2, <2>3, <2>4, CountedRun DEF CleanWAL, Passing
<1>4. QED
  BY <1>2, <1>3 DEF Server, Write, Snapshot, WriteDelta, RewriteIndex, DropDelta, Compact,
                    DeleteObject

LEMMA ColumnsType ==
  ASSUME NEW s \in Seq(1 .. MaxColumns)
  PROVE  (IF s = <<>> THEN 0 ELSE Last(s)) \in Nat
<1>1. CASE s # <<>>
  <2>1. Len(s) \in 1 .. Len(s)
    BY <1>1, EmptySeq
  <2>2. s[Len(s)] \in 1 .. MaxColumns
    BY <2>1, ElementOfSeq
  <2>3. QED
    BY <1>1, <2>2 DEF Last
<1>2. QED
  BY <1>1

LEMMA ServerGrows ==
  ASSUME TypeOK, Server
  PROVE  Growing
<1>1. needs \in Seq(1 .. MaxColumns) /\ written \in Nat /\ Len(snaps) \in Nat
  BY DEF TypeOK, written
<1> DEFINE Manifests == [mark : 1 .. written, removed : SUBSET Files]
<1>2. snaps \in Seq(Manifests)
  BY DEF TypeOK
<1>3. columns \in Nat
  BY <1>1, ColumnsType DEF columns
<1>4. CASE Write
  <2>1. PICK n \in {columns, columns + 1} :
           /\ n \in 1 .. MaxColumns /\ needs' = Append(needs, n)
           /\ UNCHANGED <<snaps, server>>
    BY <1>4 DEF Write
  <2>2. /\ Len(needs') = Len(needs) + 1 /\ needs' # <<>>
        /\ \A w \in 1 .. Len(needs) : needs'[w] = needs[w]
        /\ needs'[Len(needs) + 1] = n
    BY <1>1, <2>1, AppendProperties
  <2>3. columns' = n
    BY <2>2 DEF columns, Last
  <2>4. columns <= columns'
    BY <1>3, <2>1, <2>3
  <2>5. written <= written' /\ \A w \in 1 .. written : needs'[w] = needs[w]
    BY <1>1, <2>2 DEF written
  <2>6. Len(snaps) <= Len(snaps') /\ \A t \in Files : snaps'[t] = snaps[t]
    BY <1>1, <2>1
  <2>7. \A x \in server' : x \in server \/ x \notin Files
    BY <2>1
  <2>8. QED
    BY <2>4, <2>5, <2>6, <2>7 DEF Growing
<1>5. CASE Snapshot
  <2>1. PICK hi \in Mark(Len(snaps)) + 1 .. written, drop \in SUBSET server :
           /\ snaps' = Append(snaps, [mark |-> hi, removed |-> drop])
           /\ server' = (server \ drop) \cup {Len(snaps) + 1}
           /\ UNCHANGED needs
    BY <1>5 DEF Snapshot
  <2>2. [mark |-> hi, removed |-> drop] \in Manifests
    <3>1. Mark(Len(snaps)) \in Nat
      BY <1>1, MarkType
    <3>2. hi \in 1 .. written
      BY <1>1, <3>1
    <3>3. drop \in SUBSET Files
      BY DEF TypeOK
    <3>4. QED
      BY <3>2, <3>3
  <2> HIDE DEF Manifests
  <2>3. Len(snaps') = Len(snaps) + 1 /\ \A t \in 1 .. Len(snaps) : snaps'[t] = snaps[t]
    BY <1>2, <2>1, <2>2, AppendProperties
  <2>4. columns' = columns /\ written' = written
    BY <2>1 DEF columns, written
  <2>5. Len(snaps) <= Len(snaps') /\ \A t \in Files : snaps'[t] = snaps[t]
    BY <1>1, <2>3 DEF Files
  <2>6. Len(snaps) + 1 \notin Files
    BY <1>1 DEF Files
  <2>7. \A x \in server' : x \in server \/ x \notin Files
    BY <2>1, <2>6
  <2>8. written <= written' /\ columns <= columns' /\ \A w \in 1 .. written : needs'[w] = needs[w]
    BY <1>1, <1>3, <2>1, <2>4
  <2>9. QED
    BY <2>5, <2>7, <2>8 DEF Growing
<1>6. CASE UNCHANGED <<needs, snaps>> /\ server' \subseteq server
  <2>1. columns' = columns /\ written' = written
    BY <1>6 DEF columns, written
  <2>2. QED
    BY <1>1, <1>3, <1>6, <2>1 DEF Growing
<1>7. QED
  BY <1>4, <1>5, <1>6 DEF Server, WriteDelta, RewriteIndex, DropDelta, Compact,
                          DeleteObject, CleanWAL
-----------------------------------------------------------------------------
(* Types.                                                                  *)

LEMMA RunsGrow ==
  ASSUME TypeOK, Growing, run' \in Runs, written' \in Nat, Len(snaps') \in Nat, columns' \in Nat
  PROVE  run' \in Runs'
<1>1. Len(snaps) \in Nat /\ written \in Nat
  BY MarkType
<1>2. columns \in Nat
  BY ColumnsType DEF TypeOK, columns
<1>3. /\ Files \subseteq Files' /\ 0 .. Len(snaps) \subseteq (0 .. Len(snaps))'
      /\ 0 .. written \subseteq (0 .. written)' /\ 1 .. written \subseteq (1 .. written)'
      /\ 1 .. columns \subseteq (1 .. columns)'
  BY <1>1, <1>2 DEF Growing, Files
<1>4. Indexes \subseteq Indexes'
  BY <1>3 DEF Indexes
<1>5. QED
  BY <1>3, <1>4 DEF Runs

LEMMA TypeServer ==
  ASSUME TypeOK, Server
  PROVE  TypeOK'
<1>1. Growing /\ Passing /\ run' \in Runs
  BY ServerPasses, ServerGrows
<1> DEFINE Manifests == [mark : 1 .. written, removed : SUBSET Files]
<1>2. /\ Len(snaps) \in Nat /\ written \in Nat /\ snaps \in Seq(Manifests)
      /\ needs \in Seq(1 .. MaxColumns)
  BY MarkType DEF TypeOK
<1>3. /\ needs' \in Seq(1 .. MaxColumns) /\ wal' \subseteq (1 .. written)'
      /\ snaps' \in Seq([mark : 1 .. written, removed : SUBSET Files])'
      /\ index' \in Indexes' /\ deltas' \subseteq Files'
      /\ objects' \subseteq Files' /\ server' \subseteq Files'
      /\ compactor' \in BOOLEAN
  <2>1. CASE Write
    <3>1. PICK n \in 1 .. MaxColumns : /\ needs' = Append(needs, n) /\ wal' = wal \cup {written + 1}
                                       /\ UNCHANGED <<snaps, index, deltas, objects, compactor, server>>
      BY <2>1 DEF Write
    <3>2. needs' \in Seq(1 .. MaxColumns) /\ Len(needs') = Len(needs) + 1
      BY <1>2, <3>1, AppendProperties
    <3>3. 1 .. written \subseteq (1 .. written)' /\ written + 1 \in (1 .. written)'
      BY <1>2, <3>2 DEF written
    <3>4. wal' \subseteq (1 .. written)'
      BY <3>1, <3>3 DEF TypeOK
    <3>5. snaps' \in Seq([mark : 1 .. written, removed : SUBSET Files])'
      <4>1. Files' = Files
        BY <3>1 DEF Files
      <4>2. Manifests \subseteq [mark : (1 .. written)', removed : SUBSET Files']
        BY <3>3, <4>1
      <4>3. snaps \in Seq([mark : (1 .. written)', removed : SUBSET Files'])
        <5> HIDE DEF Manifests
        <5>1. QED
          BY <1>2, <4>2, SeqMonotonic
      <4>4. QED
        BY <3>1, <4>3
    <3>6. Indexes' = Indexes /\ Files' = Files
      BY <3>1 DEF Indexes, Files
    <3>7. QED
      BY <3>1, <3>2, <3>4, <3>5, <3>6 DEF TypeOK
  <2>2. CASE Snapshot
    <3>1. PICK hi \in Mark(Len(snaps)) + 1 .. written, drop \in SUBSET server :
             /\ snaps' = Append(snaps, [mark |-> hi, removed |-> drop])
             /\ objects' = objects \cup {Len(snaps) + 1}
             /\ server' = (server \ drop) \cup {Len(snaps) + 1}
             /\ deltas' = deltas \/ deltas' = deltas \cup {Len(snaps) + 1}
             /\ UNCHANGED <<needs, wal, index, compactor>>
      BY <2>2 DEF Snapshot
    <3>2. [mark |-> hi, removed |-> drop] \in Manifests
      <4>1. Mark(Len(snaps)) \in Nat
        BY <1>2, MarkType
      <4>2. hi \in 1 .. written
        BY <1>2, <4>1
      <4>3. drop \in SUBSET Files
        BY DEF TypeOK
      <4>4. QED
        BY <4>2, <4>3
    <3>3. snaps' \in Seq(Manifests) /\ Len(snaps') = Len(snaps) + 1
      <4> HIDE DEF Manifests
      <4>1. QED
        BY <1>2, <3>1, <3>2, AppendProperties
    <3>4. Files \subseteq Files' /\ Len(snaps) + 1 \in Files' /\ written' = written
          /\ 0 .. Len(snaps) \subseteq (0 .. Len(snaps))'
      BY <1>2, <3>1, <3>3 DEF Files, written
    <3>5. snaps' \in Seq([mark : 1 .. written, removed : SUBSET Files])'
      <4>1. Manifests \subseteq [mark : (1 .. written)', removed : SUBSET Files']
        BY <3>4
      <4>2. snaps' \in Seq([mark : (1 .. written)', removed : SUBSET Files'])
        <5> HIDE DEF Manifests
        <5>1. QED
          BY <3>3, <4>1, SeqMonotonic
      <4>3. QED
        BY <4>2
    <3>6. Indexes \subseteq Indexes'
      BY <3>4 DEF Indexes
    <3>7. QED
      BY <3>1, <3>4, <3>5, <3>6 DEF TypeOK
  <2>3. CASE RewriteIndex
    <3>1. PICK purge \in SUBSET server :
             /\ index' = [files |-> server \ purge, floor |-> Len(snaps)]
             /\ server' = server \ purge
             /\ UNCHANGED <<needs, wal, snaps, deltas, objects, compactor>>
      BY <2>3 DEF RewriteIndex
    <3>2. index' \in Indexes
      BY <1>2, <3>1 DEF Indexes, TypeOK
    <3>3. Indexes' = Indexes /\ Files' = Files /\ written' = written
      BY <3>1 DEF Indexes, Files, written
    <3>4. QED
      BY <3>1, <3>2, <3>3 DEF TypeOK
  <2>4. CASE /\ UNCHANGED <<needs, snaps, index, server>>
             /\ wal' \subseteq wal /\ deltas' \subseteq Files /\ objects' \subseteq objects
             /\ compactor' \in BOOLEAN
    <3>1. Indexes' = Indexes /\ Files' = Files /\ written' = written
      BY <2>4 DEF Indexes, Files, written
    <3>2. QED
      BY <2>4, <3>1 DEF TypeOK
  <2>5. WriteDelta => deltas' \subseteq Files
    BY DEF WriteDelta, TypeOK
  <2>6. QED
    BY <2>1, <2>2, <2>3, <2>4, <2>5
       DEF Server, WriteDelta, DropDelta, Compact, DeleteObject, CleanWAL, TypeOK
<1>4. run' \in Runs'
  <2>1. written' \in Nat /\ Len(snaps') \in Nat
    BY <1>3 DEF written
  <2>2. columns' \in Nat
    BY <1>3, ColumnsType DEF columns
  <2>3. QED
    BY <1>1, <2>1, <2>2, RunsGrow
<1>5. runs' \in 0 .. MaxRuns /\ touched' \in BOOLEAN
      /\ (checkpoint = NoCheckpoint \/ checkpoint \in Checkpoints)'
  BY <1>1 DEF Passing, TypeOK, Checkpoints, NoCheckpoint
<1>6. QED
  BY <1>3, <1>4, <1>5 DEF TypeOK
LEMMA LiveFiles ==
  ASSUME TypeOK, MetadataSound, run.pc = "deltas"
  PROVE  BuildLiveSet(run.seen, run.index, deltas) \subseteq Files
<1>1. Len(snaps) \in Nat /\ run.seen \in 0 .. Len(snaps) /\ run.index \in Indexes
      /\ deltas \in SUBSET Files
  BY MarkType DEF TypeOK, Runs
<1>2. run.index.floor \in Nat /\ run.index.files \subseteq Files
  BY <1>1 DEF Indexes
<1>3. 1 .. run.seen \subseteq Files
  BY <1>1 DEF Files
<1>4. \A t \in Files : Removed(t) \subseteq 1 .. t - 1
  BY DEF MetadataSound
<1>5. \A x : x \in BuildLiveSet(run.seen, run.index, deltas) =>
               x \in run.index.files \/ x \in 1 .. run.seen \/ x \in deltas
  BY <1>1, <1>2, <1>4, LiveSet
<1>6. QED
  BY <1>1, <1>2, <1>3, <1>5

LEMMA TypeTool ==
  ASSUME TypeOK, MetadataSound, Tool
  PROVE  TypeOK'
<1>1. run \in Runs /\ Len(snaps) \in Nat /\ written \in Nat /\ columns \in Nat
  BY MarkType, ColumnsType DEF TypeOK, columns
<1>2. Idle \in Runs
  <2>1. MaxSteps \in Nat
    BY BoundsAssumption
  <2>2. 0 \in 0 .. MaxSteps /\ 0 \in 0 .. Len(snaps) /\ 0 \in 0 .. written
    BY <1>1, <2>1
  <2>3. QED
    BY <2>2 DEF Idle, Runs, Indexes
<1>3. ASSUME UNCHANGED store, run' \in Runs, runs' \in 0 .. MaxRuns, touched' \in BOOLEAN,
             checkpoint' = NoCheckpoint \/ checkpoint' \in Checkpoints
      PROVE  TypeOK'
  <2>1. Runs' = Runs /\ Indexes' = Indexes /\ Files' = Files /\ written' = written
    BY <1>3 DEF store, Runs, Indexes, Files, written, columns
  <2>2. QED
    BY <1>3, <2>1 DEF TypeOK, store
<1>4. ASSUME NEW r \in Runs, Becomes(r) PROVE TypeOK'
  BY <1>3, <1>4 DEF Becomes, TypeOK
<1>5. ASSUME NEW why \in {"catalog", "vanished", "column", "dangling", "empty", "names", "settings"},
             Refuse(why)
      PROVE  TypeOK'
  <2>1. run' \in Runs
    BY <1>1, <1>5 DEF Refuse, Runs
  <2>2. QED
    BY <1>3, <1>5, <2>1 DEF Refuse, TypeOK
<1>6. CASE Start
  <2>1. run' \in Runs
    <3>1. Files \ server \in SUBSET Files
      OBVIOUS
    <3>2. PICK skip \in BOOLEAN :
            run' = [Idle EXCEPT !.pc = IF compactor THEN "refused" ELSE "manifests",
                                !.why = IF compactor THEN "compactor" ELSE "",
                                !.skip = skip, !.gone = Files \ server]
      BY <1>6 DEF Start
    <3>3. QED
      BY <1>2, <3>1, <3>2 DEF Runs
  <2>2. runs' \in 0 .. MaxRuns
    <3>1. MaxRuns \in Nat /\ runs \in 0 .. MaxRuns /\ runs < MaxRuns /\ runs' = runs + 1
      BY <1>6, BoundsAssumption DEF Start, TypeOK
    <3>2. QED
      BY <3>1
  <2>3. QED
    BY <1>3, <1>6, <2>1, <2>2 DEF Start, TypeOK
<1>7. CASE LoadSnapshots
  <2>1. Mark(Len(snaps)) \in 0 .. written /\ Len(snaps) \in 0 .. Len(snaps)
    BY <1>1, MarkType
  <2>2. [run EXCEPT !.pc = "index", !.seen = Len(snaps), !.mark = NewestMark(Len(snaps))] \in Runs
    BY <1>1, <2>1 DEF Runs, NewestMark
  <2>3. QED
    BY <1>4, <1>7, <2>2 DEF LoadSnapshots
<1>8. CASE LoadIndex
  <2>1. [run EXCEPT !.pc = "deltas", !.index = index] \in Runs
    BY <1>1 DEF Runs, TypeOK
  <2>2. QED
    BY <1>4, <1>8, <2>1 DEF LoadIndex
<1>9. CASE LoadDeltas
  <2> DEFINE live == BuildLiveSet(run.seen, run.index, deltas)
             r == [run EXCEPT !.pc = "wal", !.live = live, !.index.files = {}]
  <2>1. live \subseteq Files
    BY <1>9, LiveFiles DEF LoadDeltas
  <2>2. Becomes(r)
    BY <1>9 DEF LoadDeltas
  <2> HIDE DEF live
  <2>3. r \in Runs
    BY <1>1, <2>1 DEF Runs, Indexes
  <2>4. QED
    BY <1>4, <2>2, <2>3
<1>10. CASE CheckWAL
  <2>1. Unsnapshotted(run.mark) \in SUBSET (1 .. written) /\ written \in 0 .. written
    <3>1. wal \subseteq 1 .. written
      BY DEF TypeOK
    <3>2. Unsnapshotted(run.mark) \subseteq wal
      BY DEF Unsnapshotted
    <3>3. written \in 0 .. written
      BY <1>1
    <3>4. QED
      BY <3>1, <3>2, <3>3
  <2>2. [run EXCEPT !.pc = "catalog", !.pending = Unsnapshotted(run.mark), !.flushed = written] \in Runs
    BY <1>1, <2>1 DEF Runs
  <2>3. QED
    BY <1>4, <1>10, <2>2 DEF CheckWAL
<1>11. CASE LoadCatalog
  <2>1. PICK n \in 0 .. columns :
          \/ Becomes([run EXCEPT !.pc = "decode", !.catalog = "fresh", !.columns = Replayed(n, columns)])
          \/ Becomes([run EXCEPT !.pc = "decode", !.catalog = "stale", !.columns = 1 .. n])
          \/ Becomes([run EXCEPT !.pc = "decode"])
    BY <1>11 DEF LoadCatalog
  <2>2. Replayed(n, columns) \in SUBSET (1 .. columns) /\ 1 .. n \in SUBSET (1 .. columns)
    BY <1>1 DEF Replayed
  <2>3. /\ [run EXCEPT !.pc = "decode", !.catalog = "fresh", !.columns = Replayed(n, columns)] \in Runs
        /\ [run EXCEPT !.pc = "decode", !.catalog = "stale", !.columns = 1 .. n] \in Runs
        /\ [run EXCEPT !.pc = "decode"] \in Runs
    BY <1>1, <2>2 DEF Runs
  <2>4. QED
    BY <1>4, <2>1, <2>3
<1>12. CASE DecodeWAL
  <2>1. /\ [run EXCEPT !.pc = "reconcile"] \in Runs
        /\ [run EXCEPT !.pc = "reconcile", !.decoded = run.pending, !.pending = {}] \in Runs
    BY <1>1 DEF Runs
  <2>2. QED
    BY <1>4, <1>5, <1>12, <2>1 DEF DecodeWAL
<1>13. CASE Reconcile
  <2>1. [run EXCEPT !.pc = "config"] \in Runs
    BY <1>1 DEF Runs
  <2>2. QED
    BY <1>4, <1>5, <1>13, <2>1 DEF Reconcile
<1>14. CASE CheckConfig
  <2>1. [run EXCEPT !.pc = "loading"] \in Runs
    BY <1>1 DEF Runs
  <2>2. CASE checkpoint = NoCheckpoint
    <3>1. Max({0} \cup run.decoded) \in Nat
      BY <1>1, MaxIsNatural DEF Runs
    <3>2. run.live \subseteq Nat /\ run.decoded \subseteq Nat /\ run.mark \in Nat
          /\ run.skip \in BOOLEAN /\ run.swept \in BOOLEAN /\ run.steps \in Nat
      <4>1. /\ run.live \subseteq Files /\ run.decoded \subseteq 1 .. written
            /\ run.mark \in 0 .. written /\ run.steps \in 0 .. MaxSteps
            /\ run.skip \in BOOLEAN /\ run.swept \in BOOLEAN
        BY <1>1 DEF Runs
      <4>2. Files \subseteq Nat /\ 1 .. written \subseteq Nat /\ 0 .. written \subseteq Nat
            /\ 0 .. MaxSteps \subseteq Nat
        BY DEF Files
      <4>3. QED
        BY <4>1, <4>2
    <3>3. checkpoint' \in Checkpoints
      BY <1>14, <2>2, <3>1, <3>2 DEF CheckConfig, Checkpoints, Fingerprint, Input
    <3>4. touched' \in BOOLEAN
      BY <1>14, <2>2 DEF CheckConfig
    <3>5. QED
      BY <1>3, <1>14, <2>1, <2>2, <3>3, <3>4 DEF CheckConfig, TypeOK
  <2>3. QED
    BY <1>4, <1>5, <1>14, <2>1, <2>2 DEF CheckConfig
<1>15. CASE Load
  <2>1. [run EXCEPT !.pc = "done"] \in Runs
    BY <1>1 DEF Runs
  <2>2. QED
    BY <1>2, <1>4, <1>15, <2>1 DEF Load
<1>16. CASE Exit
  BY <1>2, <1>4, <1>16 DEF Exit
<1>17. QED
  BY <1>6, <1>7, <1>8, <1>9, <1>10, <1>11, <1>12, <1>13, <1>14, <1>15, <1>16 DEF Tool
-----------------------------------------------------------------------------
(* The store.                                                              *)

LEMMA MarksStay ==
  ASSUME TypeOK, Growing
  PROVE  /\ \A t \in 0 .. Len(snaps) : Mark(t)' = Mark(t)
         /\ \A t \in Files : WritesOf(t)' = WritesOf(t) /\ Removed(t)' = Removed(t)
<1>1. Len(snaps) \in Nat
  BY MarkType
<1>2. ASSUME NEW t \in 0 .. Len(snaps) PROVE Mark(t)' = Mark(t)
  <2>1. CASE t = 0
    BY <2>1 DEF Mark
  <2>2. CASE t # 0
    <3>1. t \in Files
      BY <1>1, <2>2 DEF Files
    <3>2. QED
      BY <3>1 DEF Growing, Mark
  <2>3. QED
    BY <2>1, <2>2
<1>3. ASSUME NEW t \in Files PROVE WritesOf(t)' = WritesOf(t) /\ Removed(t)' = Removed(t)
  <2>1. t \in 0 .. Len(snaps) /\ t - 1 \in 0 .. Len(snaps)
    BY <1>1 DEF Files
  <2>2. Mark(t)' = Mark(t) /\ Mark(t - 1)' = Mark(t - 1)
    BY <1>2, <2>1
  <2>3. QED
    BY <2>2 DEF Growing, WritesOf, Removed
<1>4. QED
  BY <1>2, <1>3

LEMMA LogSoundKept ==
  ASSUME TypeOK, LogSound, Server
  PROVE  LogSound'
<1>1. /\ Len(snaps) \in Nat /\ written \in Nat /\ columns \in Nat /\ needs \in Seq(1 .. MaxColumns)
      /\ \A t \in 0 .. Len(snaps) : Mark(t) \in Nat
  BY MarkType, ColumnsType DEF TypeOK, columns
<1>2. Growing
  BY ServerGrows
<1>3. \A t \in 0 .. Len(snaps) : Mark(t)' = Mark(t)
  BY <1>2, MarksStay
<1>4. CASE Write
  <2>1. PICK n \in {columns, columns + 1} :
           /\ n \in 1 .. MaxColumns /\ needs' = Append(needs, n)
           /\ wal' = wal \cup {written + 1} /\ snaps' = snaps
    BY <1>4 DEF Write
  <2>2. /\ Len(needs') = Len(needs) + 1
        /\ \A w \in 1 .. Len(needs) : needs'[w] = needs[w]
        /\ needs'[Len(needs) + 1] = n
    BY <1>1, <2>1, AppendProperties
  <2>3. \A w \in 1 .. written : needs[w] \in Nat /\ needs[w] <= columns
    <3>1. ASSUME NEW w \in 1 .. written PROVE needs[w] \in Nat /\ needs[w] <= columns
      <4>1. needs # <<>> /\ written \in 1 .. written /\ w <= written
        BY <1>1, EmptySeq DEF written
      <4>2. columns = needs[written]
        BY <4>1 DEF columns, Last, written
      <4>3. needs[w] \in 1 .. MaxColumns
        BY <1>1, ElementOfSeq DEF written
      <4>4. QED
        BY <4>1, <4>2, <4>3 DEF LogSound
    <3>2. QED
      BY <3>1
  <2>4. n \in Nat /\ columns <= n
    BY <1>1, <2>1
  <2>5. written' = written + 1
    BY <2>2 DEF written
  <2>6. ASSUME NEW v \in 1 .. written', NEW w \in 1 .. written', v <= w
        PROVE  needs'[v] <= needs'[w]
    <3>1. CASE w \in 1 .. written
      <4>1. v \in 1 .. written
        BY <1>1, <2>5, <2>6, <3>1
      <4>2. QED
        BY <2>2, <2>6, <3>1, <4>1 DEF LogSound, written
    <3>2. CASE w = written + 1 /\ v \in 1 .. written
      <4>1. needs'[w] = n /\ needs'[v] = needs[v]
        BY <2>2, <3>2 DEF written
      <4>2. needs[v] \in Nat /\ needs[v] <= columns
        BY <2>3, <3>2
      <4>3. QED
        BY <1>1, <2>4, <4>1, <4>2
    <3>3. CASE w = written + 1 /\ v = written + 1
      BY <2>2, <2>4, <3>3 DEF written
    <3>4. QED
      BY <1>1, <2>5, <2>6, <3>1, <3>2, <3>3
  <2>7. ASSUME NEW w \in 1 .. written' PROVE w \in wal' \/ w <= Mark(Len(snaps))'
    <3>1. w \in 1 .. written \/ w = written + 1
      BY <1>1, <2>5
    <3>2. Mark(Len(snaps))' = Mark(Len(snaps))
      BY <2>1 DEF Mark
    <3>3. QED
      BY <2>1, <3>1, <3>2 DEF LogSound
  <2>8. \A s, t \in (0 .. Len(snaps))' : s < t => Mark(s)' < Mark(t)'
    BY <1>3, <2>1 DEF LogSound
  <2>9. QED
    BY <2>6, <2>7, <2>8 DEF LogSound
<1>5. CASE Snapshot
  <2>1. PICK hi \in Mark(Len(snaps)) + 1 .. written, drop \in SUBSET server :
           /\ snaps' = Append(snaps, [mark |-> hi, removed |-> drop])
           /\ UNCHANGED <<needs, wal>>
    BY <1>5 DEF Snapshot
  <2> DEFINE Manifests == [mark : Nat, removed : SUBSET server]
             old == Mark(Len(snaps))
  <2>2. old \in Nat /\ hi \in Nat /\ old < hi
    BY <1>1, <2>1
  <2>3. Len(snaps') = Len(snaps) + 1 /\ snaps'[Len(snaps) + 1] = [mark |-> hi, removed |-> drop]
    <3>1. snaps \in Seq(UNION {{snaps[t] : t \in 1 .. Len(snaps)}, Manifests})
      BY SMTT(20) DEF TypeOK
    <3>2. [mark |-> hi, removed |-> drop] \in Manifests
      BY <2>2
    <3>3. QED
      BY <2>1, <3>1, <3>2, AppendProperties
  <2>0. PICK top \in Nat : top = Len(snaps) + 1
    BY <1>1
  <2>4. Mark(top)' = hi
    BY <1>1, <2>0, <2>3 DEF Mark
  <2>5. ASSUME NEW s \in 0 .. Len(snaps) + 1, NEW t \in 0 .. Len(snaps) + 1, s < t
        PROVE  Mark(s)' < Mark(t)'
    <3>1. s \in 0 .. Len(snaps)
      BY <1>1, <2>5
    <3>2. Mark(s)' = Mark(s) /\ Mark(s) \in Nat
      BY <1>1, <1>3, <3>1
    <3>3. CASE t \in 0 .. Len(snaps)
      BY <1>3, <2>5, <3>1, <3>3 DEF LogSound
    <3>4. CASE t = Len(snaps) + 1
      <4>1. s = Len(snaps) \/ s < Len(snaps)
        BY <1>1, <3>1
      <4>2. Len(snaps) \in 0 .. Len(snaps)
        BY <1>1
      <4>3. Mark(s) = old \/ Mark(s) < old
        BY <3>1, <4>1, <4>2 DEF LogSound
      <4>4. Mark(s) < hi
        BY <2>2, <3>2, <4>3
      <4>5. QED
        BY <2>0, <2>4, <3>2, <3>4, <4>4
    <3>5. QED
      BY <1>1, <3>3, <3>4
  <2>6. ASSUME NEW w \in 1 .. written PROVE w \in wal' \/ w <= Mark(Len(snaps))'
    <3>1. w \in wal \/ w <= old
      BY DEF LogSound
    <3>2. Mark(Len(snaps))' = hi
      <4>1. Mark(Len(snaps))' = Mark(top)'
        BY <2>0, <2>3 DEF Mark
      <4>2. QED
        BY <2>4, <4>1
    <3>3. QED
      BY <2>1, <2>2, <3>1, <3>2
  <2>7. written' = written
    BY <2>1 DEF written
  <2>8. \A s, t \in (0 .. Len(snaps))' : s < t => Mark(s)' < Mark(t)'
    BY <2>3, <2>5
  <2>9. QED
    BY <2>1, <2>6, <2>7, <2>8 DEF LogSound
<1>6. CASE CleanWAL
  <2>1. PICK w \in wal : w <= Mark(Len(snaps)) /\ wal' = wal \ {w} /\ UNCHANGED <<needs, snaps>>
    BY <1>6 DEF CleanWAL
  <2>2. QED
    BY <2>1 DEF LogSound, written, Mark
<1>7. CASE UNCHANGED <<needs, snaps, wal>>
  BY <1>7 DEF LogSound, written, Mark
<1>8. QED
  BY <1>4, <1>5, <1>6, <1>7 DEF Server, WriteDelta, RewriteIndex, DropDelta, Compact,
                                DeleteObject
\* A new manifest, as the invariants see it.
LEMMA Manifest ==
  ASSUME TypeOK, NEW hi, NEW drop \in SUBSET server,
         snaps' = Append(snaps, [mark |-> hi, removed |-> drop])
  PROVE  /\ Files' = Files \cup {Len(snaps) + 1} /\ Len(snaps) + 1 \notin Files
         /\ Len(snaps') = Len(snaps) + 1
         /\ \A t \in Files : Removed(t)' = Removed(t)
         /\ \A t : t = Len(snaps) + 1 => Removed(t)' = drop
<1>1. Len(snaps) \in Nat
  BY MarkType
<1> DEFINE m == [mark |-> hi, removed |-> drop]
           S == {snaps[t] : t \in 1 .. Len(snaps)} \cup {m}
<1>2. snaps \in Seq(S) /\ m \in S
  BY SMTT(20) DEF TypeOK
<1>3. /\ Len(snaps') = Len(snaps) + 1 /\ snaps'[Len(snaps) + 1] = m
      /\ \A t \in 1 .. Len(snaps) : snaps'[t] = snaps[t]
  <2> HIDE DEF S, m
  <2>1. snaps' = Append(snaps, m)
    BY DEF m
  <2>2. QED
    BY <1>2, <2>1, AppendProperties
<1>4. Files' = Files \cup {Len(snaps) + 1} /\ Len(snaps) + 1 \notin Files
  BY <1>1, <1>3 DEF Files
<1>5. \A t \in Files : Removed(t)' = Removed(t)
  BY <1>3 DEF Files, Removed
<1>6. \A t : t = Len(snaps) + 1 => Removed(t)' = drop
  BY <1>3 DEF Removed
<1>7. QED
  BY <1>3, <1>4, <1>5, <1>6

LEMMA MetadataSoundKept ==
  ASSUME TypeOK, MetadataSound, Server
  PROVE  MetadataSound'
<1>1. /\ Len(snaps) \in Nat /\ server \subseteq Files
      /\ index.files \subseteq Files /\ index.floor \in 0 .. Len(snaps)
  BY MarkType DEF TypeOK, Indexes
<1>2. CASE Snapshot
  <2>1. PICK hi \in Mark(Len(snaps)) + 1 .. written, drop \in SUBSET server, top \in Nat :
           /\ top = Len(snaps) + 1
           /\ snaps' = Append(snaps, [mark |-> hi, removed |-> drop])
           /\ server' = (server \ drop) \cup {top}
           /\ UNCHANGED index
    <3>1. Len(snaps) + 1 \in Nat
      BY <1>1
    <3>2. PICK hi \in Mark(Len(snaps)) + 1 .. written, drop \in SUBSET server :
             /\ snaps' = Append(snaps, [mark |-> hi, removed |-> drop])
             /\ server' = (server \ drop) \cup {Len(snaps) + 1}
             /\ UNCHANGED index
      BY <1>2 DEF Snapshot
    <3>3. PICK top \in Nat : top = Len(snaps) + 1
      BY <3>1
    <3>4. server' = (server \ drop) \cup {top}
      BY <3>2, <3>3
    <3>5. QED
      BY <3>2, <3>3, <3>4
  <2>2. /\ Files' = Files \cup {top} /\ top \notin Files
        /\ \A t \in Files : Removed(t)' = Removed(t)
        /\ Removed(top)' = drop
    BY <2>1, Manifest
  <2>3. top > index.floor /\ \A t \in Files : t < top
    BY <1>1, <2>1 DEF Files
  <2>4. index' = index /\ index.files \subseteq 1 .. index.floor
    BY <2>1 DEF MetadataSound
  <2>5. ASSUME NEW t \in Files' PROVE Removed(t)' \subseteq 1 .. t - 1 /\ Removed(t)' \cap server' = {}
    <3>1. CASE t \in Files
      <4>1. Removed(t)' = Removed(t) /\ Removed(t) \subseteq 1 .. t - 1 /\ Removed(t) \cap server = {}
        BY <2>2, <3>1 DEF MetadataSound
      <4>2. top \notin 1 .. t - 1
        BY <2>1, <2>3, <3>1 DEF Files
      <4>3. QED
        BY <2>1, <4>1, <4>2
    <3>2. CASE t = top
      <4>1. Removed(t)' = drop /\ drop \subseteq Files /\ top \notin drop
        BY <1>1, <2>1, <2>2, <3>2
      <4>2. Files = 1 .. t - 1
        BY <1>1, <2>1, <3>2 DEF Files
      <4>3. QED
        BY <2>1, <4>1, <4>2
    <3>3. QED
      BY <2>2, <3>1, <3>2
  <2>6. \A x \in server' : x <= index.floor => x \in index.files
    <3>1. ~ (top <= index.floor)
      BY <1>1, <2>1
    <3>2. QED
      BY <2>1, <3>1 DEF MetadataSound
  <2>7. ASSUME NEW x \in Files' \ server'
        PROVE  \/ x <= index.floor /\ x \notin index.files
               \/ \E t \in Files' : t > index.floor /\ x \in Removed(t)'
    <3>1. x \in Files /\ (x \notin server \/ x \in drop)
      BY <2>1, <2>2, <2>7
    <3>2. CASE x \in drop
      BY <2>2, <2>3, <3>2
    <3>3. CASE x \notin server
      <4>1. \/ x <= index.floor /\ x \notin index.files
            \/ \E t \in Files : t > index.floor /\ x \in Removed(t)
        BY <3>1, <3>3 DEF MetadataSound
      <4>2. QED
        BY <2>2, <4>1
    <3>4. QED
      BY <3>1, <3>2, <3>3
  <2>8. QED
    BY <2>4, <2>5, <2>6, <2>7 DEF MetadataSound
<1>3. CASE RewriteIndex
  <2>1. PICK purge \in SUBSET server :
           /\ index' = [files |-> server \ purge, floor |-> Len(snaps)]
           /\ server' = server \ purge /\ snaps' = snaps
    BY <1>3 DEF RewriteIndex
  <2>2. /\ Files' = Files /\ \A t : Removed(t)' = Removed(t)
        /\ index'.files = server' /\ index'.floor = Len(snaps) /\ server' \subseteq server
    BY <2>1 DEF Files, Removed
  <2>3. index'.files \subseteq 1 .. index'.floor
    BY <1>1, <2>2 DEF Files
  <2>4. \A t \in Files : Removed(t) \subseteq 1 .. t - 1 /\ Removed(t) \cap server' = {}
    BY <2>2 DEF MetadataSound
  <2>5. \A x \in Files : x <= Len(snaps)
    BY <1>1 DEF Files
  <2>6. QED
    BY <2>2, <2>3, <2>4, <2>5 DEF MetadataSound
<1>4. CASE UNCHANGED <<snaps, index, server>>
  BY <1>4 DEF MetadataSound, Files, Removed
<1>5. QED
  BY <1>2, <1>3, <1>4 DEF Server, Write, WriteDelta, DropDelta, Compact, DeleteObject, CleanWAL

LEMMA DeltasSoundKept ==
  ASSUME TypeOK, MetadataSound, DeltasSound, Server
  PROVE  DeltasSound'
<1>1. /\ Len(snaps) \in Nat /\ server \subseteq Files /\ deltas \subseteq Files
      /\ index.floor \in 0 .. Len(snaps)
  BY MarkType DEF TypeOK, Indexes
<1>2. \A t \in Files : Removed(t) \subseteq 1 .. t - 1
  BY DEF MetadataSound
<1>3. CASE Snapshot
  <2>1. PICK hi \in Mark(Len(snaps)) + 1 .. written, drop \in SUBSET server, top \in Nat :
           /\ top = Len(snaps) + 1
           /\ snaps' = Append(snaps, [mark |-> hi, removed |-> drop])
           /\ deltas' = IF drop # {} THEN deltas \cup {top} ELSE deltas
           /\ UNCHANGED index
    <3>1. Len(snaps) + 1 \in Nat
      BY <1>1
    <3>2. PICK hi \in Mark(Len(snaps)) + 1 .. written, drop \in SUBSET server :
             /\ snaps' = Append(snaps, [mark |-> hi, removed |-> drop])
             /\ deltas' = IF drop # {} THEN deltas \cup {Len(snaps) + 1} ELSE deltas
             /\ UNCHANGED index
      BY <1>3 DEF Snapshot, Prompt
    <3>3. PICK top \in Nat : top = Len(snaps) + 1
      BY <3>1
    <3>4. deltas' = IF drop # {} THEN deltas \cup {top} ELSE deltas
      BY <3>2, <3>3
    <3>5. QED
      BY <3>2, <3>3, <3>4
  <2>2. /\ Files' = Files \cup {top} /\ top \notin Files
        /\ \A t \in Files : Removed(t)' = Removed(t)
        /\ Removed(top)' = drop
    BY <2>1, Manifest
  <2>3. ASSUME NEW t \in Files', NEW x \in Removed(t)'
        PROVE  (t \in deltas' \/ t <= index.floor) /\ (x \in deltas' => t \in deltas')
    <3>1. CASE t \in Files
      <4>1. x \in Removed(t) /\ x \in 1 .. t - 1
        BY <1>2, <2>2, <2>3, <3>1
      <4>2. x # top
        BY <1>1, <2>1, <3>1, <4>1 DEF Files
      <4>3. (t \in deltas \/ t <= index.floor) /\ (x \in deltas => t \in deltas)
        BY <3>1, <4>1 DEF DeltasSound
      <4>4. QED
        BY <2>1, <4>2, <4>3
    <3>2. CASE t = top
      BY <2>1, <2>2, <2>3, <3>2
    <3>3. QED
      BY <2>2, <3>1, <3>2
  <2>4. QED
    BY <2>1, <2>3 DEF DeltasSound
<1>4. CASE WriteDelta
  <2>1. PICK s \in Files : /\ s > index.floor /\ \A d \in deltas : d < s
                           /\ deltas' = deltas \cup {s} /\ UNCHANGED <<snaps, index>>
    BY <1>4 DEF WriteDelta
  <2>2. Files' = Files /\ \A t : Removed(t)' = Removed(t)
    BY <2>1 DEF Files, Removed
  <2>3. ASSUME NEW t \in Files, NEW x \in Removed(t)
        PROVE  (t \in deltas' \/ t <= index.floor) /\ (x \in deltas' => t \in deltas')
    <3>1. (t \in deltas \/ t <= index.floor) /\ (x \in deltas => t \in deltas)
      BY <2>3 DEF DeltasSound
    <3>2. x \in 1 .. t - 1 /\ t \in Nat
      BY <1>2, <2>3 DEF Files
    <3>3. CASE x = s
      <4>1. ~ (t <= index.floor)
        BY <1>1, <2>1, <3>2, <3>3
      <4>2. QED
        BY <2>1, <3>1, <4>1
    <3>4. CASE x # s
      BY <2>1, <3>1, <3>4
    <3>5. QED
      BY <3>3, <3>4
  <2>4. QED
    BY <2>1, <2>2, <2>3 DEF DeltasSound
<1>5. CASE DropDelta
  <2>1. PICK d \in deltas : /\ d <= index.floor /\ \A e \in deltas : d <= e
                            /\ deltas' = deltas \ {d} /\ UNCHANGED <<snaps, index>>
    BY <1>5 DEF DropDelta
  <2>2. Files' = Files /\ \A t : Removed(t)' = Removed(t)
    BY <2>1 DEF Files, Removed
  <2>3. ASSUME NEW t \in Files, NEW x \in Removed(t)
        PROVE  (t \in deltas' \/ t <= index.floor) /\ (x \in deltas' => t \in deltas')
    <3>1. (t \in deltas \/ t <= index.floor) /\ (x \in deltas => t \in deltas)
      BY <2>3 DEF DeltasSound
    <3>2. x \in 1 .. t - 1 /\ t \in Nat /\ d \in Nat
      BY <1>1, <1>2, <2>3 DEF Files
    <3>3. x \in deltas => t # d
      BY <2>1, <3>2
    <3>4. QED
      BY <2>1, <3>1, <3>3
  <2>4. QED
    BY <2>1, <2>2, <2>3 DEF DeltasSound
<1>6. CASE RewriteIndex
  <2>1. index'.floor = Len(snaps) /\ UNCHANGED <<snaps, deltas>>
    BY <1>6 DEF RewriteIndex
  <2>2. \A t \in Files : t <= Len(snaps)
    BY <1>1 DEF Files
  <2>3. QED
    BY <2>1, <2>2 DEF DeltasSound, Files, Removed
<1>7. CASE UNCHANGED <<snaps, index, deltas>>
  BY <1>7 DEF DeltasSound, Files, Removed
<1>8. QED
  BY <1>3, <1>4, <1>5, <1>6, <1>7 DEF Server, Write, Compact, DeleteObject, CleanWAL

\* tsm2arc only reads the store.
LEMMA StoreKept ==
  ASSUME LogSound, MetadataSound, DeltasSound, UNCHANGED store
  PROVE  LogSound' /\ MetadataSound' /\ DeltasSound'
<1>1. UNCHANGED <<needs, wal, snaps, index, deltas, server>>
  BY DEF store
<1>2. LogSound'
  BY <1>1 DEF LogSound, written, Mark
<1>3. MetadataSound'
  BY <1>1 DEF MetadataSound, Files, Removed
<1>4. DeltasSound'
  BY <1>1 DEF DeltasSound, Files, Removed
<1>5. QED
  BY <1>2, <1>3, <1>4
-----------------------------------------------------------------------------
(* What a run knows, while the server works.                               *)

LEMMA SameRun ==
  ASSUME Passing
  PROVE  /\ run'.pc = run.pc /\ run'.why = run.why /\ run'.skip = run.skip
         /\ run'.seen = run.seen /\ run'.mark = run.mark /\ run'.index = run.index
         /\ run'.live = run.live /\ run'.pending = run.pending /\ run'.catalog = run.catalog
         /\ run'.columns = run.columns /\ run'.decoded = run.decoded /\ run'.gone = run.gone
         /\ run'.flushed = run.flushed
  BY DEF Passing, Reading

LEMMA ForgottenStays ==
  ASSUME TypeOK, Growing, NEW n \in 0 .. Len(snaps), NEW ix, NEW x, Forgotten(x, ix, n)
  PROVE  Forgotten(x, ix, n)'
<1>1. 1 .. n \subseteq Files
  BY MarkType DEF Files
<1>2. \A t \in 1 .. n : Removed(t)' = Removed(t)
  BY <1>1, MarksStay
<1>3. QED
  BY <1>2 DEF Forgotten

LEMMA FilesKnownServer ==
  ASSUME TypeOK, MetadataSound, FilesKnown, Server
  PROVE  FilesKnown'
<1>1. Growing /\ Passing
  BY ServerGrows, ServerPasses
<1>2. /\ run'.pc = run.pc /\ run'.seen = run.seen /\ run'.mark = run.mark
      /\ run'.index = run.index /\ run'.live = run.live /\ run'.gone = run.gone
  BY <1>1, SameRun
<1>3. /\ Len(snaps) \in Nat /\ run.seen \in 0 .. Len(snaps) /\ run.gone \subseteq Files
      /\ run.index \in Indexes
  BY MarkType DEF TypeOK, Runs
<1>ix. PICK ix : ix = run.index
  OBVIOUS
<1>n. PICK n \in 0 .. Len(snaps) : n = run.seen
  BY <1>3
<1>4. n = run.seen /\ ix = run.index
  BY <1>ix, <1>n
<1>5. ix.floor \in 0 .. Len(snaps)
  BY <1>3, <1>4 DEF Indexes
<1>6. \A x \in server' : x \in server \/ x \notin Files
  BY <1>1 DEF Growing
<1>7. run.pc # "idle" => run.gone \cap server' = {}
  BY <1>3, <1>6 DEF FilesKnown
<1>8. Mark(n)' = Mark(n)
  BY <1>1, MarksStay
<1>9. ASSUME run.pc = "index", NEW x \in run.gone
      PROVE  Forgotten(x, index, n)'
  <2>1. Forgotten(x, index, n)
    BY <1>4, <1>9 DEF FilesKnown
  <2>2. CASE index' = index
    <3>1. PICK iy : iy = index
      OBVIOUS
    <3>2. Forgotten(x, iy, n)'
      BY <1>1, <2>1, <3>1, ForgottenStays
    <3>3. QED
      BY <2>2, <3>1, <3>2
  <2>3. CASE RewriteIndex
    <3>1. index'.files = server' /\ index'.floor = Len(snaps)
      BY <2>3 DEF RewriteIndex
    <3>2. x \in Files /\ x \notin server'
      BY <1>3, <1>7, <1>9
    <3>3. x <= Len(snaps)
      BY <1>3, <3>2 DEF Files
    <3>4. QED
      BY <3>1, <3>2, <3>3 DEF Forgotten
  <2>4. QED
    BY <2>2, <2>3 DEF Server, Write, Snapshot, WriteDelta, DropDelta, Compact, DeleteObject,
                      CleanWAL
<1>10. ASSUME run.pc = "deltas", NEW x \in run.gone
       PROVE  Forgotten(x, ix, n)'
  <2>1. Forgotten(x, ix, n)
    BY <1>4, <1>10 DEF FilesKnown
  <2>2. QED
    BY <1>1, <2>1, ForgottenStays
<1>11. \A x \in server' : (x <= ix.floor => x \in server) /\ (x <= n => x \in server)
  <2>1. TypeOK'
    BY TypeServer
  <2>2. \A x \in server' : x \in Nat /\ 1 <= x
    BY <2>1 DEF TypeOK, Files
  <2>3. ASSUME NEW x \in server', x <= Len(snaps) PROVE x \in server
    <3>1. x \in Files
      BY <1>3, <2>2, <2>3 DEF Files
    <3>2. QED
      BY <1>6, <2>3, <3>1
  <2>4. \A x \in server' : (x <= ix.floor => x <= Len(snaps)) /\ (x <= n => x <= Len(snaps))
    BY <1>3, <1>4, <1>5, <2>2
  <2>5. QED
    BY <2>3, <2>4
<1>12. run.pc # "idle" => run'.gone \cap server' = {}
  BY <1>2, <1>7
<1>13. Listed => run.mark = Mark(n)' /\ run.gone \subseteq 1 .. n
  BY <1>4, <1>8 DEF FilesKnown
<1>14. run.pc = "deltas" => /\ ix.files \subseteq 1 .. ix.floor
                            /\ \A x \in server' : x <= ix.floor => x \in ix.files
  BY <1>4, <1>11 DEF FilesKnown
<1>15. Built => /\ run.live \cap run.gone = {}
                /\ \A x \in server' : x <= n => x \in run.live
  BY <1>4, <1>11 DEF FilesKnown
<1>16. Listed' = Listed /\ Built' = Built
  BY <1>2 DEF Listed, Built
<1>17. /\ n = run'.seen /\ ix = run'.index
       /\ Mark(run.seen)' = Mark(n)'
  BY <1>2, <1>4 DEF Mark
<1>18. run.pc = "index" => \A x \in run.gone : Forgotten(x, index, run.seen)'
  BY <1>9, <1>17 DEF Forgotten
<1>19. run.pc = "deltas" => \A x \in run.gone : Forgotten(x, run.index, run.seen)'
  BY <1>10, <1>17 DEF Forgotten
<1>20. QED
  BY <1>2, <1>12, <1>13, <1>14, <1>15, <1>16, <1>17, <1>18, <1>19 DEF FilesKnown
LEMMA LogKnownServer ==
  ASSUME TypeOK, LogKnown, Server
  PROVE  LogKnown'
<1>1. Growing /\ Passing
  BY ServerGrows, ServerPasses
<1>2. /\ run'.pc = run.pc /\ run'.mark = run.mark /\ run'.pending = run.pending
      /\ run'.decoded = run.decoded /\ run'.flushed = run.flushed /\ run'.skip = run.skip
      /\ run.swept => run'.swept
  BY <1>1, SameRun DEF Passing
<1>3. written \in Nat /\ run \in Runs /\ wal \subseteq 1 .. written
  BY MarkType DEF TypeOK
<1>4. Decided' = Decided /\ LogRead' = LogRead
  BY <1>2 DEF Decided, LogRead
<1>5. ASSUME run.pc \in {"index", "deltas", "wal"}, ~run'.swept, NEW w \in 1 .. written',
             w > run.mark
      PROVE  w \in wal'
  <2>1. \A v \in 1 .. written : v > run.mark => v \in wal
    BY <1>2, <1>5 DEF LogKnown
  <2>2. CASE Write
    <3>1. needs \in Seq(1 .. MaxColumns)
      BY DEF TypeOK
    <3>2. written' = written + 1 /\ wal' = wal \cup {written + 1}
      BY <2>2, <3>1, AppendProperties DEF Write, written
    <3>3. w \in 1 .. written \/ w = written + 1
      BY <1>3, <3>2
    <3>4. QED
      BY <1>5, <2>1, <3>2, <3>3
  <2>3. CASE CleanWAL
    <3>1. PICK v \in wal :
            /\ wal' = wal \ {v} /\ UNCHANGED needs
            /\ run' = Counted([run EXCEPT
                 !.swept = @ \/ (run.pc \in {"index", "deltas", "wal"} /\ v > run.mark)])
      BY <2>3 DEF CleanWAL
    <3>2. run'.swept = (run.swept \/ (run.pc \in {"index", "deltas", "wal"} /\ v > run.mark))
      BY <1>3, <3>1 DEF Counted, Runs
    <3>3. w # v
      BY <1>5, <3>2
    <3>4. written' = written
      BY <3>1 DEF written
    <3>5. QED
      BY <1>5, <2>1, <3>1, <3>3, <3>4
  <2>4. CASE UNCHANGED <<needs, wal>>
    BY <1>5, <2>1, <2>4 DEF written
  <2>5. QED
    BY <2>2, <2>3, <2>4 DEF Server, Snapshot, WriteDelta, RewriteIndex, DropDelta, Compact,
                            DeleteObject
<1>6. ~Decided /\ run.pc # "refused" => run.decoded = {}
  BY DEF LogKnown
<1>7. LogRead => /\ run.pending \subseteq run.mark + 1 .. run.flushed
                 /\ ~run.swept => run.pending = run.mark + 1 .. run.flushed
  BY DEF LogKnown
<1>8. Decided => /\ run.decoded \subseteq run.mark + 1 .. run.flushed
                 /\ run.skip => run.decoded = {}
                 /\ ~run.skip /\ ~run.swept => run.decoded = run.mark + 1 .. run.flushed
  BY DEF LogKnown
<1>9. run'.pc \in {"index", "deltas", "wal"} /\ ~run'.swept =>
        \A w \in 1 .. written' : w > run'.mark => w \in wal'
  BY <1>2, <1>5
<1>10. QED
  BY <1>2, <1>4, <1>6, <1>7, <1>8, <1>9 DEF LogKnown

\* The writes a run looks up had been flushed.
LEMMA DescribedWrites ==
  ASSUME TypeOK
  PROVE  /\ Described \subseteq 1 .. written
         /\ \A f \in Files : WritesOf(f) \subseteq 1 .. written
<1>1. /\ run.pending \subseteq 1 .. written /\ run.decoded \subseteq 1 .. written
      /\ run.live \subseteq Files
  BY DEF TypeOK, Runs
<1>2. written \in Nat /\ Len(snaps) \in Nat /\ \A t \in 0 .. Len(snaps) : Mark(t) \in 0 .. written
  BY MarkType
<1>3. ASSUME NEW f \in Files PROVE WritesOf(f) \subseteq 1 .. written
  <2>1. f \in 0 .. Len(snaps) /\ f - 1 \in 0 .. Len(snaps)
    BY <1>2 DEF Files
  <2>2. Mark(f) \in 0 .. written /\ Mark(f - 1) \in 0 .. written
    BY <1>2, <2>1
  <2>3. QED
    BY <1>2, <2>2 DEF WritesOf
<1>4. QED
  BY <1>1, <1>3 DEF Described

LEMMA CatalogKnownServer ==
  ASSUME TypeOK, CatalogKnown, Server
  PROVE  CatalogKnown'
<1>1. Growing /\ Passing
  BY ServerGrows, ServerPasses
<1>2. /\ run'.pc = run.pc /\ run'.why = run.why /\ run'.catalog = run.catalog
      /\ run'.columns = run.columns /\ run'.seen = run.seen /\ run'.index = run.index
      /\ run'.pending = run.pending /\ run'.decoded = run.decoded /\ run'.live = run.live
  BY <1>1, SameRun
<1>3. run.live \subseteq Files
  BY DEF TypeOK, Runs
<1>4. \A f \in run.live : WritesOf(f)' = WritesOf(f)
  BY <1>1, <1>3, MarksStay
<1>5. Described' = Described
  BY <1>2, <1>4 DEF Described
<1>6. \A w \in Described : needs'[w] = needs[w]
  BY <1>1, DescribedWrites DEF Growing
<1>7. CatalogRead' = CatalogRead
  BY <1>2 DEF CatalogRead
<1>8. run.why # "column" /\ (~CatalogRead /\ run.pc # "refused" => run.catalog = "none")
      /\ (CatalogRead /\ run.catalog = "fresh" =>
       /\ \A w \in Described : 1 .. needs'[w] \subseteq run.columns
       /\ run.columns = {} => /\ run.seen = 0 /\ run.index.floor = 0
                              /\ run.live = {} /\ run.pending = {} /\ run.decoded = {})
  BY <1>6 DEF CatalogKnown
<1>9. QED
  BY <1>2, <1>5, <1>7, <1>8 DEF CatalogKnown

LEMMA RestServer ==
  ASSUME TypeOK, Undisturbed, CheckpointSound, RefusedForCause, SameInput, Server
  PROVE  Undisturbed' /\ CheckpointSound' /\ RefusedForCause' /\ SameInput'
<1>1. Passing
  BY ServerPasses
<1>2. /\ run'.pc = run.pc /\ run'.live = run.live /\ run'.decoded = run.decoded
      /\ run.swept => run'.swept
      /\ run.pc # "idle" => run'.steps # 0
      /\ run.pc \notin {"refused", "done"}
      /\ checkpoint' = checkpoint /\ touched' = (checkpoint # NoCheckpoint)
  BY <1>1, SameRun DEF Passing
<1>3. Undisturbed'
  BY <1>2 DEF Undisturbed, Listed, LogRead, Decided
<1>4. CheckpointSound'
  BY <1>2 DEF CheckpointSound
<1>5. RefusedForCause'
  BY <1>2 DEF RefusedForCause
<1>6. SameInput'
  <2>1. Input(run') = Input(run)
    BY <1>2 DEF Input
  <2>2. QED
    BY <1>2, <2>1 DEF SameInput
<1>7. QED
  BY <1>3, <1>4, <1>5, <1>6
-----------------------------------------------------------------------------
(* What a run knows, as it goes on.                                        *)

\* With the files settled, the run goes on with them, or it ends.
Onward ==
  /\ Built /\ run'.pc \in {"catalog", "decode", "reconcile", "config", "loading", "done", "refused"}
  /\ run'.gone = run.gone /\ run'.mark = run.mark /\ run'.seen = run.seen
  /\ run'.index = run.index /\ run'.live = run.live /\ run'.skip = run.skip
  /\ run'.steps = run.steps /\ run'.swept = run.swept

Settled == CheckWAL \/ LoadCatalog \/ DecodeWAL \/ Reconcile \/ CheckConfig \/ Load \/ Exit

LEMMA GoesOn ==
  ASSUME TypeOK, Settled
  PROVE  Onward \/ run' = Idle
<1>1. run \in Runs
  BY DEF TypeOK
<1>2. ASSUME NEW why, Refuse(why), Built PROVE Onward
  BY <1>1, <1>2 DEF Refuse, Onward, Runs
<1>3. CASE CheckWAL
  BY <1>1, <1>3 DEF CheckWAL, Becomes, Onward, Runs, Built
<1>4. CASE LoadCatalog
  BY <1>1, <1>4 DEF LoadCatalog, Becomes, Onward, Runs, Built
<1>5. CASE DecodeWAL
  <2>1. Built
    BY <1>5 DEF DecodeWAL, Built
  <2>2. CASE Becomes([run EXCEPT !.pc = "reconcile"])
    BY <1>1, <2>1, <2>2 DEF Becomes, Onward, Runs
  <2>3. CASE Becomes([run EXCEPT !.pc = "reconcile", !.decoded = run.pending, !.pending = {}])
    BY <1>1, <2>1, <2>3 DEF Becomes, Onward, Runs
  <2>4. QED
    BY <1>2, <1>5, <2>1, <2>2, <2>3 DEF DecodeWAL
<1>6. CASE Reconcile
  <2>1. Built
    BY <1>6 DEF Reconcile, Built
  <2>2. CASE Becomes([run EXCEPT !.pc = "config"])
    BY <1>1, <2>1, <2>2 DEF Becomes, Onward, Runs
  <2>3. QED
    BY <1>2, <1>6, <2>1, <2>2 DEF Reconcile
<1>7. CASE CheckConfig
  <2>1. Built
    BY <1>7 DEF CheckConfig, Built
  <2>2. CASE run' = [run EXCEPT !.pc = "loading"]
    BY <1>1, <2>1, <2>2 DEF Onward, Runs
  <2>3. QED
    BY <1>2, <1>7, <2>1, <2>2 DEF CheckConfig, Becomes
<1>8. CASE Load
  <2>1. Built
    BY <1>8 DEF Load, Built
  <2>2. CASE run' = [run EXCEPT !.pc = "done"]
    BY <1>1, <2>1, <2>2 DEF Onward, Runs
  <2>3. QED
    BY <1>8, <2>1, <2>2 DEF Load, Becomes
<1>9. CASE Exit
  BY <1>9 DEF Exit, Becomes
<1>10. QED
  BY <1>3, <1>4, <1>5, <1>6, <1>7, <1>8, <1>9 DEF Settled

\* The live set: the server's live files among the listed, and none that the
\* server had dropped.
LEMMA LiveSetSound ==
  ASSUME TypeOK, MetadataSound, DeltasSound, FilesKnown, run.pc = "deltas",
         NEW live, live = BuildLiveSet(run.seen, run.index, deltas)
  PROVE  /\ live \cap run.gone = {}
         /\ \A x \in server : x <= run.seen => x \in live
<1>1. /\ Len(snaps) \in Nat /\ run.seen \in 0 .. Len(snaps) /\ run.index \in Indexes
      /\ deltas \in SUBSET Files /\ server \subseteq Files
  BY MarkType DEF TypeOK, Runs
<1>2. run.index.floor \in Nat
  BY <1>1 DEF Indexes
<1>3. \A t \in Files : Removed(t) \subseteq 1 .. t - 1 /\ Removed(t) \cap server = {}
  BY DEF MetadataSound
<1>4. 1 .. run.seen \subseteq Files
  BY <1>1 DEF Files
<1>5. /\ run.index.files \subseteq 1 .. run.index.floor
      /\ \A x \in run.gone : Forgotten(x, run.index, run.seen)
      /\ \A x \in server : x <= run.index.floor => x \in run.index.files
  BY DEF FilesKnown
<1>6. \A t \in Files : \A x \in Removed(t) : x \in deltas => t \in deltas
  BY DEF DeltasSound
<1>7. \A x : x \in live <=>
           /\ \/ /\ x \in run.index.files \/ (x \in 1 .. run.seen /\ x > run.index.floor)
                 /\ ~ \E t \in 1 .. run.seen : t > run.index.floor /\ x \in Removed(t)
              \/ x \in deltas /\ x > run.index.floor
           /\ ~ \E t \in deltas : t > run.index.floor /\ x \in Removed(t)
  BY <1>1, <1>2, <1>3, LiveSet
<1>8. ASSUME NEW x \in run.gone PROVE x \notin live
  <2>1. CASE x <= run.index.floor /\ x \notin run.index.files
    <3>1. x \in Int
      <4>1. run.gone \subseteq Files
        BY DEF TypeOK, Runs
      <4>2. QED
        BY <4>1 DEF Files
    <3>2. ~ (x > run.index.floor)
      BY <1>2, <2>1, <3>1
    <3>3. QED
      BY <1>7, <2>1, <3>2
  <2>2. CASE \E t \in 1 .. run.seen : t > run.index.floor /\ x \in Removed(t)
    <3>1. PICK t \in 1 .. run.seen : t > run.index.floor /\ x \in Removed(t)
      BY <2>2
    <3>2. x \in deltas => t \in deltas
      BY <1>4, <1>6, <3>1
    <3>3. QED
      BY <1>7, <3>1, <3>2
  <2>3. QED
    BY <1>5, <2>1, <2>2 DEF Forgotten
<1>9. ASSUME NEW x \in server, x <= run.seen PROVE x \in live
  <2>1. x \in Files /\ \A t \in Files : x \notin Removed(t)
    BY <1>1, <1>3
  <2>2. x \in 1 .. run.seen
    BY <1>1, <1>9, <2>1 DEF Files
  <2>3. x \in run.index.files \/ x > run.index.floor
    BY <1>2, <1>5, <2>2
  <2>4. (~ \E t \in 1 .. run.seen : t > run.index.floor /\ x \in Removed(t))
        /\ (~ \E t \in deltas : t > run.index.floor /\ x \in Removed(t))
    BY <1>1, <1>4, <2>1
  <2>5. QED
    BY <1>7, <2>2, <2>3, <2>4
<1>10. QED
  BY <1>8, <1>9

LEMMA FilesKnownTool ==
  ASSUME TypeOK, MetadataSound, DeltasSound, FilesKnown, Tool
  PROVE  FilesKnown'
<1>1. run \in Runs /\ server \subseteq Files /\ Len(snaps) \in Nat
  BY MarkType DEF TypeOK
<1>2. UNCHANGED <<snaps, server, index>>
  BY DEF Tool, Start, LoadSnapshots, LoadIndex, LoadDeltas, CheckWAL, LoadCatalog, DecodeWAL,
         Reconcile, CheckConfig, Load, Exit, Becomes, Refuse, store
<1>3. CASE Start
  <2>1. run'.pc \in {"refused", "manifests"} /\ run'.gone = Files \ server
    BY <1>3 DEF Start, Idle
  <2>2. ~Listed' /\ ~Built' /\ run'.pc # "index" /\ run'.pc # "deltas"
    BY <2>1 DEF Listed, Built
  <2>3. run'.gone \cap server' = {}
    BY <1>2, <2>1
  <2>4. QED
    BY <2>2, <2>3 DEF FilesKnown
<1>4. CASE LoadSnapshots
  <2>1. /\ run'.pc = "index" /\ run'.seen = Len(snaps) /\ run'.mark = Mark(Len(snaps))
        /\ run'.gone = run.gone
    BY <1>1, <1>4 DEF LoadSnapshots, Becomes, NewestMark, Runs
  <2>2. run.gone \cap server = {} /\ run.gone \subseteq Files
    BY <1>1, <1>4 DEF LoadSnapshots, FilesKnown, Runs
  <2>3. \A x \in run.gone : Forgotten(x, index, Len(snaps))
    <3>1. \A x \in Files \ server :
             \/ x <= index.floor /\ x \notin index.files
             \/ \E t \in Files : t > index.floor /\ x \in Removed(t)
      BY DEF MetadataSound
    <3>2. QED
      BY <2>2, <3>1 DEF Forgotten, Files
  <2>4. \A x \in run'.gone : Forgotten(x, index, run.seen)'
    BY <1>2, <2>1, <2>3 DEF Forgotten, Removed
  <2>5. run'.mark = Mark(run.seen)'
    BY <1>2, <2>1 DEF Mark
  <2>6. run'.gone \subseteq 1 .. run'.seen
    BY <2>1, <2>2 DEF Files
  <2>7. ~Built' /\ run'.pc # "deltas"
    BY <2>1 DEF Built
  <2>8. QED
    BY <1>2, <2>1, <2>2, <2>4, <2>5, <2>6, <2>7 DEF FilesKnown
<1>5. CASE LoadIndex
  <2>1. /\ run'.pc = "deltas" /\ run'.seen = run.seen /\ run'.mark = run.mark
        /\ run'.gone = run.gone /\ run'.index = index
    BY <1>1, <1>5 DEF LoadIndex, Becomes, Runs
  <2>2. /\ run.gone \cap server = {} /\ run.mark = Mark(run.seen)
        /\ run.gone \subseteq 1 .. run.seen
        /\ \A x \in run.gone : Forgotten(x, index, run.seen)
    BY <1>5 DEF LoadIndex, FilesKnown, Listed
  <2>3. \A x \in run'.gone : Forgotten(x, run.index, run.seen)'
    BY <1>2, <2>1, <2>2 DEF Forgotten, Removed
  <2>4. run'.mark = Mark(run.seen)'
    BY <1>2, <2>1, <2>2 DEF Mark
  <2>5. /\ run'.index.files \subseteq 1 .. run'.index.floor
        /\ \A x \in server' : x <= run'.index.floor => x \in run'.index.files
    BY <1>2, <2>1 DEF MetadataSound
  <2>6. ~Built' /\ run'.pc # "index"
    BY <2>1 DEF Built
  <2>7. QED
    BY <1>2, <2>1, <2>2, <2>3, <2>4, <2>5, <2>6 DEF FilesKnown
<1>6. CASE LoadDeltas
  <2>1. PICK live : live = BuildLiveSet(run.seen, run.index, deltas)
    OBVIOUS
  <2>2. /\ run'.pc = "wal" /\ run'.seen = run.seen /\ run'.mark = run.mark
        /\ run'.gone = run.gone /\ run'.live = live
    BY <1>1, <1>6, <2>1 DEF LoadDeltas, Becomes, Runs
  <2>3. run.pc = "deltas"
    BY <1>6 DEF LoadDeltas
  <2>4. live \cap run.gone = {} /\ \A x \in server : x <= run.seen => x \in live
    BY <2>1, <2>3, LiveSetSound
  <2>5. /\ run.gone \cap server = {} /\ run.mark = Mark(run.seen)
        /\ run.gone \subseteq 1 .. run.seen
    BY <2>3 DEF FilesKnown, Listed
  <2>6. run'.mark = Mark(run.seen)'
    BY <1>2, <2>2, <2>5 DEF Mark
  <2>7. QED
    BY <1>2, <2>2, <2>4, <2>5, <2>6 DEF FilesKnown
<1>7. CASE Settled
  <2>1. CASE run' = Idle
    BY <2>1 DEF FilesKnown, Idle, Listed, Built
  <2>2. CASE Onward
    <3>1. Mark(run.seen)' = Mark(run.seen)
      BY <1>2, <2>2 DEF Onward, Mark
    <3>2. run.pc # "idle" /\ Listed
      BY <2>2 DEF Onward, Built, Listed
    <3>3. /\ run.gone \cap server = {}
          /\ run.mark = Mark(run.seen) /\ run.gone \subseteq 1 .. run.seen
          /\ run.live \cap run.gone = {} /\ \A x \in server : x <= run.seen => x \in run.live
      BY <2>2, <3>2 DEF FilesKnown, Onward
    <3>4. run'.pc # "index" /\ run'.pc # "deltas"
      BY <2>2 DEF Onward
    <3>5. /\ run'.gone = run.gone /\ run'.mark = run.mark /\ run'.seen = run.seen
          /\ run'.live = run.live
      BY <2>2 DEF Onward
    <3>6. QED
      BY <1>2, <3>1, <3>3, <3>4, <3>5 DEF FilesKnown
  <2>3. QED
    BY <1>7, <2>1, <2>2, GoesOn
<1>8. QED
  BY <1>3, <1>4, <1>5, <1>6, <1>7 DEF Tool, Settled

LEMMA LogKnownTool ==
  ASSUME TypeOK, LogSound, FilesKnown, LogKnown, Tool
  PROVE  LogKnown'
<1>1. run \in Runs /\ wal \subseteq 1 .. written /\ Len(snaps) \in Nat /\ written \in Nat
  BY MarkType DEF TypeOK
<1>2. UNCHANGED <<wal, needs>>
  BY DEF Tool, Start, LoadSnapshots, LoadIndex, LoadDeltas, CheckWAL, LoadCatalog, DecodeWAL,
         Reconcile, CheckConfig, Load, Exit, Becomes, Refuse, store
<1>3. written' = written
  BY <1>2 DEF written
<1>4. ASSUME run'.pc \in {"idle", "manifests", "refused"}, run'.pc # "refused" => run'.decoded = {}
      PROVE  LogKnown'
  BY <1>4 DEF LogKnown, Decided, LogRead
<1>5. ASSUME NEW why, Refuse(why) PROVE LogKnown'
  BY <1>1, <1>4, <1>5 DEF Refuse, Runs
<1>6. CASE run' = Idle
  BY <1>4, <1>6 DEF Idle
<1>7. CASE Start
  <2>1. run'.pc \in {"refused", "manifests"} /\ run'.decoded = {}
    BY <1>7 DEF Start, Idle
  <2>2. QED
    BY <1>4, <2>1
<1>8. CASE LoadSnapshots
  <2>1. /\ run'.pc = "index" /\ run'.mark = Mark(Len(snaps)) /\ run'.decoded = run.decoded
        /\ run.pc = "manifests"
    BY <1>1, <1>8 DEF LoadSnapshots, Becomes, NewestMark, Runs
  <2>2. run.decoded = {}
    BY <2>1 DEF LogKnown, Decided
  <2>3. \A w \in 1 .. written : w > Mark(Len(snaps)) => w \in wal
    <3>1. Mark(Len(snaps)) \in Nat
      BY <1>1, MarkType
    <3>2. \A w \in 1 .. written : w > Mark(Len(snaps)) => ~(w <= Mark(Len(snaps)))
      BY <1>1, <3>1
    <3>3. QED
      BY <3>2 DEF LogSound
  <2>4. QED
    BY <1>2, <1>3, <2>1, <2>2, <2>3 DEF LogKnown, Decided, LogRead
<1>9. CASE LoadIndex \/ LoadDeltas
  <2>1. run' = [run EXCEPT !.pc = "deltas", !.index = index]
        \/ \E live : run' = [run EXCEPT !.pc = "wal", !.live = live, !.index.files = {}]
    BY <1>9 DEF LoadIndex, LoadDeltas, Becomes
  <2>2. /\ run'.pc \in {"deltas", "wal"} /\ run'.mark = run.mark /\ run'.decoded = run.decoded
        /\ run'.swept = run.swept
    BY <1>1, <2>1 DEF Runs
  <2>3. run.pc \in {"index", "deltas"}
    BY <1>9 DEF LoadIndex, LoadDeltas
  <2>4. run.decoded = {} /\ (~run.swept => \A w \in 1 .. written : w > run.mark => w \in wal)
    BY <2>3 DEF LogKnown, Decided
  <2>5. QED
    BY <1>2, <1>3, <2>2, <2>4 DEF LogKnown, Decided, LogRead
<1>10. CASE CheckWAL
  <2>1. /\ run'.pc = "catalog" /\ run'.mark = run.mark /\ run'.decoded = run.decoded
        /\ run'.swept = run.swept /\ run'.pending = Unsnapshotted(run.mark)
        /\ run'.flushed = written /\ run.pc = "wal"
    BY <1>1, <1>10 DEF CheckWAL, Becomes, Runs
  <2>2. run.decoded = {} /\ (~run.swept => \A w \in 1 .. written : w > run.mark => w \in wal)
    BY <2>1 DEF LogKnown, Decided
  <2>3. PICK m \in Nat : m = run.mark
    <3>1. run.mark \in 0 .. written
      BY <1>1 DEF Runs
    <3>2. run.mark \in Nat
      BY <1>1, <3>1
    <3>3. QED
      BY <3>2
  <2>4. Unsnapshotted(run.mark) = {w \in wal : w > m}
    BY <2>3 DEF Unsnapshotted
  <2>5. {w \in wal : w > m} \subseteq m + 1 .. written
    <3>1. \A w \in 1 .. written : w > m => w \in m + 1 .. written
      BY <1>1, <2>3
    <3>2. QED
      BY <1>1, <3>1
  <2>6. (\A w \in 1 .. written : w > m => w \in wal) => m + 1 .. written \subseteq {w \in wal : w > m}
    <3>1. \A w \in m + 1 .. written : w \in 1 .. written /\ w > m
      BY <1>1, <2>3
    <3>2. QED
      BY <3>1
  <2>7. /\ run'.pending \subseteq run'.mark + 1 .. run'.flushed
        /\ ~run'.swept => run'.pending = run'.mark + 1 .. run'.flushed
    BY <2>1, <2>2, <2>3, <2>4, <2>5, <2>6
  <2>8. QED
    BY <2>1, <2>2, <2>7 DEF LogKnown, Decided, LogRead
<1>11. CASE LoadCatalog
  <2>1. /\ run'.pc = "decode" /\ run.pc = "catalog" /\ run'.mark = run.mark
        /\ run'.decoded = run.decoded /\ run'.swept = run.swept /\ run'.pending = run.pending
        /\ run'.flushed = run.flushed
    BY <1>1, <1>11 DEF LoadCatalog, Becomes, Runs
  <2>2. QED
    BY <2>1 DEF LogKnown, Decided, LogRead
<1>12. CASE DecodeWAL
  <2>1. /\ run.pc = "decode" /\ run.decoded = {}
        /\ run.pending \subseteq run.mark + 1 .. run.flushed
        /\ ~run.swept => run.pending = run.mark + 1 .. run.flushed
    BY <1>12 DEF DecodeWAL, LogKnown, Decided, LogRead
  <2>2. CASE Becomes([run EXCEPT !.pc = "reconcile"]) /\ (run.pending = {} \/ run.skip)
    <3>1. /\ run'.pc = "reconcile" /\ run'.mark = run.mark /\ run'.flushed = run.flushed
          /\ run'.decoded = run.decoded /\ run'.skip = run.skip /\ run'.swept = run.swept
      BY <1>1, <2>2 DEF Becomes, Runs
    <3>2. QED
      BY <2>1, <2>2, <3>1 DEF LogKnown, Decided, LogRead
  <2>3. CASE Becomes([run EXCEPT !.pc = "reconcile", !.decoded = run.pending, !.pending = {}])
             /\ ~run.skip
    <3>1. /\ run'.pc = "reconcile" /\ run'.mark = run.mark /\ run'.flushed = run.flushed
          /\ run'.decoded = run.pending /\ run'.skip = run.skip /\ run'.swept = run.swept
      BY <1>1, <2>3 DEF Becomes, Runs
    <3>2. QED
      BY <2>1, <2>3, <3>1 DEF LogKnown, Decided, LogRead
  <2>4. QED
    BY <1>5, <1>12, <2>2, <2>3 DEF DecodeWAL
<1>13. CASE \/ Reconcile /\ Becomes([run EXCEPT !.pc = "config"])
            \/ CheckConfig /\ run' = [run EXCEPT !.pc = "loading"]
            \/ Load /\ Becomes([run EXCEPT !.pc = "done"])
  <2>1. /\ run'.pc \in {"config", "loading", "done"} /\ Decided
        /\ run'.mark = run.mark /\ run'.flushed = run.flushed
        /\ run'.decoded = run.decoded /\ run'.skip = run.skip /\ run'.swept = run.swept
    BY <1>1, <1>13 DEF Becomes, Runs, Decided, Reconcile, CheckConfig, Load
  <2>2. /\ run.decoded \subseteq run.mark + 1 .. run.flushed
        /\ run.skip => run.decoded = {}
        /\ ~run.skip /\ ~run.swept => run.decoded = run.mark + 1 .. run.flushed
    BY <2>1 DEF LogKnown
  <2>3. QED
    BY <2>1, <2>2 DEF LogKnown, Decided, LogRead
<1>14. Reconcile => LogKnown'
  BY <1>5, <1>13 DEF Reconcile
<1>15. CheckConfig => LogKnown'
  BY <1>5, <1>13 DEF CheckConfig, Becomes
<1>16. Load \/ Exit => LogKnown'
  BY <1>6, <1>13 DEF Load, Exit, Becomes
<1>17. QED
  BY <1>7, <1>8, <1>9, <1>10, <1>11, <1>12, <1>14, <1>15, <1>16 DEF Tool

LEMMA CatalogKnownTool ==
  ASSUME TypeOK, LogSound, CatalogKnown, Tool
  PROVE  CatalogKnown'
<1>1. /\ run \in Runs /\ Len(snaps) \in Nat /\ written \in Nat /\ columns \in Nat
      /\ needs \in Seq(1 .. MaxColumns)
  BY MarkType, ColumnsType DEF TypeOK, columns
<1>2. UNCHANGED <<needs, snaps>>
  BY DEF Tool, Start, LoadSnapshots, LoadIndex, LoadDeltas, CheckWAL, LoadCatalog, DecodeWAL,
         Reconcile, CheckConfig, Load, Exit, Becomes, Refuse, store
<1>3. run.why # "column"
  BY DEF CatalogKnown
<1>4. ASSUME run'.why # "column", run'.pc \notin {"decode", "reconcile", "config", "loading", "done"},
             run'.pc # "refused" => run'.catalog = "none"
      PROVE  CatalogKnown'
  BY <1>4 DEF CatalogKnown, CatalogRead
<1>5. CASE run' = Idle
  BY <1>4, <1>5 DEF Idle
<1>6. ASSUME NEW why, Refuse(why), why # "column" PROVE CatalogKnown'
  BY <1>1, <1>4, <1>6 DEF Refuse, Runs
<1>7. CASE Start
  <2>1. run'.pc \in {"refused", "manifests"} /\ run'.why # "column" /\ run'.catalog = "none"
    BY <1>7 DEF Start, Idle
  <2>2. QED
    BY <1>4, <2>1
<1>8. CASE LoadSnapshots \/ LoadIndex \/ LoadDeltas \/ CheckWAL
  <2>1. /\ run'.pc \in {"index", "deltas", "wal", "catalog"} /\ run'.why = run.why
        /\ run'.catalog = run.catalog
    BY <1>1, <1>8 DEF LoadSnapshots, LoadIndex, LoadDeltas, CheckWAL, Becomes, Runs
  <2>2. run.pc \in {"manifests", "index", "deltas", "wal"}
    BY <1>8 DEF LoadSnapshots, LoadIndex, LoadDeltas, CheckWAL
  <2>3. run.catalog = "none"
    BY <2>2 DEF CatalogKnown, CatalogRead
  <2>4. QED
    BY <1>3, <1>4, <2>1, <2>3
<1>9. \A f : WritesOf(f)' = WritesOf(f)
  BY <1>2 DEF WritesOf, Mark
<1>10. CASE LoadCatalog
  <2>1. /\ run.pc = "catalog" /\ run'.pc = "decode" /\ run'.why = run.why /\ run'.seen = run.seen
        /\ run'.index = run.index /\ run'.pending = run.pending /\ run'.decoded = run.decoded
        /\ run'.live = run.live
    BY <1>1, <1>10 DEF LoadCatalog, Becomes, Runs
  <2>2. run'.catalog = "fresh" => run'.columns = 1 .. columns
    <3>1. run.catalog = "none"
      BY <2>1 DEF CatalogKnown, CatalogRead
    <3>2. PICK n \in 0 .. columns :
            \/ Becomes([run EXCEPT !.pc = "decode", !.catalog = "fresh",
                                   !.columns = Replayed(n, columns)])
            \/ Becomes([run EXCEPT !.pc = "decode", !.catalog = "stale", !.columns = 1 .. n])
            \/ Becomes([run EXCEPT !.pc = "decode"])
      BY <1>10 DEF LoadCatalog
    <3>3. Replayed(n, columns) = 1 .. columns
      BY <1>1 DEF Replayed
    <3>4. QED
      BY <1>1, <3>1, <3>2, <3>3 DEF Becomes, Runs
  <2>3. Described' = Described
    BY <1>9, <2>1 DEF Described
  <2>4. ASSUME NEW w \in 1 .. written PROVE 1 .. needs[w] \subseteq 1 .. columns /\ columns # 0
    <3>1. needs # <<>> /\ written \in 1 .. written /\ w <= written
      BY <1>1, EmptySeq DEF written
    <3>2. columns = needs[written]
      BY <3>1 DEF columns, Last, written
    <3>3. needs[w] \in 1 .. MaxColumns /\ needs[written] \in 1 .. MaxColumns
      BY <1>1, <3>1, ElementOfSeq DEF written
    <3>4. needs[w] <= needs[written]
      BY <3>1 DEF LogSound
    <3>5. QED
      BY <3>2, <3>3, <3>4
  <2>5. \A w \in Described : 1 .. needs[w] \subseteq 1 .. columns
    BY <2>4, DescribedWrites
  <2>6. 1 .. columns = {} => /\ run.seen = 0 /\ run.index.floor = 0
                             /\ run.live = {} /\ run.pending = {} /\ run.decoded = {}
    <3>1. SUFFICES ASSUME 1 .. columns = {}
                   PROVE  /\ run.seen = 0 /\ run.index.floor = 0
                          /\ run.live = {} /\ run.pending = {} /\ run.decoded = {}
      OBVIOUS
    <3>2. columns = 0
      BY <1>1, <3>1
    <3>3. 1 .. written = {}
      BY <2>4, <3>2
    <3>4. run.pending = {} /\ run.decoded = {}
      BY <1>1, <3>3 DEF Runs
    <3>5. Len(snaps) = 0
      <4>1. SUFFICES ASSUME Len(snaps) # 0 PROVE FALSE
        OBVIOUS
      <4>2. 0 \in 0 .. Len(snaps) /\ 1 \in 0 .. Len(snaps) /\ 0 < 1
        BY <1>1, <4>1
      <4>3. Mark(0) < Mark(1)
        BY <4>2 DEF LogSound
      <4>4. Mark(0) \in 0 .. written /\ Mark(1) \in 0 .. written
        BY <4>2, MarkType
      <4>5. Mark(1) \in 1 .. written
        BY <1>1, <4>3, <4>4
      <4>6. QED
        BY <3>3, <4>5
    <3>6. run.seen \in 0 .. Len(snaps) /\ run.index.floor \in 0 .. Len(snaps)
      BY <1>1 DEF Runs, Indexes
    <3>7. run.live = {}
      <4>1. run.live \subseteq 1 .. Len(snaps)
        BY <1>1 DEF Runs, Files
      <4>2. 1 .. Len(snaps) = {}
        BY <3>5
      <4>3. QED
        BY <4>1, <4>2
    <3>8. QED
      BY <3>4, <3>5, <3>6, <3>7
  <2>7. run'.catalog = "fresh" =>
          /\ \A w \in Described' : 1 .. needs'[w] \subseteq run'.columns
          /\ run'.columns = {} => /\ run'.seen = 0 /\ run'.index.floor = 0
                                  /\ run'.live = {} /\ run'.pending = {} /\ run'.decoded = {}
    BY <1>2, <2>1, <2>2, <2>3, <2>5, <2>6
  <2>8. QED
    BY <1>3, <2>1, <2>7 DEF CatalogKnown, CatalogRead
<1>11. ASSUME CatalogRead, run'.pc # "refused", run'.pc # "idle",
              /\ run'.pc \in {"reconcile", "config", "loading", "done"}
              /\ run'.why = run.why /\ run'.seen = run.seen /\ run'.catalog = run.catalog
              /\ run'.index = run.index /\ run'.live = run.live /\ run'.columns = run.columns,
              \/ run'.pending = run.pending /\ run'.decoded = run.decoded
              \/ run'.pending = {} /\ run'.decoded = run.pending
       PROVE  CatalogKnown'
  <2>1. Described' \subseteq Described
    BY <1>9, <1>11 DEF Described
  <2>2. run.catalog = "fresh" =>
          /\ \A w \in Described : 1 .. needs[w] \subseteq run.columns
          /\ run.columns = {} => /\ run.seen = 0 /\ run.index.floor = 0
                                 /\ run.live = {} /\ run.pending = {} /\ run.decoded = {}
    BY <1>11 DEF CatalogKnown
  <2>3. run'.catalog = "fresh" =>
          /\ \A w \in Described' : 1 .. needs'[w] \subseteq run'.columns
          /\ run'.columns = {} => /\ run'.seen = 0 /\ run'.index.floor = 0
                                  /\ run'.live = {} /\ run'.pending = {} /\ run'.decoded = {}
    BY <1>2, <1>11, <2>1, <2>2
  <2>4. CatalogRead'
    BY <1>11 DEF CatalogRead
  <2>5. QED
    BY <1>3, <1>11, <2>3, <2>4 DEF CatalogKnown
<1>12. CASE DecodeWAL
  <2>1. CatalogRead
    BY <1>12 DEF DecodeWAL, CatalogRead
  <2>2. CASE Becomes([run EXCEPT !.pc = "reconcile"])
    <3>1. /\ run'.pc = "reconcile" /\ run'.why = run.why /\ run'.seen = run.seen
          /\ run'.index = run.index /\ run'.live = run.live /\ run'.columns = run.columns
          /\ run'.pending = run.pending /\ run'.decoded = run.decoded
          /\ run'.catalog = run.catalog
      BY <1>1, <2>2 DEF Becomes, Runs
    <3>2. QED
      BY <1>11, <2>1, <3>1
  <2>3. CASE Becomes([run EXCEPT !.pc = "reconcile", !.decoded = run.pending, !.pending = {}])
    <3>1. /\ run'.pc = "reconcile" /\ run'.why = run.why /\ run'.seen = run.seen
          /\ run'.index = run.index /\ run'.live = run.live /\ run'.columns = run.columns
          /\ run'.pending = {} /\ run'.decoded = run.pending
          /\ run'.catalog = run.catalog
      BY <1>1, <2>3 DEF Becomes, Runs
    <3>2. QED
      BY <1>11, <2>1, <3>1
  <2>4. ~ (/\ run.catalog = "fresh" /\ MissingColumn(run.pending, run.columns))
    <3>1. run.pending \subseteq Described
      BY DEF Described
    <3>2. QED
      BY <2>1, <3>1 DEF CatalogKnown, MissingColumn
  <2>5. QED
    BY <1>6, <1>12, <2>2, <2>3, <2>4 DEF DecodeWAL
<1>13. CASE \/ Reconcile /\ Becomes([run EXCEPT !.pc = "config"])
            \/ CheckConfig /\ run' = [run EXCEPT !.pc = "loading"]
            \/ Load /\ Becomes([run EXCEPT !.pc = "done"])
  <2>1. CatalogRead
    BY <1>13 DEF Reconcile, CheckConfig, Load, CatalogRead
  <2>2. /\ run'.pc \in {"config", "loading", "done"} /\ run'.why = run.why
        /\ run'.seen = run.seen
        /\ run'.index = run.index /\ run'.live = run.live /\ run'.columns = run.columns
        /\ run'.pending = run.pending /\ run'.decoded = run.decoded
        /\ run'.catalog = run.catalog
    BY <1>1, <1>13 DEF Becomes, Runs
  <2>3. QED
    BY <1>11, <2>1, <2>2
<1>14. Reconcile => CatalogKnown'
  BY <1>6, <1>13 DEF Reconcile
<1>15. CheckConfig => CatalogKnown'
  BY <1>6, <1>13 DEF CheckConfig, Becomes
<1>16. Load \/ Exit => CatalogKnown'
  BY <1>5, <1>13 DEF Load, Exit, Becomes
<1>17. QED
  BY <1>7, <1>8, <1>10, <1>12, <1>14, <1>15, <1>16 DEF Tool

LEMMA UndisturbedTool ==
  ASSUME TypeOK, LogKnown, Undisturbed, Tool
  PROVE  Undisturbed'
<1>1. run \in Runs
  BY DEF TypeOK
<1>2. UNCHANGED <<snaps, server, wal>>
  BY DEF Tool, Start, LoadSnapshots, LoadIndex, LoadDeltas, CheckWAL, LoadCatalog, DecodeWAL,
         Reconcile, CheckConfig, Load, Exit, Becomes, Refuse, store
<1>3. Files' = Files /\ \A m : Unsnapshotted(m)' = Unsnapshotted(m)
  BY <1>2 DEF Files, Unsnapshotted
<1>4. ASSUME run'.pc \in {"refused", "manifests"}, run'.steps = 0 => run'.gone = Files \ server
      PROVE  Undisturbed'
  BY <1>2, <1>3, <1>4 DEF Undisturbed, Listed, LogRead, Decided
<1>5. CASE run' = Idle
  BY <1>5 DEF Idle, Undisturbed, Listed, LogRead, Decided
<1>6. ASSUME NEW why, Refuse(why), run.pc # "idle" PROVE Undisturbed'
  BY <1>1, <1>4, <1>6 DEF Refuse, Runs, Undisturbed
<1>7. CASE Start
  <2>1. run'.pc \in {"refused", "manifests"} /\ run'.gone = Files \ server
    BY <1>7 DEF Start, Idle
  <2>2. QED
    BY <1>4, <2>1
<1>8. CASE LoadSnapshots
  <2>1. /\ run.pc = "manifests" /\ run'.pc = "index" /\ run'.seen = Len(snaps)
        /\ run'.gone = run.gone /\ run'.steps = run.steps
    BY <1>1, <1>8 DEF LoadSnapshots, Becomes, Runs
  <2>2. QED
    BY <1>2, <1>3, <2>1 DEF Undisturbed, Listed, LogRead, Decided
<1>9. CASE LoadIndex \/ LoadDeltas
  <2>1. run' = [run EXCEPT !.pc = "deltas", !.index = index]
        \/ \E live : run' = [run EXCEPT !.pc = "wal", !.live = live, !.index.files = {}]
    BY <1>9 DEF LoadIndex, LoadDeltas, Becomes
  <2>2. /\ run'.pc \in {"deltas", "wal"} /\ run'.seen = run.seen
        /\ run'.gone = run.gone /\ run'.steps = run.steps
    BY <1>1, <2>1 DEF Runs
  <2>3. run.pc # "idle" /\ Listed
    BY <1>9 DEF LoadIndex, LoadDeltas, Listed
  <2>4. QED
    BY <1>2, <1>3, <2>2, <2>3 DEF Undisturbed, LogRead, Decided
<1>10. CASE CheckWAL
  <2>1. /\ run'.pc = "catalog" /\ run'.seen = run.seen /\ run'.mark = run.mark
        /\ run'.gone = run.gone /\ run'.steps = run.steps
        /\ run'.pending = Unsnapshotted(run.mark)
    BY <1>1, <1>10 DEF CheckWAL, Becomes, Runs
  <2>2. run.pc # "idle" /\ Listed
    BY <1>10 DEF CheckWAL, Listed
  <2>3. Unsnapshotted(run.mark)' = Unsnapshotted(run.mark)
    BY <1>2, <2>1 DEF Unsnapshotted
  <2>4. QED
    BY <1>2, <1>3, <2>1, <2>2, <2>3 DEF Undisturbed, LogRead, Decided
<1>11. CASE LoadCatalog
  <2>1. /\ run'.pc = "decode" /\ run'.seen = run.seen /\ run'.mark = run.mark
        /\ run'.gone = run.gone /\ run'.steps = run.steps /\ run'.pending = run.pending
    BY <1>1, <1>11 DEF LoadCatalog, Becomes, Runs
  <2>2. run.pc # "idle" /\ Listed /\ LogRead
    BY <1>11 DEF LoadCatalog, Listed, LogRead
  <2>3. Unsnapshotted(run.mark)' = Unsnapshotted(run.mark)
    BY <1>2, <2>1 DEF Unsnapshotted
  <2>4. QED
    BY <1>2, <1>3, <2>1, <2>2, <2>3 DEF Undisturbed, Decided
<1>12. CASE DecodeWAL
  <2>1. run.pc # "idle" /\ Listed /\ LogRead /\ run.decoded = {}
    BY <1>12 DEF DecodeWAL, Listed, LogRead, LogKnown, Decided
  <2>2. CASE Becomes([run EXCEPT !.pc = "reconcile"]) /\ (run.pending = {} \/ run.skip)
    <3>1. /\ run'.pc = "reconcile" /\ run'.seen = run.seen /\ run'.mark = run.mark
          /\ run'.gone = run.gone /\ run'.steps = run.steps /\ run'.skip = run.skip
          /\ run'.decoded = run.decoded
      BY <1>1, <2>2 DEF Becomes, Runs
    <3>2. Unsnapshotted(run.mark)' = Unsnapshotted(run.mark)
      BY <1>2, <3>1 DEF Unsnapshotted
    <3>3. QED
      BY <1>2, <1>3, <2>1, <2>2, <3>1, <3>2 DEF Undisturbed, LogRead
  <2>3. CASE Becomes([run EXCEPT !.pc = "reconcile", !.decoded = run.pending, !.pending = {}])
             /\ ~run.skip
    <3>1. /\ run'.pc = "reconcile" /\ run'.seen = run.seen /\ run'.mark = run.mark
          /\ run'.gone = run.gone /\ run'.steps = run.steps /\ run'.skip = run.skip
          /\ run'.decoded = run.pending
      BY <1>1, <2>3 DEF Becomes, Runs
    <3>2. Unsnapshotted(run.mark)' = Unsnapshotted(run.mark)
      BY <1>2, <3>1 DEF Unsnapshotted
    <3>3. QED
      BY <1>2, <1>3, <2>1, <2>3, <3>1, <3>2 DEF Undisturbed, LogRead
  <2>4. QED
    BY <1>6, <1>12, <2>1, <2>2, <2>3 DEF DecodeWAL
<1>13. CASE \/ Reconcile /\ Becomes([run EXCEPT !.pc = "config"])
            \/ CheckConfig /\ run' = [run EXCEPT !.pc = "loading"]
            \/ Load /\ Becomes([run EXCEPT !.pc = "done"])
  <2>1. run.pc # "idle" /\ Listed /\ Decided
    BY <1>13 DEF Reconcile, CheckConfig, Load, Listed, Decided
  <2>2. /\ run'.pc \in {"config", "loading", "done"} /\ run'.seen = run.seen
        /\ run'.mark = run.mark
        /\ run'.gone = run.gone /\ run'.steps = run.steps /\ run'.skip = run.skip
        /\ run'.decoded = run.decoded
    BY <1>1, <1>13 DEF Becomes, Runs
  <2>3. Unsnapshotted(run.mark)' = Unsnapshotted(run.mark)
    BY <1>2, <2>2 DEF Unsnapshotted
  <2>4. QED
    BY <1>2, <1>3, <2>1, <2>2, <2>3 DEF Undisturbed, LogRead
<1>14. Reconcile => Undisturbed'
  BY <1>6, <1>13 DEF Reconcile
<1>15. CheckConfig => Undisturbed'
  BY <1>6, <1>13 DEF CheckConfig, Becomes
<1>16. Load \/ Exit => Undisturbed'
  BY <1>5, <1>13 DEF Load, Exit, Becomes
<1>17. QED
  BY <1>7, <1>8, <1>9, <1>10, <1>11, <1>12, <1>14, <1>15, <1>16 DEF Tool

-----------------------------------------------------------------------------
(* The fingerprint.                                                        *)

\* What the fingerprint says of the decoded log.
LEMMA FingerprintTells ==
  ASSUME TypeOK, LogKnown, Decided, ~run.swept
  PROVE  run.decoded = run.mark + 1 .. Max({0} \cup run.decoded)
<1>1. run.mark \in Nat /\ run.flushed \in Nat
  <2>1. run.mark \in 0 .. written /\ run.flushed \in 0 .. written
    BY DEF TypeOK, Runs
  <2>2. QED
    BY <2>1
<1>2. CASE run.decoded = {}
  <2>1. {0} \cup run.decoded = {0}
    BY <1>2
  <2>2. 0 \in Nat /\ {0} \in SUBSET (0 .. 0) /\ {0} # {}
    OBVIOUS
  <2>3. Max({0}) \in {0}
    BY ONLY <2>2, MaxOf
  <2>4. Max({0} \cup run.decoded) = 0
    BY <2>1, <2>3
  <2>5. run.mark + 1 .. 0 = {}
    BY <1>1
  <2>6. QED
    BY <1>2, <2>4, <2>5
<1>3. CASE run.decoded = run.mark + 1 .. run.flushed
  BY <1>1, <1>3, DecodedEnd
<1>4. QED
  BY <1>2, <1>3 DEF LogKnown, Decided

\* As long as nobody touches the store, the live set is the server's.
LEMMA LiveIsServers ==
  ASSUME TypeOK, FilesKnown, Undisturbed, Decided, run.steps = 0
  PROVE  /\ run.live = server
         /\ run.mark = Mark(Len(snaps))
         /\ run.decoded = IF run.skip THEN {} ELSE Unsnapshotted(Mark(Len(snaps)))
<1>1. Len(snaps) \in Nat /\ run.live \subseteq Files /\ server \subseteq Files
  BY MarkType DEF TypeOK, Runs
<1>2. Built /\ Listed /\ run.pc # "idle"
  BY DEF Built, Listed, Decided
<1>3. run.gone = Files \ server /\ run.seen = Len(snaps)
  BY <1>2 DEF Undisturbed
<1>4. run.live \cap run.gone = {} /\ (\A x \in server : x <= run.seen => x \in run.live)
      /\ run.mark = Mark(run.seen)
  BY <1>2 DEF FilesKnown
<1>5. \A x \in server : x <= run.seen
  BY <1>1, <1>3 DEF Files
<1>6. run.live = server
  BY <1>1, <1>3, <1>4, <1>5
<1>7. QED
  BY <1>3, <1>4, <1>6 DEF Undisturbed

LEMMA CheckpointTool ==
  ASSUME TypeOK, FilesKnown, LogKnown, Undisturbed, CheckpointSound, Tool
  PROVE  CheckpointSound'
<1>1. UNCHANGED <<snaps, server, wal>>
  BY DEF Tool, Start, LoadSnapshots, LoadIndex, LoadDeltas, CheckWAL, LoadCatalog, DecodeWAL,
         Reconcile, CheckConfig, Load, Exit, Becomes, Refuse, store
<1>2. PICK now : now = Unsnapshotted(Mark(Len(snaps)))
  OBVIOUS
<1>3. PICK m : m = Mark(Len(snaps))
  OBVIOUS
<1>4. Mark(Len(snaps))' = m
  BY <1>1, <1>3 DEF Mark
<1>5. Unsnapshotted(Mark(Len(snaps)))' = now
  BY <1>1, <1>2, <1>3, <1>4 DEF Unsnapshotted
<1>6. CASE UNCHANGED <<checkpoint, touched>>
  BY <1>1, <1>2, <1>3, <1>4, <1>5, <1>6 DEF CheckpointSound
<1>7. CASE CheckConfig /\ checkpoint = NoCheckpoint
  <2>1. /\ checkpoint' = [fp |-> Fingerprint(run), input |-> Input(run),
                          skip |-> run.skip, swept |-> run.swept]
        /\ touched' = (run.steps > 0) /\ Decided
    BY <1>7 DEF CheckConfig, Decided
  <2>2. /\ checkpoint'.fp[1] = run.live /\ checkpoint'.fp[2] = run.mark
        /\ checkpoint'.fp[3] = Max({0} \cup run.decoded)
        /\ checkpoint'.fp = <<run.live, run.mark, Max({0} \cup run.decoded)>>
        /\ checkpoint'.input.live = run.live /\ checkpoint'.input.decoded = run.decoded
        /\ checkpoint'.skip = run.skip /\ checkpoint'.swept = run.swept
    BY <2>1 DEF Fingerprint, Input
  <2>3. ~checkpoint'.swept =>
          checkpoint'.input.decoded = checkpoint'.fp[2] + 1 .. checkpoint'.fp[3]
    BY <2>1, <2>2, FingerprintTells
  <2>4. ~touched' =>
          checkpoint'.fp = <<server, m, Max({0} \cup IF checkpoint'.skip THEN {} ELSE now)>>
    <3>1. SUFFICES ASSUME ~touched'
                   PROVE  checkpoint'.fp = <<server, m,
                                             Max({0} \cup IF checkpoint'.skip THEN {} ELSE now)>>
      OBVIOUS
    <3>2. run.steps = 0
      <4>1. run.steps \in 0 .. MaxSteps
        BY DEF TypeOK, Runs
      <4>2. ~ (run.steps > 0)
        BY <2>1, <3>1
      <4>3. QED
        BY <4>1, <4>2
    <3>3. /\ run.live = server /\ run.mark = m
          /\ run.decoded = IF run.skip THEN {} ELSE now
      BY <1>2, <1>3, <2>1, <3>2, LiveIsServers
    <3>4. QED
      BY <2>2, <3>3
  <2>5. QED
    BY <1>1, <1>4, <1>5, <2>2, <2>3, <2>4 DEF CheckpointSound
<1>8. QED
  BY <1>6, <1>7
     DEF Tool, Start, LoadSnapshots, LoadIndex, LoadDeltas, CheckWAL, LoadCatalog, DecodeWAL,
         Reconcile, CheckConfig, Load, Exit, Becomes, Refuse

LEMMA EarlySteps ==
  ASSUME run \in Runs, LoadSnapshots \/ LoadIndex \/ LoadDeltas \/ CheckWAL \/ LoadCatalog
  PROVE  run'.pc \in {"index", "deltas", "wal", "catalog", "decode"}
<1>1. CASE LoadSnapshots
  BY <1>1 DEF LoadSnapshots, Becomes, Runs
<1>2. CASE LoadIndex
  BY <1>2 DEF LoadIndex, Becomes, Runs
<1>3. CASE LoadDeltas
  <2>1. \E live : run' = [run EXCEPT !.pc = "wal", !.live = live, !.index.files = {}]
    BY <1>3 DEF LoadDeltas, Becomes
  <2>2. QED
    BY <2>1 DEF Runs
<1>4. CASE CheckWAL
  BY <1>4 DEF CheckWAL, Becomes, Runs
<1>5. CASE LoadCatalog
  BY <1>5 DEF LoadCatalog, Becomes, Runs
<1>6. QED
  BY <1>1, <1>2, <1>3, <1>4, <1>5

LEMMA RefusedForCauseTool ==
  ASSUME TypeOK, FilesKnown, LogKnown, CatalogKnown, Undisturbed, CheckpointSound,
         RefusedForCause, Tool
  PROVE  RefusedForCause'
<1>1. run \in Runs
  BY DEF TypeOK
<1>2. UNCHANGED <<server, objects>>
  BY DEF Tool, Start, LoadSnapshots, LoadIndex, LoadDeltas, CheckWAL, LoadCatalog, DecodeWAL,
         Reconcile, CheckConfig, Load, Exit, Becomes, Refuse, store
<1>3. CASE run'.pc # "refused"
  BY <1>3 DEF RefusedForCause
<1>4. CASE Start
  BY <1>4 DEF Start, Idle, RefusedForCause
<1>5. CASE Load \/ Exit \/ LoadSnapshots \/ LoadIndex \/ LoadDeltas \/ CheckWAL \/ LoadCatalog
  <2>1. run'.pc # "refused"
    <3>1. CASE Load
      <4>1. run' = [run EXCEPT !.pc = "done"] \/ run' = Idle
        BY <3>1 DEF Load, Becomes
      <4>2. Idle.pc = "idle" /\ [run EXCEPT !.pc = "done"].pc = "done"
        BY <1>1 DEF Idle, Runs
      <4>3. QED
        BY <4>1, <4>2
    <3>2. CASE Exit
      BY <3>2 DEF Exit, Becomes, Idle
    <3>3. CASE LoadSnapshots \/ LoadIndex \/ LoadDeltas \/ CheckWAL \/ LoadCatalog
      BY <1>1, <3>3, EarlySteps
    <3>4. QED
      BY <1>5, <3>1, <3>2, <3>3
  <2>2. QED
    BY <1>3, <2>1
<1>6. ASSUME NEW why, Refuse(why)
      PROVE  /\ run'.pc = "refused" /\ run'.why = why /\ run'.steps = run.steps
             /\ run'.catalog = run.catalog /\ run'.skip = run.skip
             /\ checkpoint' = checkpoint /\ touched' = touched
  BY <1>1, <1>6 DEF Refuse, Runs
<1>7. CASE DecodeWAL
  <2>1. CASE Refuse("catalog") /\ run.catalog # "fresh"
    BY <1>6, <2>1 DEF RefusedForCause
  <2>2. CASE Refuse("vanished") /\ ~(run.pending \subseteq wal)
    <3>1. run.steps = 0 => run.pending = Unsnapshotted(run.mark)
      BY <1>7 DEF DecodeWAL, Undisturbed, LogRead
    <3>2. Unsnapshotted(run.mark) \subseteq wal
      BY DEF Unsnapshotted
    <3>3. run.steps # 0
      BY <2>2, <3>1, <3>2
    <3>4. QED
      BY <1>6, <2>2, <3>3 DEF RefusedForCause
  <2>3. ~ (run.catalog = "fresh" /\ MissingColumn(run.pending, run.columns))
    <3>1. run.pending \subseteq Described /\ CatalogRead
      BY <1>7 DEF Described, DecodeWAL, CatalogRead
    <3>2. QED
      BY <3>1 DEF CatalogKnown, MissingColumn
  <2>4. CASE Becomes([run EXCEPT !.pc = "reconcile"])
             \/ Becomes([run EXCEPT !.pc = "reconcile", !.decoded = run.pending, !.pending = {}])
    <3>1. run'.pc # "refused"
      BY <1>1, <2>4 DEF Becomes, Runs
    <3>2. QED
      BY <1>3, <3>1
  <2>5. QED
    BY <1>7, <2>1, <2>2, <2>3, <2>4 DEF DecodeWAL
<1>8. CASE Reconcile
  <2>1. Decided
    BY <1>8 DEF Reconcile, Decided
  <2>2. CASE Refuse("dangling") /\ Dangling # {}
    <3>1. run.steps = 0 => ~(server \subseteq objects)
      BY <2>1, <2>2, LiveIsServers DEF Dangling
    <3>2. QED
      BY <1>2, <1>6, <2>2, <3>1 DEF RefusedForCause
  <2>3. CASE Refuse("empty")
    BY <1>6, <2>3 DEF RefusedForCause
  <2>4. CASE Refuse("names") /\ run.columns = {} /\ ~NoTable
    <3>1. run.catalog # "fresh"
      BY <1>8, <2>4 DEF Reconcile, NoTable, CatalogKnown, CatalogRead
    <3>2. QED
      BY <1>6, <2>4, <3>1 DEF RefusedForCause
  <2>5. CASE Becomes([run EXCEPT !.pc = "config"])
    <3>1. run'.pc # "refused"
      BY <1>1, <2>5 DEF Becomes, Runs
    <3>2. QED
      BY <1>3, <3>1
  <2>6. QED
    BY <1>8, <2>2, <2>3, <2>4, <2>5 DEF Reconcile
<1>9. CASE CheckConfig
  <2>1. Decided
    BY <1>9 DEF CheckConfig, Decided
  <2>2. CASE run' = [run EXCEPT !.pc = "loading"]
    <3>1. run'.pc # "refused"
      BY <1>1, <2>2 DEF Runs
    <3>2. QED
      BY <1>3, <3>1
  <2>3. CASE Refuse("settings") /\ checkpoint # NoCheckpoint /\ checkpoint.fp # Fingerprint(run)
    <3>1. ASSUME run.steps = 0, ~touched, run.skip = checkpoint.skip PROVE FALSE
      <4>1. /\ run.live = server /\ run.mark = Mark(Len(snaps))
            /\ run.decoded = IF run.skip THEN {} ELSE Unsnapshotted(Mark(Len(snaps)))
        BY <2>1, <3>1, LiveIsServers
      <4>2. checkpoint.fp = <<server, Mark(Len(snaps)),
                              Max({0} \cup IF checkpoint.skip THEN {}
                                           ELSE Unsnapshotted(Mark(Len(snaps))))>>
        BY <2>3, <3>1 DEF CheckpointSound
      <4>3. Fingerprint(run) = <<run.live, run.mark, Max({0} \cup run.decoded)>>
        BY DEF Fingerprint
      <4>4. QED
        BY <2>3, <3>1, <4>1, <4>2, <4>3
    <3>2. QED
      BY <1>6, <2>3, <3>1 DEF RefusedForCause
  <2>4. QED
    BY <1>9, <2>2, <2>3 DEF CheckConfig, Becomes
<1>10. QED
  BY <1>4, <1>5, <1>7, <1>8, <1>9 DEF Tool

LEMMA SameInputTool ==
  ASSUME TypeOK, FilesKnown, LogKnown, CheckpointSound, SameInput, Tool
  PROVE  SameInput'
<1>1. run \in Runs
  BY DEF TypeOK
<1>2. CASE run'.pc \notin {"loading", "done"}
  BY <1>2 DEF SameInput
<1>3. CASE \/ Start \/ LoadSnapshots \/ LoadIndex \/ LoadDeltas \/ CheckWAL \/ LoadCatalog
           \/ Exit
  <2>1. run'.pc \notin {"loading", "done"}
    <3>1. CASE Start
      BY <3>1 DEF Start, Idle
    <3>2. CASE Exit
      BY <3>2 DEF Exit, Becomes, Idle
    <3>3. CASE LoadSnapshots \/ LoadIndex \/ LoadDeltas \/ CheckWAL \/ LoadCatalog
      BY <1>1, <3>3, EarlySteps
    <3>4. QED
      BY <1>3, <3>1, <3>2, <3>3
  <2>2. QED
    BY <1>2, <2>1
<1>4. CASE DecodeWAL \/ Reconcile
  <2>1. \/ \E why : run' = [run EXCEPT !.pc = "refused", !.why = why]
        \/ run' = [run EXCEPT !.pc = "reconcile"]
        \/ run' = [run EXCEPT !.pc = "reconcile", !.decoded = run.pending, !.pending = {}]
        \/ run' = [run EXCEPT !.pc = "config"]
    BY <1>4 DEF DecodeWAL, Reconcile, Becomes, Refuse
  <2>2. run'.pc \notin {"loading", "done"}
    BY <1>1, <2>1 DEF Runs
  <2>3. QED
    BY <1>2, <2>2
<1>5. CASE CheckConfig
  <2>1. Decided
    BY <1>5 DEF CheckConfig, Decided
  <2>2. CASE \E why : Refuse(why)
    <3>1. run'.pc = "refused"
      BY <1>1, <2>2 DEF Refuse, Runs
    <3>2. QED
      BY <1>2, <3>1
  <2>3. CASE checkpoint = NoCheckpoint
    <3>1. /\ checkpoint'.input = Input(run) /\ run' = [run EXCEPT !.pc = "loading"]
      BY <1>5, <2>3 DEF CheckConfig
    <3>2. Input(run') = Input(run)
      BY <1>1, <3>1 DEF Input, Runs
    <3>3. QED
      BY <3>1, <3>2 DEF SameInput
  <2>4. CASE /\ checkpoint # NoCheckpoint /\ checkpoint.fp = Fingerprint(run)
             /\ Becomes([run EXCEPT !.pc = "loading"])
    <3>1. checkpoint' = checkpoint /\ Input(run') = Input(run) /\ run'.swept = run.swept
      BY <1>1, <2>4 DEF Becomes, Input, Runs
    <3>2. ASSUME ~run.swept, ~checkpoint.swept PROVE Input(run) = checkpoint.input
      <4>1. /\ checkpoint.input.live = checkpoint.fp[1]
            /\ checkpoint.input.decoded = checkpoint.fp[2] + 1 .. checkpoint.fp[3]
        BY <2>4, <3>2 DEF CheckpointSound
      <4>2. /\ checkpoint.fp[1] = run.live /\ checkpoint.fp[2] = run.mark
            /\ checkpoint.fp[3] = Max({0} \cup run.decoded)
        BY <2>4 DEF Fingerprint
      <4>3. run.decoded = run.mark + 1 .. Max({0} \cup run.decoded)
        BY <2>1, <3>2, FingerprintTells
      <4>4. run.live = checkpoint.input.live /\ run.decoded = checkpoint.input.decoded
        BY <4>1, <4>2, <4>3
      <4>5. checkpoint.input \in [live : SUBSET Nat, decoded : SUBSET Nat]
        BY <2>4 DEF TypeOK, Checkpoints
      <4>6. QED
        BY <4>4, <4>5 DEF Input
    <3>3. QED
      BY <3>1, <3>2 DEF SameInput
  <2>5. QED
    BY <1>5, <2>2, <2>3, <2>4 DEF CheckConfig
<1>6. CASE Load
  <2>1. run.pc = "loading" /\ checkpoint' = checkpoint
    BY <1>6 DEF Load, Becomes
  <2>2. CASE run' = Idle
    BY <1>2, <2>2 DEF Idle
  <2>3. CASE run' = [run EXCEPT !.pc = "done"]
    <3>1. Input(run') = Input(run) /\ run'.swept = run.swept
      BY <1>1, <2>3 DEF Input, Runs
    <3>2. QED
      BY <2>1, <3>1 DEF SameInput
  <2>4. QED
    BY <1>6, <2>2, <2>3 DEF Load, Becomes
<1>7. QED
  BY <1>3, <1>4, <1>5, <1>6 DEF Tool

-----------------------------------------------------------------------------
(* The inductive invariant.                                                *)

LEMMA IInvInit ==
  ASSUME Init
  PROVE  IInv
<1>1. /\ needs = <<>> /\ wal = {} /\ snaps = <<>> /\ written = 0 /\ Len(snaps) = 0
      /\ index = [files |-> {}, floor |-> 0] /\ deltas = {} /\ objects = {}
      /\ compactor = FALSE /\ server = {} /\ run = Idle /\ runs = 0
      /\ checkpoint = NoCheckpoint /\ touched = FALSE
  BY EmptySeq DEF Init, written
<1>2. Files = {} /\ columns = 0
  BY <1>1 DEF Files, columns
<1>3. TypeOK
  <2>1. needs \in Seq(1 .. MaxColumns) /\ snaps \in Seq([mark : 1 .. written, removed : SUBSET Files])
    BY <1>1, EmptySeq
  <2>2. MaxRuns \in Nat /\ MaxSteps \in Nat
    BY BoundsAssumption
  <2>3. 0 \in 0 .. MaxRuns /\ 0 \in 0 .. MaxSteps /\ 0 \in 0 .. 0
    BY <2>2
  <2>4. index \in Indexes
    BY <1>1, <1>2, <2>3 DEF Indexes
  <2>5. run \in Runs
    BY <1>1, <1>2, <2>3, <2>4 DEF Idle, Runs
  <2>6. QED
    BY <1>1, <1>2, <2>1, <2>3, <2>4, <2>5 DEF TypeOK
<1>4. LogSound
  BY <1>1 DEF LogSound
<1>5. MetadataSound /\ DeltasSound
  BY <1>1, <1>2 DEF MetadataSound, DeltasSound
<1>6. FilesKnown /\ LogKnown /\ CatalogKnown /\ Undisturbed
  BY <1>1 DEF FilesKnown, LogKnown, CatalogKnown, Undisturbed, Idle, Listed, Built, LogRead,
              CatalogRead, Decided
<1>7. CheckpointSound /\ RefusedForCause /\ SameInput
  BY <1>1 DEF CheckpointSound, RefusedForCause, SameInput, Idle
<1>8. QED
  BY <1>3, <1>4, <1>5, <1>6, <1>7 DEF IInv

LEMMA IInvNext ==
  ASSUME IInv, [Next]_vars
  PROVE  IInv'
<1>1. /\ TypeOK /\ LogSound /\ MetadataSound /\ DeltasSound /\ FilesKnown /\ LogKnown
      /\ CatalogKnown /\ Undisturbed /\ CheckpointSound /\ RefusedForCause /\ SameInput
  BY DEF IInv
<1>2. CASE Server
  <2>1. TypeOK' /\ LogSound' /\ MetadataSound' /\ DeltasSound'
    BY <1>1, <1>2, TypeServer, LogSoundKept, MetadataSoundKept, DeltasSoundKept
  <2>2. FilesKnown' /\ LogKnown' /\ CatalogKnown'
    BY <1>1, <1>2, FilesKnownServer, LogKnownServer, CatalogKnownServer
  <2>3. Undisturbed' /\ CheckpointSound' /\ RefusedForCause' /\ SameInput'
    BY <1>1, <1>2, RestServer
  <2>4. QED
    BY <2>1, <2>2, <2>3 DEF IInv
<1>3. CASE Tool
  <2>1. TypeOK'
    BY <1>1, <1>3, TypeTool
  <2>2. UNCHANGED store
    BY <1>3 DEF Tool, Start, LoadSnapshots, LoadIndex, LoadDeltas, CheckWAL, LoadCatalog,
                DecodeWAL, Reconcile, CheckConfig, Load, Exit, Becomes, Refuse
  <2>3. LogSound' /\ MetadataSound' /\ DeltasSound'
    BY <1>1, <2>2, StoreKept
  <2>4. FilesKnown' /\ LogKnown' /\ CatalogKnown' /\ Undisturbed'
    BY <1>1, <1>3, FilesKnownTool, LogKnownTool, CatalogKnownTool, UndisturbedTool
  <2>5. CheckpointSound' /\ RefusedForCause' /\ SameInput'
    BY <1>1, <1>3, CheckpointTool, RefusedForCauseTool, SameInputTool
  <2>6. QED
    BY <2>1, <2>3, <2>4, <2>5 DEF IInv
<1>4. CASE UNCHANGED vars
  <2> USE <1>4 DEF vars, store
  <2>1. TypeOK'
    BY <1>1 DEF TypeOK, written, columns, Files, Indexes, Runs
  <2>2. LogSound' /\ MetadataSound' /\ DeltasSound'
    BY <1>1, StoreKept
  <2>3. FilesKnown'
    BY <1>1 DEF FilesKnown, Listed, Built, Mark, Forgotten, Removed, Files
  <2>4. LogKnown'
    BY <1>1 DEF LogKnown, LogRead, Decided, written
  <2>5. CatalogKnown'
    BY <1>1 DEF CatalogKnown, CatalogRead, Described, WritesOf, Mark
  <2>6. Undisturbed'
    BY <1>1 DEF Undisturbed, Listed, LogRead, Decided, Files, Unsnapshotted
  <2>7. CheckpointSound' /\ RefusedForCause' /\ SameInput'
    BY <1>1 DEF CheckpointSound, RefusedForCause, SameInput, Mark, Unsnapshotted
  <2>8. QED
    BY <2>1, <2>2, <2>3, <2>4, <2>5, <2>6, <2>7 DEF IInv
<1>5. QED
  BY <1>2, <1>3, <1>4 DEF Next

LEMMA Invariance == Spec => []IInv
<1>1. Init => IInv
  BY IInvInit
<1>2. IInv /\ [Next]_vars => IInv'
  BY IInvNext
<1>3. QED
  BY <1>1, <1>2, PTL DEF Spec

-----------------------------------------------------------------------------
(* The theorems.                                                           *)

(* setupV3FS (cmd/tsm2arc/v3.go): every value a run takes from a store is  *)
(* of its type, however long the server and the tool go on.                *)
THEOREM V3TypeCorrect == Spec => []TypeOK
<1>1. IInv => TypeOK
  BY DEF IInv
<1>2. QED
  BY <1>1, Invariance, PTL

(* The order in which setupV3FS reads manifests, index, deltas and log     *)
(* loses nothing: a write that had been flushed when the log was listed is *)
(* decoded from the log, or in a live file, or in one the server dropped.  *)
THEOREM NothingIsMissed == Spec => []NothingMissed
<1>1. ASSUME IInv PROVE NothingMissed
  <2>1. TypeOK /\ LogKnown /\ FilesKnown
    BY <1>1 DEF IInv
  <2>2. SUFFICES ASSUME Accepted, ~run.skip, ~run.swept, NEW w \in 1 .. run.flushed
                 PROVE  \/ w \in run.decoded
                        \/ \E f \in run.live \cup (Files \ server) : w \in WritesOf(f)
    BY DEF NothingMissed
  <2>3. Decided /\ Built /\ Listed
    BY <2>2 DEF Accepted, Decided, Built, Listed
  <2>4. run.decoded = run.mark + 1 .. run.flushed /\ run.mark = Mark(run.seen)
    BY <2>1, <2>2, <2>3 DEF LogKnown, FilesKnown
  <2>5. /\ run.seen \in 0 .. Len(snaps) /\ run.flushed \in 0 .. written
        /\ Len(snaps) \in Nat /\ written \in Nat /\ Mark(run.seen) \in 0 .. written
    BY <2>1, MarkType DEF TypeOK, Runs
  <2>6. CASE w <= Mark(run.seen)
    <3>1. w \in Nat /\ 1 <= w
      BY <2>5
    <3>2. PICK f \in 1 .. run.seen : w \in WritesOf(f)
      BY <2>1, <2>5, <2>6, <3>1, Tiling
    <3>3. f \in Files /\ f <= run.seen
      BY <2>5 DEF Files
    <3>4. f \in server => f \in run.live
      BY <2>1, <2>3, <3>3 DEF FilesKnown
    <3>5. QED
      BY <3>2, <3>3, <3>4
  <2>7. CASE ~ (w <= Mark(run.seen))
    <3>1. w \in run.mark + 1 .. run.flushed
      BY <2>4, <2>5, <2>7
    <3>2. QED
      BY <2>4, <3>1
  <2>8. QED
    BY <2>6, <2>7
<1>2. QED
  BY <1>1, Invariance, PTL

(* BuildLiveSet keeps no file that the index, a manifest or a delta says   *)
(* is gone: what retention or a delete had dropped is not migrated.        *)
THEOREM NothingIsResurrected == Spec => []NothingResurrected
<1>1. ASSUME IInv PROVE NothingResurrected
  <2>1. Accepted => Built
    BY DEF Accepted, Built
  <2>2. QED
    BY <1>1, <2>1 DEF IInv, FilesKnown, NothingResurrected
<1>2. QED
  BY <1>1, Invariance, PTL

(* The catalog is read last, its checkpoint and every log above it: no     *)
(* column of a live file or of a decoded log file is missing.              *)
THEOREM CatalogCovers == Spec => []CatalogCoversData
<1>1. ASSUME IInv PROVE CatalogCoversData
  <2>1. CatalogKnown
    BY <1>1 DEF IInv
  <2>2. run.pc = "loading" => CatalogRead
    BY DEF CatalogRead
  <2>3. run.decoded \cup UNION {WritesOf(f) : f \in run.live} \subseteq Described
    BY DEF Described
  <2>4. QED
    BY <2>1, <2>2, <2>3 DEF CatalogKnown, CatalogCoversData, MissingColumn
<1>2. QED
  BY <1>1, Invariance, PTL

(* A store that nobody touches during the run is refused only for a reason *)
(* that is in the store or in the operator's flags.                        *)
THEOREM RefusalHasCause == Spec => []RefusedForCause
<1>1. IInv => RefusedForCause
  BY DEF IInv
<1>2. QED
  BY <1>1, Invariance, PTL

(* CheckConfig's fingerprint, live files, mark and end of the decoded log, *)
(* is enough: two runs with the same one load the same input.              *)
THEOREM InputIsSame == Spec => []SameInput
<1>1. IInv => SameInput
  BY DEF IInv
<1>2. QED
  BY <1>1, Invariance, PTL

-----------------------------------------------------------------------------
(* The catalog (modules Catalog and V3Catalog), which V3Source counts the  *)
(* columns of.                                                             *)

(* The catalog the server had, batch by batch.                             *)

CatTables == [columns : Seq(Cat!Kinds), deleted : BOOLEAN, renamed : BOOLEAN]
CatStates == [db : {"none", "live", "deleted"}, tables : Seq(CatTables)]

\* What the server writes to its log.
Batches ==
  [name : {"CreateDatabase", "DeleteDatabase", "Rename", "Other"}]
  \cup [name : {"CreateTable"}, table : Nat, kinds : Seq(Cat!Kinds)]
  \cup [name : {"AddColumns"}, table : Nat, from : Nat, kinds : Seq(Cat!Kinds)]
  \cup [name : {"DeleteTable"}, table : Nat]

\* A table is in a database, and no column is without a name.
Proper(s) ==
  /\ s \in CatStates
  /\ s.tables # <<>> => s.db # "none"
  /\ \A t \in DOMAIN s.tables : Len(s.tables[t].columns) <= Len(Names)

\* Batch op takes the catalog from prev to next.
Did(op, prev, next) ==
  \/ /\ op.name = "CreateDatabase" /\ prev.db = "none"
     /\ next = [prev EXCEPT !.db = "live"]
  \/ /\ op.name = "CreateTable" /\ prev.db = "live" /\ op.table = Len(prev.tables) + 1
     /\ op.kinds \in Seq(Cat!Kinds) /\ Len(op.kinds) <= Len(Names)
     /\ next = [prev EXCEPT !.tables = Append(@, [columns |-> op.kinds, deleted |-> FALSE, renamed |-> FALSE])]
  \/ /\ op.name = "AddColumns" /\ op.table \in DOMAIN prev.tables
     /\ op.kinds \in Seq(Cat!Kinds) /\ op.from = Len(prev.tables[op.table].columns)
     /\ op.from + Len(op.kinds) <= Len(Names)
     /\ next = [prev EXCEPT !.tables[op.table].columns = @ \o op.kinds]
  \/ /\ op.name = "DeleteTable" /\ op.table \in DOMAIN prev.tables
     /\ next = [prev EXCEPT !.tables[op.table].deleted = TRUE]
  \/ /\ op.name = "DeleteDatabase" /\ prev.db = "live"
     /\ next = [prev EXCEPT !.db = "deleted"]
  \/ /\ op.name = "Rename"
     /\ \E t \in DOMAIN prev.tables : next = [prev EXCEPT !.tables[t].renamed = TRUE]
  \/ op.name = "Other" /\ next = prev

\* The batches follow each other, and states is what they make.
HistorySound ==
  /\ history \in Seq(Batches) /\ states \in Seq(CatStates) /\ Len(states) = Len(history)
  /\ \A n \in 0 .. Len(history) : Proper(Cat!StateAt(n))
  /\ \A n \in 1 .. Len(history) : Did(history[n], Cat!StateAt(n-1), Cat!StateAt(n))

\* The layouts follow each other.  The log files of each have no gap, and
\* reach back to its checkpoint; those in use reach to the last batch.
TreesSound ==
  /\ DOMAIN trees \in {{"v1"}, {"v1", "v2"}, {"v1", "v2", "v3"}}
  /\ \A e \in DOMAIN trees :
       /\ trees[e] \in [point : 0 .. Len(history), logs : SUBSET (1 .. Len(history))]
       /\ \A a, b \in trees[e].logs : a .. b \subseteq trees[e].logs
       /\ \A b \in trees[e].logs : trees[e].point + 1 .. b \subseteq trees[e].logs
  /\ trees[Cat!era].point + 1 .. Len(history) \subseteq trees[Cat!era].logs
  /\ \A a \in trees[Cat!era].logs : a .. Len(history) \subseteq trees[Cat!era].logs

-----------------------------------------------------------------------------
(* The reading.                                                            *)

LoadFields == {"pc", "tree", "stale", "seq", "db", "tables", "unknown", "todo", "whole",
               "swept", "damaged", "begun", "steps"}
TableFields == {"columns", "key", "deleted", "renamed"}

\* Table is what a reading l should have of the server's table real.
Agrees(l, table, real) ==
  /\ DOMAIN table = TableFields
  /\ table.columns = [c \in DOMAIN real.columns |-> [name |-> Names[c], kind |-> real.columns[c]]]
  /\ table.key = [n \in DOMAIN Cat!TagsOf(real.columns) |-> Names[Cat!TagsOf(real.columns)[n]]]
  /\ table.deleted = real.deleted
  /\ l.unknown \/ table.renamed = real.renamed

\* The tables of a reading are those of the server's catalog, or some of them.
Matches(l, real) ==
  \A t \in DOMAIN l.tables : t \in DOMAIN real.tables /\ Agrees(l, l.tables[t], real.tables[t])

\* No table is missing.
Complete(l, real) == DOMAIN l.tables = DOMAIN real.tables /\ l.db = real.db

\* The reading is at batch seq, of which it may lack tables only if it went
\* without a checkpoint.
AtBatch(l) ==
  /\ Matches(l, Cat!StateAt(l.seq))
  /\ l.whole => Complete(l, Cat!StateAt(l.seq))

\* The layout that is read still reaches the batch it was chosen at.
Chosen ==
  /\ load.tree \in DOMAIN trees
  /\ load.stale \/ load.begun <= trees[load.tree].point \/ load.begun \in trees[load.tree].logs

\* The log files above the checkpoint that was read are all there.
Following ==
  LET logs == trees[load.tree].logs IN
  load.whole \/ DOMAIN load.tables # {} =>
    /\ \A b \in logs : load.seq + 1 .. b \subseteq logs
    /\ load.tree = Cat!era => load.seq + 1 .. Len(history) \subseteq logs
    /\ load.stale \/ load.begun <= load.seq \/ load.begun \in logs

\* The log files still to be replayed continue what was read.
Replaying ==
  /\ load.todo \subseteq trees[load.tree].logs
  /\ \A a, b \in load.todo : a .. b \subseteq load.todo
  /\ load.whole \/ DOMAIN load.tables # {} =>
       \A b \in load.todo : load.seq + 1 .. b \subseteq load.todo
  /\ load.whole => load.stale \/ load.begun <= load.seq \/ load.begun \in load.todo

\* What excuses a reading that fails or is stale.
Undone == load.damaged \/ load.swept \/ ~load.whole

\* The invariant of the reading, by how far it is.
LoadSound ==
  /\ DOMAIN load = LoadFields
  /\ load.pc \in {"idle", "checkpoint", "list", "replay", "done", "failed"}
  /\ load.seq \in 0 .. Len(history) /\ load.begun \in 0 .. Len(history)
  /\ load.todo \subseteq 1 .. Len(history)
  /\ load.pc = "idle" => load = Cat!Idle
  /\ load.stale => Undone
  /\ Cat!Reading => Chosen
  /\ load.pc = "checkpoint" => load.seq = 0 /\ load.db = "none" /\ load.tables = Cat!Idle.tables
  /\ load.pc = "list" /\ ~load.swept => AtBatch(load) /\ Following
  /\ load.pc = "replay" /\ ~load.swept => AtBatch(load) /\ Replaying

\* The invariant.
CatInv == HistorySound /\ TreesSound /\ LoadSound /\ Cat!CatalogExact

-----------------------------------------------------------------------------
(* The tags among columns.                                                 *)

\* g[n] is the tags among the first n columns.
Tagging(g, cols, n) ==
  g = [i \in 0 .. n |-> IF i = 0 THEN <<>>
                        ELSE IF cols[i] = "tag" THEN Append(g[i-1], i) ELSE g[i-1]]

(* The recursion of TagsOf has a solution, whatever the columns.           *)
LEMMA TaggingExists ==
  ASSUME NEW cols, NEW n \in Nat
  PROVE  \E g : Tagging(g, cols, n)
<1> DEFINE N == {m \in Nat : \E g : Tagging(g, cols, m)}
<1>1. 0 \in N
  <2>1. Tagging([i \in 0 .. 0 |-> <<>>], cols, 0)
    BY DEF Tagging
  <2>2. QED
    BY <2>1
<1>2. ASSUME NEW m \in N \cap Nat PROVE m + 1 \in N
  <2>1. PICK g : Tagging(g, cols, m)
    OBVIOUS
  <2> DEFINE last == IF cols[m + 1] = "tag" THEN Append(g[m], m + 1) ELSE g[m]
             h == [i \in 0 .. m + 1 |-> IF i \in 0 .. m THEN g[i] ELSE last]
  <2>2. ASSUME NEW i \in 0 .. m + 1
        PROVE  h[i] = IF i = 0 THEN <<>>
                      ELSE IF cols[i] = "tag" THEN Append(h[i-1], i) ELSE h[i-1]
    <3>1. CASE i = 0
      BY <2>1, <3>1 DEF Tagging
    <3>2. CASE i \in 1 .. m
      <4>1. h[i] = g[i] /\ h[i-1] = g[i-1] /\ i # 0
        BY <3>2
      <4>2. i \in 0 .. m /\ i # 0
        BY <3>2
      <4> HIDE DEF h, last
      <4>3. g[i] = IF cols[i] = "tag" THEN Append(g[i-1], i) ELSE g[i-1]
        BY <2>1, <4>2, Zenon DEF Tagging
      <4>4. QED
        BY <4>1, <4>3
    <3>3. CASE i = m + 1
      <4>1. h[i] = last /\ h[i-1] = g[m] /\ i # 0
        BY <3>3
      <4>2. QED
        BY <4>1, <3>3
    <3>4. QED
      BY <3>1, <3>2, <3>3
  <2>3. Tagging(h, cols, m + 1)
    BY <2>2 DEF Tagging
  <2>4. QED
    <3> HIDE DEF h
    <3> QED BY <2>3
<1>3. Nat \subseteq N
  <2> HIDE DEF N
  <2> QED BY <1>1, <1>2, SetInduction
<1>4. QED
  BY <1>3

(* What the solution is at each column.                                    *)
LEMMA TaggingStep ==
  ASSUME NEW cols, NEW n \in Nat, NEW g, Tagging(g, cols, n)
  PROVE  /\ g[0] = <<>>
         /\ \A m \in 0 .. n - 1 :
              g[m + 1] = IF cols[m + 1] = "tag" THEN Append(g[m], m + 1) ELSE g[m]
<1>1. \A i \in 0 .. n : g[i] = IF i = 0 THEN <<>>
                               ELSE IF cols[i] = "tag" THEN Append(g[i-1], i) ELSE g[i-1]
  BY Zenon DEF Tagging
<1>2. 0 \in 0 .. n
  OBVIOUS
<1>3. ASSUME NEW m \in 0 .. n - 1
      PROVE  g[m + 1] = IF cols[m + 1] = "tag" THEN Append(g[m], m + 1) ELSE g[m]
  <2>1. m + 1 \in 0 .. n /\ m + 1 # 0 /\ (m + 1) - 1 = m
    OBVIOUS
  <2>2. g[m + 1] = IF cols[m + 1] = "tag" THEN Append(g[(m + 1) - 1], m + 1) ELSE g[(m + 1) - 1]
    BY <1>1, <2>1, Zenon
  <2>3. QED
    BY <2>1, <2>2
<1>4. QED
  BY <1>1, <1>2, <1>3, Zenon

(* The tags are what the recursion makes of all the columns.               *)
LEMMA TagsFrom ==
  ASSUME NEW cols, Len(cols) \in Nat
  PROVE  \E g : Tagging(g, cols, Len(cols)) /\ Cat!TagsOf(cols) = g[Len(cols)]
<1> DEFINE Is(g) == g = [n \in 0 .. Len(cols) |->
                           IF n = 0 THEN <<>>
                           ELSE IF cols[n] = "tag" THEN Append(g[n-1], n) ELSE g[n-1]]
           tags == CHOOSE g : Is(g)
<1>1. Cat!TagsOf(cols) = tags[Len(cols)]
  BY DEF Cat!TagsOf
<1>2. Is(tags)
  <2>1. PICK g : Tagging(g, cols, Len(cols))
    BY TaggingExists
  <2>2. Is(g)
    BY <2>1 DEF Tagging
  <2> HIDE DEF Is
  <2>3. QED
    BY <2>2
<1>3. Tagging(tags, cols, Len(cols))
  <2> HIDE DEF tags
  <2> QED BY <1>2 DEF Tagging
<1> HIDE DEF tags
<1>4. QED
  BY <1>1, <1>3

\* s is the tags among the first n columns.
AreTags(s, cols, n) ==
  /\ s \in Seq(1 .. n)
  /\ \A i, j \in 1 .. Len(s) : i < j => s[i] < s[j]
  /\ \A i \in 1 .. Len(s) : cols[s[i]] = "tag"
  /\ \A c \in 1 .. n : cols[c] = "tag" => \E i \in 1 .. Len(s) : s[i] = c

(* After m columns it holds the tags among them.                           *)
LEMMA TaggingIs ==
  ASSUME NEW cols, NEW n \in Nat, NEW g, Tagging(g, cols, n), NEW m \in 0 .. n
  PROVE  AreTags(g[m], cols, m)
<1> DEFINE N == {k \in Nat : k <= n => AreTags(g[k], cols, k)}
<1>1. 0 \in N
  <2>1. g[0] = <<>>
    BY TaggingStep
  <2>2. AreTags(<<>>, cols, 0)
    BY DEF AreTags
  <2>3. QED
    BY <2>1, <2>2
<1>2. ASSUME NEW k \in N \cap Nat PROVE k + 1 \in N
  <2>1. SUFFICES ASSUME k + 1 <= n PROVE AreTags(g[k + 1], cols, k + 1)
    OBVIOUS
  <2>2. AreTags(g[k], cols, k)
    BY <2>1
  <2>3. g[k + 1] = IF cols[k + 1] = "tag" THEN Append(g[k], k + 1) ELSE g[k]
    BY <2>1, TaggingStep
  <2> DEFINE s == g[k]
             t == g[k + 1]
  <2>4. s \in Seq(1 .. k + 1) /\ s \in Seq(1 .. k)
    BY <2>2 DEF AreTags
  <2>5. CASE cols[k + 1] # "tag"
    <3>1. t = s
      BY <2>3, <2>5
    <3>2. \A c \in 1 .. k + 1 : cols[c] = "tag" => c \in 1 .. k
      BY <2>5
    <3>3. QED
      BY <2>2, <2>4, <3>1, <3>2 DEF AreTags
  <2>6. CASE cols[k + 1] = "tag"
    <3>1. t = Append(s, k + 1)
      BY <2>3, <2>6
    <3> HIDE DEF s, t
    <3>2. t \in Seq(1 .. k + 1) /\ Len(t) = Len(s) + 1 /\ Len(s) \in Nat
      BY <2>4, <3>1
    <3>3. \A i \in 1 .. Len(s) : t[i] = s[i] /\ s[i] \in 1 .. k
      BY <2>4, <3>1
    <3>4. t[Len(t)] = k + 1
      BY <2>4, <3>1, <3>2
    <3>5. \A i \in 1 .. Len(t) : i \in 1 .. Len(s) \/ i = Len(t)
      BY <3>2
    <3>6. \A i, j \in 1 .. Len(s) : i < j => s[i] < s[j]
      BY <2>2 DEF AreTags, s
    <3>7. \A i, j \in 1 .. Len(t) : i < j => t[i] < t[j]
      <4>1. SUFFICES ASSUME NEW i \in 1 .. Len(t), NEW j \in 1 .. Len(t), i < j PROVE t[i] < t[j]
        OBVIOUS
      <4>2. i \in 1 .. Len(s)
        BY <3>2, <4>1
      <4>3. CASE j \in 1 .. Len(s)
        BY <3>3, <3>6, <4>1, <4>2, <4>3
      <4>4. CASE j = Len(t)
        BY <3>3, <3>4, <4>2, <4>4
      <4>5. QED
        BY <3>5, <4>3, <4>4
    <3>8. \A i \in 1 .. Len(t) : cols[t[i]] = "tag"
      <4>1. \A i \in 1 .. Len(s) : cols[s[i]] = "tag"
        BY <2>2 DEF AreTags, s
      <4>2. QED
        BY <2>6, <3>3, <3>4, <3>5, <4>1
    <3>9. \A c \in 1 .. k + 1 : cols[c] = "tag" => \E i \in 1 .. Len(t) : t[i] = c
      <4>1. \A c \in 1 .. k : cols[c] = "tag" => \E i \in 1 .. Len(s) : s[i] = c
        BY <2>2 DEF AreTags, s
      <4>2. \A i \in 1 .. Len(s) : i \in 1 .. Len(t)
        BY <3>2
      <4>3. Len(t) \in 1 .. Len(t)
        BY <3>2
      <4>4. \A c \in 1 .. k + 1 : c \in 1 .. k \/ c = k + 1
        OBVIOUS
      <4>5. QED
        BY <3>3, <3>4, <4>1, <4>2, <4>3, <4>4
    <3>10. QED
      BY <3>2, <3>7, <3>8, <3>9 DEF AreTags, t
  <2>7. QED
    BY <2>5, <2>6
<1>3. Nat \subseteq N
  <2> HIDE DEF N
  <2> QED BY <1>1, <1>2, SetInduction
<1>4. QED
  BY <1>3

(* Each tag is there once, in order.                                       *)
LEMMA TagsAre ==
  ASSUME NEW cols, Len(cols) \in Nat
  PROVE  AreTags(Cat!TagsOf(cols), cols, Len(cols))
<1>1. PICK g : Tagging(g, cols, Len(cols)) /\ Cat!TagsOf(cols) = g[Len(cols)]
  BY TagsFrom
<1>2. Len(cols) \in 0 .. Len(cols)
  OBVIOUS
<1>3. AreTags(g[Len(cols)], cols, Len(cols))
  BY <1>1, <1>2, TaggingIs
<1>4. QED
  BY <1>1, <1>3

(* The numbers s, n columns further on.                                    *)
Moved(s, n) == [i \in 1 .. Len(s) |-> n + s[i]]

(* Moving a sequence and appending to it commute.                          *)
LEMMA AppendMoved ==
  ASSUME NEW s \in Seq(Nat), NEW u \in Seq(Nat), NEW n \in Nat, NEW m \in Nat
  PROVE  Append(s \o Moved(u, n), n + m) = s \o Moved(Append(u, m), n)
<1>1. Moved(u, n) \in Seq(Nat) /\ Len(Moved(u, n)) = Len(u)
  BY DEF Moved
<1>2. Moved(Append(u, m), n) = Append(Moved(u, n), n + m)
  BY DEF Moved
<1>3. n + m \in Nat
  OBVIOUS
<1>4. <<n + m>> \in Seq(Nat)
  BY <1>3
<1>5. Append(Moved(u, n), n + m) = Moved(u, n) \o <<n + m>>
  BY <1>1, <1>3, AppendIsConcat
<1>6. s \o Moved(u, n) \in Seq(Nat)
  BY <1>1, ConcatProperties
<1>7. Append(s \o Moved(u, n), n + m) = (s \o Moved(u, n)) \o <<n + m>>
  BY <1>3, <1>6, AppendIsConcat
<1>8. (s \o Moved(u, n)) \o <<n + m>> = s \o (Moved(u, n) \o <<n + m>>)
  BY <1>1, <1>4, ConcatAssociative
<1>9. QED
  BY <1>2, <1>5, <1>7, <1>8

(* The tags of more columns follow those that were there.                  *)
LEMMA TagsOfMore ==
  ASSUME NEW S, NEW old \in Seq(S), NEW kinds \in Seq(S)
  PROVE  Cat!TagsOf(old \o kinds) = Cat!TagsOf(old) \o Moved(Cat!TagsOf(kinds), Len(old))
<1> DEFINE all == old \o kinds
           L == Len(old)
<1>1. all \in Seq(S) /\ Len(all) = L + Len(kinds) /\ L \in Nat /\ Len(kinds) \in Nat
  OBVIOUS
<1>2. /\ \A i \in 1 .. L : all[i] = old[i]
      /\ \A i \in 1 .. Len(kinds) : all[L + i] = kinds[i]
  OBVIOUS
<1> HIDE DEF all
<1>3. PICK f : Tagging(f, all, L + Len(kinds)) /\ Cat!TagsOf(all) = f[L + Len(kinds)]
  <2>0. Len(all) \in Nat
    BY <1>1
  <2>1. PICK f : Tagging(f, all, Len(all)) /\ Cat!TagsOf(all) = f[Len(all)]
    BY <2>0, TagsFrom
  <2>2. QED
    BY <1>1, <2>1
<1>4. PICK g : Tagging(g, old, L) /\ Cat!TagsOf(old) = g[L]
  BY <1>1, TagsFrom
<1>5. PICK h : Tagging(h, kinds, Len(kinds)) /\ Cat!TagsOf(kinds) = h[Len(kinds)]
  BY <1>1, TagsFrom
<1>6. \A m \in 0 .. L : f[m] = g[m]
  <2> DEFINE N == {m \in Nat : m <= L => f[m] = g[m]}
  <2>1. 0 \in N
    BY <1>1, <1>3, <1>4 DEF Tagging
  <2>2. ASSUME NEW m \in N \cap Nat PROVE m + 1 \in N
    <3>1. SUFFICES ASSUME m + 1 <= L PROVE f[m + 1] = g[m + 1]
      OBVIOUS
    <3>2. f[m] = g[m]
      BY <1>1, <3>1
    <3>3. m + 1 \in 1 .. L /\ (m + 1) - 1 = m
      BY <1>1, <3>1
    <3>4. f[m + 1] = IF all[m + 1] = "tag" THEN Append(f[m], m + 1) ELSE f[m]
      <4>1. m \in 0 .. (L + Len(kinds)) - 1 /\ L + Len(kinds) \in Nat
        BY <1>1, <3>3
      <4>2. QED
        BY <1>3, <4>1, TaggingStep
    <3>5. g[m + 1] = IF old[m + 1] = "tag" THEN Append(g[m], m + 1) ELSE g[m]
      <4>1. m \in 0 .. L - 1
        BY <1>1, <3>3
      <4>2. QED
        BY <1>1, <1>4, <4>1, TaggingStep
    <3>6. QED
      BY <1>2, <3>2, <3>3, <3>4, <3>5
  <2>3. Nat \subseteq N
    <3> HIDE DEF N
    <3> QED BY <2>1, <2>2, SetInduction
  <2>4. QED
    BY <1>1, <2>3
<1>7. g[L] \in Seq(Nat)
  <2>1. AreTags(g[L], old, L)
    BY <1>1, <1>4, TaggingIs
  <2>2. QED
    BY <2>1 DEF AreTags
<1>8. \A m \in 0 .. Len(kinds) : h[m] \in Seq(Nat)
  <2>1. \A m \in 0 .. Len(kinds) : AreTags(h[m], kinds, m)
    BY <1>1, <1>5, TaggingIs
  <2>2. QED
    BY <2>1 DEF AreTags
<1>9. f[L + Len(kinds)] = g[L] \o Moved(h[Len(kinds)], L)
  <2> DEFINE Is(m) == f[L + m] = g[L] \o Moved(h[m], L)
             N == {m \in Nat : m <= Len(kinds) => Is(m)}
  <2>1. 0 \in N
    <3>1. h[0] = <<>>
      BY <1>1, <1>5 DEF Tagging
    <3>2. Moved(<<>>, L) = <<>>
      BY DEF Moved
    <3>3. f[L + 0] = g[L]
      BY <1>1, <1>6
    <3>4. g[L] \o <<>> = g[L]
      BY <1>7
    <3>5. QED
      BY <3>1, <3>2, <3>3, <3>4 DEF Is
  <2>2. ASSUME NEW m \in N \cap Nat PROVE m + 1 \in N
    <3> HIDE DEF Is
    <3>1. SUFFICES ASSUME m + 1 <= Len(kinds) PROVE Is(m + 1)
      OBVIOUS
    <3>0. Is(m)
      BY <1>1, <3>1
    <3>2. f[L + m] = g[L] \o Moved(h[m], L)
      BY <3>0 DEF Is
    <3>3. /\ m + 1 \in 1 .. Len(kinds) /\ (m + 1) - 1 = m
          /\ L + (m + 1) \in 1 .. L + Len(kinds) /\ (L + (m + 1)) - 1 = L + m
      BY <1>1, <3>1
    <3>4. f[L + (m + 1)] = IF all[L + (m + 1)] = "tag" THEN Append(f[L + m], L + (m + 1)) ELSE f[L + m]
      <4>1. /\ L + m \in 0 .. (L + Len(kinds)) - 1 /\ L + Len(kinds) \in Nat
            /\ L + (m + 1) = (L + m) + 1
        BY <1>1, <3>3
      <4>2. f[(L + m) + 1] = IF all[(L + m) + 1] = "tag" THEN Append(f[L + m], (L + m) + 1) ELSE f[L + m]
        BY <1>3, <4>1, TaggingStep
      <4>3. QED
        BY <4>1, <4>2
    <3>5. h[m + 1] = IF kinds[m + 1] = "tag" THEN Append(h[m], m + 1) ELSE h[m]
      <4>1. m \in 0 .. Len(kinds) - 1
        BY <1>1, <3>3
      <4>2. QED
        BY <1>1, <1>5, <4>1, TaggingStep
    <3>6. all[L + (m + 1)] = kinds[m + 1]
      BY <1>2, <3>3
    <3>7. h[m] \in Seq(Nat)
      BY <1>1, <1>8, <3>1
    <3>8. CASE kinds[m + 1] # "tag"
      BY <3>2, <3>4, <3>5, <3>6, <3>8 DEF Is
    <3>9. CASE kinds[m + 1] = "tag"
      <4>1. Append(g[L] \o Moved(h[m], L), L + (m + 1)) = g[L] \o Moved(Append(h[m], m + 1), L)
        <5>1. L \in Nat /\ m + 1 \in Nat /\ h[m] \in Seq(Nat) /\ g[L] \in Seq(Nat)
          BY <1>1, <1>7, <3>7
        <5>2. QED
          BY <5>1, AppendMoved
      <4>2. QED
        BY <3>2, <3>4, <3>5, <3>6, <3>9, <4>1 DEF Is
    <3>10. QED
      BY <3>8, <3>9
  <2>3. Nat \subseteq N
    <3> HIDE DEF N
    <3> QED BY <2>1, <2>2, SetInduction
  <2> HIDE DEF Is
  <2>4. Is(Len(kinds))
    BY <1>1, <2>3
  <2>5. QED
    BY <2>4 DEF Is
<1>10. QED
  BY <1>3, <1>4, <1>5, <1>9 DEF all
-----------------------------------------------------------------------------
(* The series key.                                                         *)

\* g[n] is key with the first n names added.
Keying(g, key, names, n) ==
  g = [i \in 0 .. n |-> IF i = 0 THEN key ELSE Cat!AppendSeriesKey(g[i-1], names[i])]

(* The recursion of KeyWith has a solution, whatever the names.            *)
LEMMA KeyingExists ==
  ASSUME NEW key, NEW names, NEW n \in Nat
  PROVE  \E g : Keying(g, key, names, n)
<1> DEFINE N == {m \in Nat : \E g : Keying(g, key, names, m)}
<1>1. 0 \in N
  <2>1. Keying([i \in 0 .. 0 |-> key], key, names, 0)
    BY DEF Keying
  <2>2. QED
    BY <2>1
<1>2. ASSUME NEW m \in N \cap Nat PROVE m + 1 \in N
  <2>1. PICK g : Keying(g, key, names, m)
    OBVIOUS
  <2> DEFINE last == Cat!AppendSeriesKey(g[m], names[m + 1])
             h == [i \in 0 .. m + 1 |-> IF i \in 0 .. m THEN g[i] ELSE last]
  <2>2. ASSUME NEW i \in 0 .. m + 1
        PROVE  h[i] = IF i = 0 THEN key ELSE Cat!AppendSeriesKey(h[i-1], names[i])
    <3>1. CASE i = 0
      BY <2>1, <3>1 DEF Keying
    <3>2. CASE i \in 1 .. m
      <4>1. h[i] = g[i] /\ h[i-1] = g[i-1] /\ i # 0
        BY <3>2
      <4>2. i \in 0 .. m
        BY <3>2
      <4> HIDE DEF h, last
      <4>3. g[i] = IF i = 0 THEN key ELSE Cat!AppendSeriesKey(g[i-1], names[i])
        BY <2>1, <4>2, Zenon DEF Keying
      <4>4. QED
        BY <4>1, <4>3
    <3>3. CASE i = m + 1
      <4>1. h[i] = last /\ h[i-1] = g[m] /\ i # 0
        BY <3>3
      <4>2. QED
        BY <4>1, <3>3
    <3>4. QED
      BY <3>1, <3>2, <3>3
  <2>3. Keying(h, key, names, m + 1)
    BY <2>2 DEF Keying
  <2>4. QED
    <3> HIDE DEF h
    <3> QED BY <2>3
<1>3. Nat \subseteq N
  <2> HIDE DEF N
  <2> QED BY <1>1, <1>2, SetInduction
<1>4. QED
  BY <1>3

(* What the solution is at each name.                                      *)
LEMMA KeyingStep ==
  ASSUME NEW key, NEW names, NEW n \in Nat, NEW g, Keying(g, key, names, n)
  PROVE  /\ g[0] = key
         /\ \A m \in 0 .. n - 1 : g[m + 1] = Cat!AppendSeriesKey(g[m], names[m + 1])
<1>1. \A i \in 0 .. n : g[i] = IF i = 0 THEN key ELSE Cat!AppendSeriesKey(g[i-1], names[i])
  BY Zenon DEF Keying
<1>2. 0 \in 0 .. n
  OBVIOUS
<1>3. ASSUME NEW m \in 0 .. n - 1
      PROVE  g[m + 1] = Cat!AppendSeriesKey(g[m], names[m + 1])
  <2>1. m + 1 \in 0 .. n /\ m + 1 # 0 /\ (m + 1) - 1 = m
    OBVIOUS
  <2>2. g[m + 1] = Cat!AppendSeriesKey(g[(m + 1) - 1], names[m + 1])
    BY <1>1, <2>1, Zenon
  <2>3. QED
    BY <2>1, <2>2
<1>4. QED
  BY <1>1, <1>2, <1>3, Zenon

(* The key is what the recursion makes of all the names.                   *)
LEMMA KeyFrom ==
  ASSUME NEW key, NEW names, Len(names) \in Nat
  PROVE  \E g : Keying(g, key, names, Len(names)) /\ Cat!KeyWith(key, names) = g[Len(names)]
<1> DEFINE Is(g) == g = [n \in 0 .. Len(names) |->
                           IF n = 0 THEN key ELSE Cat!AppendSeriesKey(g[n-1], names[n])]
           with == CHOOSE g : Is(g)
<1>1. Cat!KeyWith(key, names) = with[Len(names)]
  BY DEF Cat!KeyWith
<1>2. Is(with)
  <2>1. PICK g : Keying(g, key, names, Len(names))
    BY KeyingExists
  <2>2. Is(g)
    BY <2>1 DEF Keying
  <2> HIDE DEF Is
  <2>3. QED
    BY <2>2
<1>3. Keying(with, key, names, Len(names))
  <2> HIDE DEF with
  <2> QED BY <1>2 DEF Keying
<1> HIDE DEF with
<1>4. QED
  BY <1>1, <1>3

(* Names that are new, and differ, are added behind the key.               *)
LEMMA KeyGrows ==
  ASSUME NEW S, NEW key \in Seq(S), NEW names \in Seq(S),
         \A i \in 1 .. Len(names) : \A j \in 1 .. Len(key) : names[i] # key[j],
         \A i, j \in 1 .. Len(names) : names[i] = names[j] => i = j
  PROVE  Cat!KeyWith(key, names) = key \o names
<1> DEFINE n == Len(names)
           First(m) == SubSeq(names, 1, m)
<1>1. n \in Nat /\ Len(key) \in Nat
  OBVIOUS
<1>2. PICK g : Keying(g, key, names, n) /\ Cat!KeyWith(key, names) = g[n]
  BY <1>1, KeyFrom
<1>0. g[0] = key /\ \A m \in 0 .. n - 1 : g[m + 1] = Cat!AppendSeriesKey(g[m], names[m + 1])
  <2>1. Keying(g, key, names, Len(names)) /\ Len(names) \in Nat
    BY <1>1, <1>2
  <2>2. g[0] = key
    BY <2>1 DEF Keying
  <2>3. \A m \in 0 .. Len(names) - 1 : g[m + 1] = Cat!AppendSeriesKey(g[m], names[m + 1])
    BY <2>1, KeyingStep, SMTT(30)
  <2>4. QED
    BY <2>2, <2>3
<1>3. /\ First(0) = <<>> /\ First(n) = names
      /\ \A m \in 0 .. n : First(m) \in Seq(S) /\ Len(First(m)) = m
                           /\ \A i \in 1 .. m : First(m)[i] = names[i]
      /\ \A m \in 0 .. n - 1 : First(m + 1) = Append(First(m), names[m + 1])
  OBVIOUS
<1> HIDE DEF First
<1> DEFINE Is(m) == g[m] = key \o First(m)
           N == {m \in Nat : m <= n => Is(m)}
<1>4. 0 \in N
  <2>1. g[0] = key
    BY <1>0
  <2>2. QED
    BY <1>3, <2>1, ConcatEmptySeq
<1>5. ASSUME NEW m \in N \cap Nat PROVE m + 1 \in N
  <2> HIDE DEF Is
  <2>1. SUFFICES ASSUME m + 1 <= n PROVE Is(m + 1)
    OBVIOUS
  <2>2. Is(m)
    BY <1>1, <2>1
  <2>3. m \in 0 .. n - 1 /\ m \in 0 .. n /\ m + 1 \in 1 .. n
    BY <1>1, <2>1
  <2>4. g[m + 1] = Cat!AppendSeriesKey(key \o First(m), names[m + 1])
    <3>1. g[m + 1] = Cat!AppendSeriesKey(g[m], names[m + 1])
      BY <1>0, <2>3
    <3>2. QED
      BY <2>2, <3>1 DEF Is
  <2> DEFINE s == key \o First(m)
             e == names[m + 1]
  <2>5. s \in Seq(S) /\ Len(s) = Len(key) + m /\ e \in S /\ First(m) \in Seq(S)
    <3>1. First(m) \in Seq(S) /\ Len(First(m)) = m
      BY <1>3, <2>3
    <3>2. e \in S
      BY <2>3
    <3>3. key \o First(m) \in Seq(S) /\ Len(key \o First(m)) = Len(key) + Len(First(m))
      BY <3>1, ConcatProperties, Zenon
    <3>4. QED
      BY <3>1, <3>2, <3>3
  <2>6. ~ Cat!Contains(s, e)
    <3>1. SUFFICES ASSUME NEW i \in 1 .. Len(s), s[i] = e PROVE FALSE
      BY DEF Cat!Contains
    <3>2. CASE i <= Len(key)
      <4>1. i \in 1 .. Len(key) /\ s[i] = key[i]
        BY <1>3, <2>3, <2>5, <3>2
      <4>2. QED
        BY <2>3, <3>1, <4>1
    <3>3. CASE i > Len(key)
      <4>1. i - Len(key) \in 1 .. m
        BY <1>1, <2>5, <3>3
      <4>2. s[i] = First(m)[i - Len(key)]
        BY <1>3, <2>3, <2>5, <3>3
      <4>3. s[i] = names[i - Len(key)]
        BY <1>3, <2>3, <4>1, <4>2
      <4>4. i - Len(key) \in 1 .. n /\ i - Len(key) # m + 1
        BY <1>1, <2>3, <4>1
      <4>5. QED
        BY <2>3, <3>1, <4>3, <4>4
    <3>4. QED
      BY <1>1, <2>5, <3>2, <3>3
  <2>7. g[m + 1] = Append(s, e)
    BY <2>4, <2>6 DEF Cat!AppendSeriesKey
  <2>8. Append(s, e) = key \o Append(First(m), e)
    <3> HIDE DEF s, e
    <3>1. Append(s, e) = s \o <<e>> /\ Append(First(m), e) = First(m) \o <<e>> /\ <<e>> \in Seq(S)
      BY <2>5, AppendIsConcat
    <3>2. s \o <<e>> = key \o (First(m) \o <<e>>)
      BY <2>5, <3>1, ConcatAssociative DEF s
    <3>3. QED
      BY <3>1, <3>2
  <2>9. QED
    BY <1>3, <2>3, <2>7, <2>8 DEF Is
<1>6. Nat \subseteq N
  <2> HIDE DEF N
  <2> QED BY <1>4, <1>5, SetInduction
<1>7. Is(n)
  <2> HIDE DEF Is
  <2> QED BY <1>1, <1>6
<1>8. QED
  BY <1>2, <1>3, <1>7

-----------------------------------------------------------------------------
(* One table.                                                              *)

\* No two columns share a name.
NamesDiffer == Names \in Seq(STRING) /\ \A i, j \in 1 .. Len(Names) : Names[i] = Names[j] => i = j

\* The names of the tags.
NamedTags(cols) == [n \in 1 .. Len(Cat!TagsOf(cols)) |-> Names[Cat!TagsOf(cols)[n]]]

(* The tags are numbers of columns.                                        *)
LEMMA TagsType ==
  ASSUME NEW S, NEW cols \in Seq(S)
  PROVE  /\ Cat!TagsOf(cols) \in Seq(1 .. Len(cols))
         /\ Cat!TagsOf(cols) \in Seq(Nat)
         /\ DOMAIN Cat!TagsOf(cols) = 1 .. Len(Cat!TagsOf(cols))
         /\ Len(Cat!TagsOf(cols)) \in Nat
<1>1. Len(cols) \in Nat
  OBVIOUS
<1>2. Cat!TagsOf(cols) \in Seq(1 .. Len(cols))
  BY <1>1, TagsAre DEF AreTags
<1> DEFINE t == Cat!TagsOf(cols)
<1> HIDE DEF t
<1>3. t \in Seq(1 .. Len(cols))
  BY <1>2 DEF t
<1>4. t \in Seq(Nat) /\ DOMAIN t = 1 .. Len(t) /\ Len(t) \in Nat
  BY <1>1, <1>3
<1>5. QED
  BY <1>2, <1>4 DEF t

(* The key of a table that gets more columns: its key with the new tags.   *)
LEMMA KeyOfMore ==
  ASSUME NamesDiffer, NEW S, NEW old \in Seq(S), NEW kinds \in Seq(S),
         Len(old) + Len(kinds) <= Len(Names)
  PROVE  /\ NamedTags(old \o kinds) = NamedTags(old) \o Cat!TagNames(Len(old), kinds)
         /\ Cat!KeyWith(NamedTags(old), Cat!TagNames(Len(old), kinds)) = NamedTags(old \o kinds)
<1> DEFINE was == Cat!TagsOf(old)
           new == Cat!TagsOf(kinds)
           L == Len(old)
           names == Cat!TagNames(L, kinds)
           key == NamedTags(old)
<1>1. /\ was \in Seq(1 .. L) /\ Len(was) \in Nat /\ L \in Nat /\ Len(kinds) \in Nat
      /\ new \in Seq(1 .. Len(kinds)) /\ Len(new) \in Nat /\ DOMAIN new = 1 .. Len(new)
      /\ was \in Seq(Nat) /\ new \in Seq(Nat) /\ Len(Names) \in Nat
  <2>1. /\ Cat!TagsOf(old) \in Seq(1 .. Len(old)) /\ Len(Cat!TagsOf(old)) \in Nat
        /\ Cat!TagsOf(old) \in Seq(Nat)
    BY TagsType
  <2>2. /\ Cat!TagsOf(kinds) \in Seq(1 .. Len(kinds)) /\ Len(Cat!TagsOf(kinds)) \in Nat
        /\ Cat!TagsOf(kinds) \in Seq(Nat)
        /\ DOMAIN Cat!TagsOf(kinds) = 1 .. Len(Cat!TagsOf(kinds))
    BY TagsType
  <2>3. Len(old) \in Nat /\ Len(kinds) \in Nat /\ Len(Names) \in Nat
    BY DEF NamesDiffer
  <2>4. QED
    BY <2>1, <2>2, <2>3
<1>2. names = [n \in 1 .. Len(new) |-> Names[L + new[n]]]
  BY <1>1 DEF Cat!TagNames
<1>3. key = [n \in 1 .. Len(was) |-> Names[was[n]]]
  BY DEF NamedTags
<1>4. Cat!TagsOf(old \o kinds) = was \o Moved(new, L)
  BY TagsOfMore
<1>5. \A i, j \in 1 .. Len(new) : new[i] = new[j] => i = j
  <2>1. \A i, j \in 1 .. Len(new) : i < j => new[i] < new[j]
    BY <1>1, TagsAre DEF AreTags
  <2>2. \A i \in 1 .. Len(new) : new[i] \in Nat
    BY <1>1
  <2> HIDE DEF new
  <2>3. QED
    BY <1>1, <2>1, <2>2
<1> HIDE DEF was, new, names, key
<1>6. /\ \A i \in 1 .. Len(was) : was[i] \in 1 .. L
      /\ \A i \in 1 .. Len(new) : new[i] \in 1 .. Len(kinds)
  BY <1>1
<1>7. \A c \in 1 .. L + Len(kinds) : c \in 1 .. Len(Names) /\ Names[c] \in STRING
  BY <1>1 DEF NamesDiffer
<1>8. /\ key \in Seq(STRING) /\ Len(key) = Len(was)
      /\ \A i \in 1 .. Len(key) : key[i] = Names[was[i]]
  <2>1. \A i \in 1 .. Len(was) : Names[was[i]] \in STRING
    <3>1. ASSUME NEW i \in 1 .. Len(was) PROVE Names[was[i]] \in STRING
      <4>1. was[i] \in 1 .. L + Len(kinds)
        BY <1>1, <1>6
      <4>2. QED
        BY <1>7, <4>1
    <3>2. QED
      BY <3>1
  <2>2. QED
    BY <1>1, <1>3, <2>1
<1>9. /\ names \in Seq(STRING) /\ Len(names) = Len(new)
      /\ \A i \in 1 .. Len(names) : names[i] = Names[L + new[i]]
  <2>1. \A i \in 1 .. Len(new) : Names[L + new[i]] \in STRING
    <3>1. ASSUME NEW i \in 1 .. Len(new) PROVE Names[L + new[i]] \in STRING
      <4>1. L + new[i] \in 1 .. L + Len(kinds)
        BY <1>1, <1>6
      <4>2. QED
        BY <1>7, <4>1
    <3>2. QED
      BY <3>1
  <2>2. QED
    BY <1>1, <1>2, <2>1
<1>10. Cat!KeyWith(key, names) = key \o names
  <2>1. ASSUME NEW i \in 1 .. Len(names), NEW j \in 1 .. Len(key) PROVE names[i] # key[j]
    <3>1. L + new[i] \in 1 .. Len(Names) /\ was[j] \in 1 .. Len(Names) /\ L + new[i] # was[j]
      BY <1>1, <1>6, <1>8, <1>9
    <3>2. QED
      BY <1>8, <1>9, <3>1 DEF NamesDiffer
  <2>2. ASSUME NEW i \in 1 .. Len(names), NEW j \in 1 .. Len(names), names[i] = names[j] PROVE i = j
    <3>1. L + new[i] \in 1 .. Len(Names) /\ L + new[j] \in 1 .. Len(Names)
      <4>1. new[i] \in 1 .. Len(kinds) /\ new[j] \in 1 .. Len(kinds)
        BY <1>6, <1>9
      <4>2. QED
        <5>0. \A c, d \in Nat : \A k \in 1 .. d : c + k \in 1 .. c + d
          OBVIOUS
        <5>1. L + new[i] \in 1 .. L + Len(kinds) /\ L + new[j] \in 1 .. L + Len(kinds)
          BY <1>1, <4>1, <5>0
        <5>2. QED
          BY <1>7, <5>1
    <3>2. L + new[i] = L + new[j]
      BY <1>9, <2>2, <3>1 DEF NamesDiffer
    <3>3. new[i] = new[j]
      BY <1>1, <1>6, <1>9, <3>2
    <3>4. QED
      BY <1>5, <1>9, <3>3
  <2>3. QED
    BY <1>8, <1>9, <2>1, <2>2, KeyGrows
<1>11. NamedTags(old \o kinds) = key \o names
  <2> DEFINE moved == Moved(new, L)
             all == was \o moved
  <2>1. moved \in Seq(Nat) /\ Len(moved) = Len(new) /\ \A i \in 1 .. Len(new) : moved[i] = L + new[i]
    BY <1>1 DEF Moved
  <2> HIDE DEF moved
  <2>2. /\ all \in Seq(Nat) /\ Len(all) = Len(was) + Len(new)
        /\ \A i \in 1 .. Len(was) : all[i] = was[i]
        /\ \A i \in 1 .. Len(new) : all[Len(was) + i] = L + new[i]
    <3>1. /\ all \in Seq(Nat) /\ Len(all) = Len(was) + Len(new)
          /\ \A i \in 1 .. Len(was) + Len(new) :
               all[i] = IF i <= Len(was) THEN was[i] ELSE moved[i - Len(was)]
      <4>1. /\ was \o moved \in Seq(Nat) /\ Len(was \o moved) = Len(was) + Len(moved)
            /\ \A i \in 1 .. Len(was) + Len(moved) :
                 (was \o moved)[i] = IF i <= Len(was) THEN was[i] ELSE moved[i - Len(was)]
        <5>1. was \in Seq(Nat) /\ moved \in Seq(Nat)
          BY <1>1, <2>1
        <5>2. QED
          BY ONLY <5>1, ConcatProperties
      <4>2. QED
        BY <2>1, <4>1
    <3> HIDE DEF all
    <3>2. ASSUME NEW i \in 1 .. Len(new) PROVE all[Len(was) + i] = L + new[i]
      <4>1. /\ Len(was) + i \in 1 .. Len(was) + Len(new) /\ ~ (Len(was) + i <= Len(was))
            /\ (Len(was) + i) - Len(was) = i
        BY <1>1
      <4>2. all[Len(was) + i] = moved[(Len(was) + i) - Len(was)]
        BY <3>1, <4>1, Zenon
      <4>3. QED
        BY <2>1, <4>1, <4>2
    <3>3. \A i \in 1 .. Len(was) : i \in 1 .. Len(was) + Len(new) /\ i <= Len(was)
      BY <1>1
    <3>4. QED
      BY <3>1, <3>2, <3>3
  <2>3. NamedTags(old \o kinds) = [n \in 1 .. Len(all) |-> Names[all[n]]]
    BY <1>4 DEF NamedTags, moved
  <2> HIDE DEF all
  <2> DEFINE x == [n \in 1 .. Len(all) |-> Names[all[n]]]
             y == key \o names
  <2>4. y \in Seq(STRING) /\ Len(y) = Len(was) + Len(new)
    <3>1. key \o names \in Seq(STRING) /\ Len(key \o names) = Len(key) + Len(names)
      <4>1. key \in Seq(STRING) /\ names \in Seq(STRING)
        BY <1>8, <1>9
      <4>2. QED
        BY ONLY <4>1, ConcatProperties
    <3>2. QED
      BY <1>8, <1>9, <3>1
  <2>5. ASSUME NEW i \in 1 .. Len(was) + Len(new) PROVE x[i] = y[i]
    <3>1. CASE i <= Len(was)
      BY <1>1, <1>8, <1>9, <2>2, <3>1
    <3>2. CASE i > Len(was)
      <4>1. i - Len(was) \in 1 .. Len(new) /\ Len(was) + (i - Len(was)) = i
        BY <1>1, <3>2
      <4>2. x[i] = Names[L + new[i - Len(was)]]
        BY <1>1, <2>2, <4>1
      <4>3. y[i] = names[i - Len(was)]
        BY <1>1, <1>8, <1>9, <3>2
      <4>4. QED
        BY <1>9, <4>1, <4>2, <4>3
    <3>3. i <= Len(was) \/ i > Len(was)
      BY <1>1
    <3>4. QED
      BY <3>1, <3>2, <3>3
  <2>6. DOMAIN x = 1 .. Len(y) /\ DOMAIN y = 1 .. Len(y)
    BY <2>2, <2>4
  <2>7. x = [i \in DOMAIN x |-> x[i]] /\ y = [i \in DOMAIN y |-> y[i]]
    <3> HIDE DEF y
    <3> QED BY <2>4
  <2> HIDE DEF x, y
  <2>8. x = y
    BY <2>4, <2>5, <2>6, <2>7
  <2>9. QED
    BY <2>3, <2>8 DEF x, y
<1>12. QED
  BY <1>10, <1>11 DEF key, names

(* The columns of a table that gets more of them.                          *)
NamedColumns(cols) == [c \in DOMAIN cols |-> [name |-> Names[c], kind |-> cols[c]]]

(* setColumn for each new column gives the columns of the longer table.    *)
LEMMA NewColumns ==
  ASSUME NEW S, NEW old \in Seq(S), NEW kinds \in Seq(S)
  PROVE  Cat!Columns(NamedColumns(old), Len(old), kinds) = NamedColumns(old \o kinds)
<1> DEFINE L == Len(old)
           all == old \o kinds
           x == Cat!Columns(NamedColumns(old), L, kinds)
<1>1. /\ L \in Nat /\ Len(kinds) \in Nat /\ DOMAIN old = 1 .. L
      /\ all \in Seq(S) /\ Len(all) = L + Len(kinds) /\ DOMAIN all = 1 .. L + Len(kinds)
  OBVIOUS
<1>2. /\ \A i \in 1 .. L : all[i] = old[i]
      /\ \A i \in 1 .. Len(kinds) : all[L + i] = kinds[i]
  OBVIOUS
<1> HIDE DEF all
<1>3. /\ DOMAIN NamedColumns(old) = 1 .. L
      /\ \A c \in 1 .. L : NamedColumns(old)[c] = [name |-> Names[c], kind |-> old[c]]
  BY <1>1 DEF NamedColumns
<1>4. x = [c \in (1 .. L) \cup (L + 1 .. L + Len(kinds)) |->
             IF c > L THEN [name |-> Names[c], kind |-> kinds[c - L]] ELSE NamedColumns(old)[c]]
  BY <1>3 DEF Cat!Columns
<1>5. (1 .. L) \cup (L + 1 .. L + Len(kinds)) = 1 .. L + Len(kinds)
  BY <1>1
<1>6. ASSUME NEW c \in 1 .. L + Len(kinds)
      PROVE  (IF c > L THEN [name |-> Names[c], kind |-> kinds[c - L]] ELSE NamedColumns(old)[c])
             = [name |-> Names[c], kind |-> all[c]]
  <2>1. CASE c > L
    <3>1. c - L \in 1 .. Len(kinds) /\ L + (c - L) = c
      BY <1>1, <2>1
    <3>2. all[c] = kinds[c - L]
      BY <1>2, <3>1
    <3>3. QED
      BY <2>1, <3>2
  <2>2. CASE ~ (c > L)
    <3>1. c \in 1 .. L
      BY <1>1, <2>2
    <3>2. QED
      BY <1>2, <1>3, <2>2, <3>1
  <2>3. QED
    BY <2>1, <2>2
<1>7. x = [c \in 1 .. L + Len(kinds) |-> [name |-> Names[c], kind |-> all[c]]]
  BY <1>4, <1>5, <1>6
<1>8. QED
  BY <1>1, <1>7 DEF NamedColumns, all

(* Agrees in terms of the columns' and the tags' names.                    *)
LEMMA AgreesIs ==
  ASSUME NEW l, NEW table, NEW real, NEW S, real.columns \in Seq(S)
  PROVE  Agrees(l, table, real) <=>
           /\ DOMAIN table = TableFields
           /\ table.columns = NamedColumns(real.columns)
           /\ table.key = NamedTags(real.columns)
           /\ table.deleted = real.deleted
           /\ l.unknown \/ table.renamed = real.renamed
<1>1. DOMAIN Cat!TagsOf(real.columns) = 1 .. Len(Cat!TagsOf(real.columns))
  BY TagsType
<1>2. NamedTags(real.columns) = [n \in DOMAIN Cat!TagsOf(real.columns) |-> Names[Cat!TagsOf(real.columns)[n]]]
  BY <1>1 DEF NamedTags
<1>3. QED
  BY <1>2, Zenon DEF Agrees, NamedColumns

(* What a table becomes that is created, or gets columns.                  *)
LEMMA CreatedAgrees ==
  ASSUME NamesDiffer, NEW kinds \in Seq(Cat!Kinds), Len(kinds) <= Len(Names), NEW l
  PROVE  Agrees(l, Cat!Created(Cat!NewTable, kinds), [columns |-> kinds, deleted |-> FALSE, renamed |-> FALSE])
<1> DEFINE real == [columns |-> kinds, deleted |-> FALSE, renamed |-> FALSE]
           table == Cat!Created(Cat!NewTable, kinds)
<1>1. <<>> \in Seq(Cat!Kinds) /\ Len(<<>>) = 0 /\ <<>> \o kinds = kinds /\ Len(kinds) \in Nat
  OBVIOUS
<1>2. NamedColumns(<<>>) = <<>>
  BY DEF NamedColumns
<1>3. Cat!Columns(<<>>, 0, kinds) = NamedColumns(kinds)
  BY <1>1, <1>2, NewColumns
<1>4. <<>> \o Cat!TagNames(0, kinds) = NamedTags(kinds)
  <2>1. NamedTags(<<>>) = <<>>
    <3>1. AreTags(Cat!TagsOf(<<>>), <<>>, 0)
      BY <1>1, TagsAre
    <3>2. Len(Cat!TagsOf(<<>>)) = 0
      <4> DEFINE t == Cat!TagsOf(<<>>)
      <4>1. t \in Seq(1 .. 0)
        BY <3>1 DEF AreTags
      <4> HIDE DEF t
      <4>2. Len(t) = 0
        BY <4>1
      <4>3. QED
        BY <4>2 DEF t
    <3>3. QED
      BY <3>2 DEF NamedTags
  <2>2. NamedTags(<<>> \o kinds) = NamedTags(<<>>) \o Cat!TagNames(Len(<<>>), kinds)
    <3>1. Len(<<>>) + Len(kinds) <= Len(Names)
      BY <1>1
    <3>2. ASSUME NEW e \in Seq(Cat!Kinds), Len(e) + Len(kinds) <= Len(Names)
          PROVE  NamedTags(e \o kinds) = NamedTags(e) \o Cat!TagNames(Len(e), kinds)
      BY <3>2, KeyOfMore
    <3>3. QED
      BY <1>1, <3>1, <3>2
  <2>3. QED
    BY <1>1, <2>1, <2>2
<1>5. /\ DOMAIN table = TableFields
      /\ table.columns = NamedColumns(kinds)
      /\ table.key = NamedTags(kinds)
      /\ table.deleted = FALSE /\ table.renamed = FALSE
  <2>1. /\ DOMAIN Cat!NewTable = TableFields
        /\ Cat!NewTable.columns = <<>> /\ Cat!NewTable.key = <<>>
        /\ Cat!NewTable.deleted = FALSE /\ Cat!NewTable.renamed = FALSE
    BY DEF Cat!NewTable, TableFields
  <2>2. /\ DOMAIN table = TableFields
        /\ table.columns = Cat!Columns(Cat!NewTable.columns, 0, kinds)
        /\ table.key = Cat!NewTable.key \o Cat!TagNames(0, kinds)
        /\ table.deleted = Cat!NewTable.deleted /\ table.renamed = Cat!NewTable.renamed
    BY <2>1 DEF Cat!Created, TableFields
  <2> HIDE DEF table
  <2>3. QED
    BY <1>3, <1>4, <2>1, <2>2
<1> HIDE DEF table
<1>6. real.columns \in Seq(Cat!Kinds)
  OBVIOUS
<1>7. Agrees(l, table, real)
  <2>1. /\ DOMAIN table = TableFields
        /\ table.columns = NamedColumns(real.columns)
        /\ table.key = NamedTags(real.columns)
        /\ table.deleted = real.deleted
        /\ table.renamed = real.renamed
    BY <1>5
  <2> HIDE DEF real
  <2>2. QED
    BY <1>6, <2>1, AgreesIs
<1>8. QED
  BY <1>7 DEF table

(* A table that agrees still does when columns are added to both sides.    *)
LEMMA ExtendedAgrees ==
  ASSUME NamesDiffer, NEW real \in CatTables, NEW kinds \in Seq(Cat!Kinds),
         Len(real.columns) + Len(kinds) <= Len(Names),
         NEW l, NEW table, Agrees(l, table, real)
  PROVE  Agrees(l, Cat!Extended(table, Len(real.columns), kinds), [real EXCEPT !.columns = @ \o kinds])
<1> DEFINE old == real.columns
           more == [real EXCEPT !.columns = @ \o kinds]
           longer == Cat!Extended(table, Len(old), kinds)
<1>1. old \in Seq(Cat!Kinds) /\ old \o kinds \in Seq(Cat!Kinds)
  BY DEF CatTables
<1>2. /\ more.columns = old \o kinds /\ more.deleted = real.deleted /\ more.renamed = real.renamed
  BY DEF CatTables
<1>3. /\ DOMAIN table = TableFields
      /\ table.columns = NamedColumns(old)
      /\ table.key = NamedTags(old)
      /\ table.deleted = real.deleted
      /\ l.unknown \/ table.renamed = real.renamed
  BY <1>1, AgreesIs
<1>4. /\ DOMAIN longer = TableFields
      /\ longer.columns = Cat!Columns(table.columns, Len(old), kinds)
      /\ longer.key = Cat!KeyWith(table.key, Cat!TagNames(Len(old), kinds))
      /\ longer.deleted = table.deleted /\ longer.renamed = table.renamed
  BY <1>3 DEF Cat!Extended, TableFields
<1> HIDE DEF longer, more
<1>5. longer.columns = NamedColumns(more.columns)
  BY <1>1, <1>2, <1>3, <1>4, NewColumns
<1>6. longer.key = NamedTags(more.columns)
  BY <1>1, <1>2, <1>3, <1>4, KeyOfMore
<1>7. more.columns \in Seq(Cat!Kinds)
  BY <1>1, <1>2
<1>8. Agrees(l, longer, more)
  BY <1>2, <1>3, <1>4, <1>5, <1>6, <1>7, AgreesIs
<1>9. QED
  BY <1>8 DEF longer, more

-----------------------------------------------------------------------------
(* One batch.                                                              *)

\* The batches' names.
BatchNames ==
  {"CreateDatabase", "CreateTable", "AddColumns", "DeleteTable", "DeleteDatabase", "Rename", "Other"}

\* m differs from l in what was read only.
Kept(l, m) ==
  /\ DOMAIN m = LoadFields
  /\ m.pc = l.pc /\ m.tree = l.tree /\ m.stale = l.stale /\ m.seq = l.seq /\ m.todo = l.todo
  /\ m.whole = l.whole /\ m.swept = l.swept /\ m.damaged = l.damaged
  /\ m.begun = l.begun /\ m.steps = l.steps

(* What CreateDatabase does.                                               *)
LEMMA AppliedCreateDatabase ==
  ASSUME NEW l, NEW op, op.name = "CreateDatabase"
  PROVE  Cat!Applied(l, op) =
           IF l.db = "none" THEN [l EXCEPT !.db = "live"] ELSE l
BY DEF Cat!Applied

(* The same for CreateTable.                                               *)
LEMMA AppliedCreateTable ==
  ASSUME NEW l, NEW op, op.name = "CreateTable"
  PROVE  Cat!Applied(l, op) =
           Cat!With(l, op.table,
            Cat!Created(IF Cat!Known(l, op.table) THEN l.tables[op.table] ELSE Cat!NewTable, op.kinds))
BY DEF Cat!Applied

(* The same for AddColumns.                                                *)
LEMMA AppliedAddColumns ==
  ASSUME NEW l, NEW op, op.name = "AddColumns"
  PROVE  Cat!Applied(l, op) =
           Cat!With(l, op.table, Cat!Extended(l.tables[op.table], op.from, op.kinds))
BY DEF Cat!Applied

(* The same for DeleteTable.                                               *)
LEMMA AppliedDeleteTable ==
  ASSUME NEW l, NEW op, op.name = "DeleteTable"
  PROVE  Cat!Applied(l, op) =
           IF Cat!Known(l, op.table) THEN [l EXCEPT !.tables[op.table].deleted = TRUE] ELSE l
BY DEF Cat!Applied

(* The same for DeleteDatabase.                                            *)
LEMMA AppliedDeleteDatabase ==
  ASSUME NEW l, NEW op, op.name = "DeleteDatabase"
  PROVE  Cat!Applied(l, op) =
           IF l.db = "none" THEN l ELSE [l EXCEPT !.db = "deleted"]
BY DEF Cat!Applied

(* The same for Rename.                                                    *)
LEMMA AppliedRename ==
  ASSUME NEW l, NEW op, op.name = "Rename"
  PROVE  Cat!Applied(l, op) =
           [l EXCEPT !.unknown = TRUE]
BY DEF Cat!Applied

(* The same for Other.                                                     *)
LEMMA AppliedOther ==
  ASSUME NEW l, NEW op, op.name = "Other"
  PROVE  Cat!Applied(l, op) =
           l
BY DEF Cat!Applied

(* Storing a table changes that table only.                                *)
LEMMA WithIs ==
  ASSUME NEW l, DOMAIN l = LoadFields, NEW t, NEW table
  PROVE  LET m == Cat!With(l, t, table) IN
         /\ Kept(l, m) /\ m.db = l.db /\ m.unknown = l.unknown
         /\ DOMAIN m.tables = DOMAIN l.tables \cup {t}
         /\ m.tables[t] = table
         /\ \A u \in DOMAIN l.tables \ {t} : m.tables[u] = l.tables[u]
BY DEF Cat!With, Kept, LoadFields

(* A batch changes nothing of the reading but what was read.               *)
LEMMA AppliedKeeps ==
  ASSUME NEW l, DOMAIN l = LoadFields, NEW op, op.name \in BatchNames
  PROVE  Kept(l, Cat!Applied(l, op)) /\ (l.unknown => Cat!Applied(l, op).unknown)
<1> DEFINE m == Cat!Applied(l, op)
<1>1. CASE op.name = "CreateDatabase"
  BY <1>1, AppliedCreateDatabase DEF Kept, LoadFields
<1>2. CASE op.name = "CreateTable"
  BY <1>2, AppliedCreateTable, WithIs
<1>3. CASE op.name = "AddColumns"
  BY <1>3, AppliedAddColumns, WithIs
<1>4. CASE op.name = "DeleteTable"
  BY <1>4, AppliedDeleteTable DEF Kept, LoadFields
<1>5. CASE op.name = "DeleteDatabase"
  BY <1>5, AppliedDeleteDatabase DEF Kept, LoadFields
<1>6. CASE op.name = "Rename"
  BY <1>6, AppliedRename DEF Kept, LoadFields
<1>7. CASE op.name = "Other"
  BY <1>7, AppliedOther DEF Kept
<1>8. QED
  BY <1>1, <1>2, <1>3, <1>4, <1>5, <1>6, <1>7 DEF BatchNames

(* The server's batches have the names the tool knows.                     *)
LEMMA DidNames ==
  ASSUME NEW op, NEW prev, NEW next, Did(op, prev, next)
  PROVE  op.name \in BatchNames
BY DEF Did, BatchNames

(* A table still agrees once an unknown operation was seen.                *)
LEMMA AgreesStill ==
  ASSUME NEW l, NEW m, l.unknown => m.unknown, NEW table, NEW real, Agrees(l, table, real)
  PROVE  Agrees(m, table, real)
BY DEF Agrees

\* One step of the server and what is read of it.
Follows(l, prev, next, m) ==
  /\ Matches(m, next)
  /\ Complete(l, prev) => Complete(m, next)

(* CreateTable: the table is new on both sides.                            *)
LEMMA FollowsCreateTable ==
  ASSUME NamesDiffer, NEW l, DOMAIN l = LoadFields, NEW prev, Proper(prev), NEW next, NEW op,
         Did(op, prev, next), op.name = "CreateTable", Matches(l, prev)
  PROVE  Follows(l, prev, next, Cat!Applied(l, op))
<1> DEFINE n == Len(prev.tables)
           real == [columns |-> op.kinds, deleted |-> FALSE, renamed |-> FALSE]
           table == Cat!Created(Cat!NewTable, op.kinds)
           m == Cat!Applied(l, op)
<1>1. /\ op.table = n + 1 /\ op.kinds \in Seq(Cat!Kinds) /\ Len(op.kinds) <= Len(Names)
      /\ prev.db = "live" /\ next = [prev EXCEPT !.tables = Append(@, real)]
  BY DEF Did
<1>2. prev \in CatStates /\ prev.tables \in Seq(CatTables) /\ n \in Nat /\ DOMAIN prev.tables = 1 .. n
  BY DEF Proper, CatStates
<1>3. real \in CatTables
  BY <1>1 DEF CatTables
<1>4. next.tables = Append(prev.tables, real) /\ next.db = prev.db
  BY <1>1, <1>2 DEF CatStates
<1> HIDE DEF real
<1>5. /\ DOMAIN next.tables = 1 .. n + 1 /\ next.tables[n + 1] = real
      /\ \A t \in 1 .. n : next.tables[t] = prev.tables[t]
  BY <1>2, <1>3, <1>4
<1>6. DOMAIN l.tables \subseteq 1 .. n
  BY <1>2 DEF Matches
<1>7. ~ Cat!Known(l, op.table)
  BY <1>1, <1>2, <1>6 DEF Cat!Known
<1>8. m = Cat!With(l, n + 1, table)
  BY <1>1, <1>7, AppliedCreateTable
<1>9. /\ m.db = l.db /\ m.unknown = l.unknown
      /\ DOMAIN m.tables = DOMAIN l.tables \cup {n + 1}
      /\ m.tables[n + 1] = table
      /\ \A u \in DOMAIN l.tables \ {n + 1} : m.tables[u] = l.tables[u]
  <2> HIDE DEF m, table, n
  <2> QED BY <1>8, WithIs
<1>10. Agrees(m, table, real)
  BY <1>1, CreatedAgrees DEF real
<1> HIDE DEF m, table
<1>11. ASSUME NEW t \in DOMAIN m.tables
       PROVE  t \in DOMAIN next.tables /\ Agrees(m, m.tables[t], next.tables[t])
  <2>1. CASE t = n + 1
    BY <1>2, <1>5, <1>9, <1>10, <2>1
  <2>2. CASE t # n + 1
    <3>1. t \in DOMAIN l.tables /\ m.tables[t] = l.tables[t]
      BY <1>9, <2>2
    <3>2. t \in 1 .. n /\ Agrees(l, l.tables[t], prev.tables[t])
      BY <1>2, <3>1 DEF Matches
    <3>3. Agrees(m, m.tables[t], next.tables[t])
      BY <1>5, <1>9, <3>1, <3>2, AgreesStill
    <3>4. QED
      BY <1>2, <1>5, <3>2, <3>3
  <2>3. QED
    BY <2>1, <2>2
<1>12. Complete(l, prev) => Complete(m, next)
  BY <1>2, <1>4, <1>5, <1>9 DEF Complete
<1>13. QED
  BY <1>11, <1>12 DEF Follows, Matches, m

(* AddColumns: the table is there, and gets the same columns and tags.     *)
LEMMA FollowsAddColumns ==
  ASSUME NamesDiffer, NEW l, DOMAIN l = LoadFields, NEW prev, Proper(prev), NEW next, NEW op,
         Did(op, prev, next), op.name = "AddColumns", Matches(l, prev), Cat!Applicable(l, op)
  PROVE  Follows(l, prev, next, Cat!Applied(l, op))
<1> DEFINE n == Len(prev.tables)
           k == op.table
           real == prev.tables[k]
           more == [real EXCEPT !.columns = @ \o op.kinds]
           table == Cat!Extended(l.tables[k], op.from, op.kinds)
           m == Cat!Applied(l, op)
<1>1. /\ k \in DOMAIN prev.tables /\ op.kinds \in Seq(Cat!Kinds)
      /\ op.from = Len(real.columns) /\ op.from + Len(op.kinds) <= Len(Names)
      /\ next = [prev EXCEPT !.tables[op.table].columns = @ \o op.kinds]
  BY DEF Did
<1>2. prev \in CatStates /\ prev.tables \in Seq(CatTables) /\ n \in Nat /\ DOMAIN prev.tables = 1 .. n
  BY DEF Proper, CatStates
<1>3. real \in CatTables
  BY <1>1, <1>2
<1>4. next.tables = [prev.tables EXCEPT ![k] = more] /\ next.db = prev.db
  BY <1>1, <1>2 DEF CatStates
<1> HIDE DEF more
<1>5. /\ DOMAIN next.tables = 1 .. n /\ next.tables[k] = more
      /\ \A t \in 1 .. n \ {k} : next.tables[t] = prev.tables[t]
  BY <1>1, <1>2, <1>4
<1>6. k \in DOMAIN l.tables
  BY DEF Cat!Applicable, Cat!Known
<1>7. m = Cat!With(l, k, table)
  BY AppliedAddColumns
<1>8. /\ m.db = l.db /\ m.unknown = l.unknown
      /\ DOMAIN m.tables = DOMAIN l.tables \cup {k}
      /\ m.tables[k] = table
      /\ \A u \in DOMAIN l.tables \ {k} : m.tables[u] = l.tables[u]
  <2> HIDE DEF m, table, k
  <2> QED BY <1>7, WithIs
<1>9. Agrees(m, table, more)
  <2>1. Agrees(l, l.tables[k], real)
    BY <1>6 DEF Matches
  <2>2. Agrees(l, table, more)
    <3> HIDE DEF real, k
    <3> QED BY <1>1, <1>3, <2>1, ExtendedAgrees DEF more
  <2>3. QED
    BY <1>8, <2>2, AgreesStill
<1> HIDE DEF m, table, k
<1>10. ASSUME NEW t \in DOMAIN m.tables
       PROVE  t \in DOMAIN next.tables /\ Agrees(m, m.tables[t], next.tables[t])
  <2>1. CASE t = k
    BY <1>1, <1>2, <1>5, <1>8, <1>9, <2>1
  <2>2. CASE t # k
    <3>1. t \in DOMAIN l.tables /\ m.tables[t] = l.tables[t]
      BY <1>8, <2>2
    <3>2. t \in 1 .. n \ {k} /\ Agrees(l, l.tables[t], prev.tables[t])
      BY <1>2, <2>2, <3>1 DEF Matches
    <3>3. Agrees(m, m.tables[t], next.tables[t])
      BY <1>5, <1>8, <3>1, <3>2, AgreesStill
    <3>4. QED
      BY <1>5, <3>2, <3>3
  <2>3. QED
    BY <2>1, <2>2
<1>11. Complete(l, prev) => Complete(m, next)
  BY <1>1, <1>2, <1>4, <1>5, <1>6, <1>8 DEF Complete
<1>12. QED
  BY <1>10, <1>11 DEF Follows, Matches, m

(* DeleteTable: the flag is set on both sides, if the table was read.      *)
LEMMA FollowsDeleteTable ==
  ASSUME NEW l, DOMAIN l = LoadFields, NEW prev, Proper(prev), NEW next, NEW op,
         Did(op, prev, next), op.name = "DeleteTable", Matches(l, prev)
  PROVE  Follows(l, prev, next, Cat!Applied(l, op))
<1> DEFINE n == Len(prev.tables)
           k == op.table
           gone == [prev.tables[k] EXCEPT !.deleted = TRUE]
           m == Cat!Applied(l, op)
<1>1. k \in DOMAIN prev.tables /\ next = [prev EXCEPT !.tables[op.table].deleted = TRUE]
  BY DEF Did
<1>2. prev \in CatStates /\ prev.tables \in Seq(CatTables) /\ n \in Nat /\ DOMAIN prev.tables = 1 .. n
  BY DEF Proper, CatStates
<1>3. next.tables = [prev.tables EXCEPT ![k] = gone] /\ next.db = prev.db
  BY <1>1, <1>2 DEF CatStates
<1> HIDE DEF gone
<1>4. /\ DOMAIN next.tables = 1 .. n /\ next.tables[k] = gone
      /\ \A t \in 1 .. n \ {k} : next.tables[t] = prev.tables[t]
  BY <1>1, <1>2, <1>3
<1>5. gone.columns = prev.tables[k].columns /\ gone.deleted = TRUE /\ gone.renamed = prev.tables[k].renamed
  <2>1. prev.tables[k] \in CatTables
    BY <1>1, <1>2
  <2>2. QED
    BY <2>1 DEF CatTables, gone
<1>6. m = IF k \in DOMAIN l.tables THEN [l EXCEPT !.tables[k].deleted = TRUE] ELSE l
  BY AppliedDeleteTable DEF Cat!Known
<1>7. CASE k \notin DOMAIN l.tables
  <2>1. m = l
    BY <1>6, <1>7
  <2> HIDE DEF m, k
  <2>2. ASSUME NEW t \in DOMAIN m.tables
        PROVE  t \in DOMAIN next.tables /\ Agrees(m, m.tables[t], next.tables[t])
    <3>1. t \in 1 .. n \ {k} /\ Agrees(l, l.tables[t], prev.tables[t])
      BY <1>2, <1>7, <2>1 DEF Matches
    <3>2. QED
      BY <1>4, <2>1, <3>1
  <2>3. Complete(l, prev) => Complete(m, next)
    BY <1>2, <1>3, <1>4, <2>1 DEF Complete
  <2>4. QED
    BY <2>2, <2>3 DEF Follows, Matches, m
<1>8. CASE k \in DOMAIN l.tables
  <2> DEFINE old == l.tables[k]
             new == [old EXCEPT !.deleted = TRUE]
  <2>1. /\ m.tables = [l.tables EXCEPT ![k] = new] /\ m.db = l.db /\ m.unknown = l.unknown
    BY <1>6, <1>8 DEF LoadFields
  <2>2. Agrees(l, old, prev.tables[k])
    BY <1>8 DEF Matches
  <2>3. Agrees(l, new, gone)
    BY <1>5, <2>2 DEF Agrees, TableFields
  <2> HIDE DEF m, k, old, new
  <2>4. /\ DOMAIN m.tables = DOMAIN l.tables /\ m.tables[k] = new
        /\ \A t \in DOMAIN l.tables \ {k} : m.tables[t] = l.tables[t]
    BY <1>8, <2>1
  <2>5. ASSUME NEW t \in DOMAIN m.tables
        PROVE  t \in DOMAIN next.tables /\ Agrees(m, m.tables[t], next.tables[t])
    <3>1. CASE t = k
      <4>1. Agrees(m, new, gone)
        BY <2>1, <2>3, AgreesStill
      <4>2. QED
        BY <1>1, <1>2, <1>4, <2>4, <3>1, <4>1
    <3>2. CASE t # k
      <4>1. t \in 1 .. n \ {k} /\ Agrees(l, l.tables[t], prev.tables[t]) /\ m.tables[t] = l.tables[t]
        BY <1>2, <2>4, <3>2 DEF Matches
      <4>2. Agrees(m, m.tables[t], next.tables[t])
        BY <1>4, <2>1, <4>1, AgreesStill
      <4>3. QED
        BY <1>4, <4>1, <4>2
    <3>3. QED
      BY <3>1, <3>2
  <2>6. Complete(l, prev) => Complete(m, next)
    BY <1>2, <1>3, <1>4, <2>1, <2>4 DEF Complete
  <2>7. QED
    BY <2>5, <2>6 DEF Follows, Matches, m
<1>9. QED
  BY <1>7, <1>8

(* Rename: the tool reports an operation it does not know.                 *)
LEMMA FollowsRename ==
  ASSUME NEW l, DOMAIN l = LoadFields, NEW prev, Proper(prev), NEW next, NEW op,
         Did(op, prev, next), op.name = "Rename", Matches(l, prev)
  PROVE  Follows(l, prev, next, Cat!Applied(l, op))
<1> DEFINE m == Cat!Applied(l, op)
<1>1. PICK k \in DOMAIN prev.tables : next = [prev EXCEPT !.tables[k].renamed = TRUE]
  BY DEF Did
<1>2. prev \in CatStates /\ prev.tables \in Seq(CatTables)
  BY DEF Proper, CatStates
<1>3. next.tables = [prev.tables EXCEPT ![k] = [@ EXCEPT !.renamed = TRUE]] /\ next.db = prev.db
  BY <1>1, <1>2 DEF CatStates
<1>4. prev.tables[k] \in CatTables
  BY <1>1, <1>2
<1>5. /\ DOMAIN next.tables = DOMAIN prev.tables
      /\ \A t \in DOMAIN prev.tables : /\ next.tables[t].columns = prev.tables[t].columns
                                       /\ next.tables[t].deleted = prev.tables[t].deleted
  BY <1>3, <1>4 DEF CatTables
<1>6. m = [l EXCEPT !.unknown = TRUE]
  BY AppliedRename
<1>7. m.tables = l.tables /\ m.db = l.db /\ m.unknown = TRUE
  BY <1>6 DEF LoadFields
<1> HIDE DEF m
<1>8. ASSUME NEW t \in DOMAIN m.tables
      PROVE  t \in DOMAIN next.tables /\ Agrees(m, m.tables[t], next.tables[t])
  <2>1. t \in DOMAIN prev.tables /\ Agrees(l, l.tables[t], prev.tables[t])
    BY <1>7 DEF Matches
  <2>2. QED
    BY <1>5, <1>7, <2>1 DEF Agrees
<1>9. Complete(l, prev) => Complete(m, next)
  BY <1>3, <1>5, <1>7 DEF Complete
<1>10. QED
  BY <1>8, <1>9 DEF Follows, Matches, m

(* A batch that is applied to what was read up to it makes of that what    *)
(* the server made of its catalog.                                         *)
LEMMA BatchFollows ==
  ASSUME NamesDiffer, NEW l, DOMAIN l = LoadFields, NEW prev, Proper(prev), NEW next, NEW op,
         Did(op, prev, next), Matches(l, prev), Cat!Applicable(l, op)
  PROVE  Follows(l, prev, next, Cat!Applied(l, op))
<1> DEFINE m == Cat!Applied(l, op)
<1>1. prev \in CatStates
  BY DEF Proper
<1>2. CASE op.name \in {"CreateDatabase", "DeleteDatabase", "Other"}
  <2>1. next.tables = prev.tables
    BY <1>1, <1>2 DEF Did, CatStates
  <2>2. m.tables = l.tables /\ m.unknown = l.unknown
    BY <1>2, AppliedCreateDatabase, AppliedDeleteDatabase, AppliedOther DEF LoadFields
  <2>3. l.db = prev.db => m.db = next.db
    BY <1>1, <1>2, AppliedCreateDatabase, AppliedDeleteDatabase, AppliedOther DEF LoadFields, Did, CatStates
  <2> HIDE DEF m
  <2>4. Matches(m, next)
    BY <2>1, <2>2 DEF Matches, Agrees
  <2>5. Complete(l, prev) => Complete(m, next)
    BY <2>1, <2>2, <2>3 DEF Complete
  <2>6. QED
    BY <2>4, <2>5 DEF Follows, m
<1>3. CASE op.name \notin {"CreateDatabase", "DeleteDatabase", "Other"}
  BY <1>3, DidNames, FollowsCreateTable, FollowsAddColumns, FollowsDeleteTable, FollowsRename DEF BatchNames
<1>4. QED
  BY <1>2, <1>3

(* With everything read so far a batch is never refused.                   *)
LEMMA CompleteApplies ==
  ASSUME NEW l, NEW prev, Proper(prev), NEW next, NEW op, Did(op, prev, next), Complete(l, prev)
  PROVE  Cat!Applicable(l, op)
<1>1. op.name = "CreateTable" => l.db # "none"
  BY DEF Did, Complete
<1>2. op.name = "AddColumns" => op.table \in DOMAIN prev.tables
  BY DEF Did
<1>3. op.name = "AddColumns" => prev.tables # <<>>
  BY <1>2
<1>4. op.name = "AddColumns" => l.db # "none" /\ op.table \in DOMAIN l.tables
  BY <1>2, <1>3 DEF Proper, Complete
<1>5. QED
  BY <1>1, <1>4 DEF Cat!Applicable, Cat!Known
-----------------------------------------------------------------------------
(* A checkpoint of JSON.                                                   *)

(* The instance counts as this module does.                                *)
LEMMA CatCardinality ==
  ASSUME NEW S
  PROVE  Cat!Cardinality(S) = Cardinality(S)
BY DEF Cat!Cardinality, Cardinality, Cat!IsFiniteSet, IsFiniteSet

\* The tag of number j is the j-th.
LEMMA TagNumber ==
  ASSUME NEW S, NEW cols \in Seq(S), NEW j \in 1 .. Len(Cat!TagsOf(cols))
  PROVE  LET tags == Cat!TagsOf(cols) IN
         Cat!Cardinality({n \in DOMAIN tags : tags[n] <= tags[j]}) = j
<1> DEFINE tags == Cat!TagsOf(cols)
           N == Len(tags)
<1>1. AreTags(tags, cols, Len(cols))
  BY TagsAre
<1>2. /\ tags \in Seq(Nat) /\ N \in Nat /\ DOMAIN tags = 1 .. N
      /\ \A a, b \in 1 .. N : a < b => tags[a] < tags[b]
  BY <1>1, TagsType DEF AreTags
<1> HIDE DEF tags
<1>3. \A a \in 1 .. N : tags[a] \in Nat
  BY <1>2
<1>4. {n \in DOMAIN tags : tags[n] <= tags[j]} = 1 .. j
  <2>1. ASSUME NEW n \in 1 .. N PROVE tags[n] <= tags[j] <=> n <= j
    <3>1. n \in Nat /\ j \in Nat /\ tags[n] \in Nat /\ tags[j] \in Nat
      BY <1>2, <1>3 DEF tags
    <3>2. n < j => tags[n] < tags[j]
      BY <1>2 DEF tags
    <3>3. j < n => tags[j] < tags[n]
      BY <1>2 DEF tags
    <3>4. n < j \/ n = j \/ j < n
      BY <3>1
    <3>5. QED
      BY <3>1, <3>2, <3>3, <3>4
  <2>2. j \in 1 .. N
    BY DEF tags
  <2>3. QED
    BY <1>2, <2>1, <2>2
<1>5. j \in Nat
  BY <1>2 DEF tags
<1>6. Cardinality(1 .. j) = j
  BY <1>5, FS_Interval
<1>7. QED
  BY <1>4, <1>6, CatCardinality DEF tags

\* The key's ids resolve, and the table is read as it was written.
LEMMA ParsedAgrees ==
  ASSUME NEW real \in CatTables, NEW e \in {"v1", "v2"}, NEW l
  PROVE  /\ Cat!SeriesKeyResolves(Cat!StoredTable(real, e), e)
         /\ Agrees(l, Cat!Parsed(Cat!StoredTable(real, e), e), real)
<1> DEFINE cols == real.columns
           tags == Cat!TagsOf(cols)
           N == Len(tags)
           stored == Cat!StoredTable(real, e)
           key == IF e = "v1" THEN tags ELSE [n \in DOMAIN tags |-> n]
           Id(c) == IF e = "v1" THEN c.id ELSE c.tag
           X(j) == stored.columns[tags[j]]
           Number(c) == Cat!Cardinality({n \in DOMAIN tags : tags[n] <= c})
           tagged == {stored.columns[c] : c \in {c \in DOMAIN stored.columns : stored.columns[c].kind = "tag"}}
           ids == Cat!KeyIDs(stored, e)
<1>1. cols \in Seq(Cat!Kinds) /\ Len(cols) \in Nat /\ DOMAIN cols = 1 .. Len(cols)
  BY DEF CatTables
<1>2. AreTags(tags, cols, Len(cols))
  BY <1>1, TagsAre
<1>3. /\ N \in Nat /\ DOMAIN tags = 1 .. N
      /\ \A j \in 1 .. N : tags[j] \in 1 .. Len(cols) /\ cols[tags[j]] = "tag"
      /\ \A a, b \in 1 .. N : a < b => tags[a] < tags[b]
      /\ \A c \in 1 .. Len(cols) : cols[c] = "tag" => \E j \in 1 .. N : tags[j] = c
  <2>1. N \in Nat /\ DOMAIN tags = 1 .. N /\ tags \in Seq(1 .. Len(cols))
    BY <1>1, TagsType
  <2> HIDE DEF tags, cols
  <2>2. \A j \in 1 .. N : tags[j] \in 1 .. Len(cols)
    BY <2>1
  <2>3. QED
    BY <1>2, <2>1, <2>2 DEF AreTags
<1>4. /\ stored.key = key /\ stored.deleted = real.deleted /\ stored.renamed = real.renamed
      /\ DOMAIN stored.columns = 1 .. Len(cols)
      /\ \A c \in 1 .. Len(cols) :
           stored.columns[c] = [id |-> c, tag |-> Number(c), name |-> Names[c], kind |-> cols[c]]
  BY <1>1 DEF Cat!StoredTable
<1>5. \A j \in 1 .. N : Number(tags[j]) = j
  BY <1>1, TagNumber
<1> HIDE DEF stored, tags, cols, Number
<1>6. \A c \in 1 .. Len(cols) : /\ stored.columns[c].id = c
                                /\ stored.columns[c].tag = Number(c)
                                /\ stored.columns[c].name = Names[c]
                                /\ stored.columns[c].kind = cols[c]
  <2> TAKE c \in 1 .. Len(cols)
  <2>1. stored.columns[c] = [id |-> c, tag |-> Number(c), name |-> Names[c], kind |-> cols[c]]
    BY <1>4
  <2>2. QED
    BY <2>1
<1>7. \A j \in 1 .. N : /\ X(j).id = tags[j] /\ X(j).tag = j
                         /\ X(j).name = Names[tags[j]] /\ X(j).kind = "tag"
  BY <1>3, <1>6, <1>5
<1>8. tagged = {X(j) : j \in 1 .. N}
  <2>1. \A c \in 1 .. Len(cols) : stored.columns[c].kind = cols[c]
    BY <1>6
  <2>2. ASSUME NEW x \in tagged PROVE x \in {X(j) : j \in 1 .. N}
    <3>1. PICK c \in 1 .. Len(cols) : x = stored.columns[c] /\ cols[c] = "tag"
      BY <1>4, <2>1
    <3>2. QED
      BY <1>3, <3>1
  <2>3. ASSUME NEW j \in 1 .. N PROVE X(j) \in tagged
    BY <1>3, <1>4, <2>1
  <2>4. QED
    BY <2>2, <2>3
<1>9. \A j \in 1 .. N : Id(X(j)) = key[j] /\ X(j).name = Names[tags[j]]
  BY <1>3, <1>7
<1>10. /\ DOMAIN key = 1 .. N
      /\ \A a, b \in 1 .. N : key[a] = key[b] => a = b
  <2>1. DOMAIN key = 1 .. N
    BY <1>3
  <2>2. ASSUME NEW a \in 1 .. N, NEW b \in 1 .. N, tags[a] = tags[b] PROVE a = b
    <3>1. /\ a \in Int /\ b \in Int /\ tags[a] \in Int /\ tags[b] \in Int
          /\ a < b => tags[a] < tags[b]
          /\ b < a => tags[b] < tags[a]
      BY <1>3
    <3>2. QED
      BY <2>2, <3>1
  <2>3. QED
    BY <1>3, <2>1, <2>2
<1>11. ids = [i \in {Id(c) : c \in tagged} |-> (CHOOSE c \in tagged : Id(c) = i).name]
  BY DEF Cat!KeyIDs
<1> HIDE DEF tagged, X, Id, key, ids
<1>12. {Id(c) : c \in tagged} = {key[j] : j \in 1 .. N}
  BY <1>8, <1>9
<1>13. DOMAIN ids = {key[j] : j \in 1 .. N}
  BY <1>11, <1>12
<1>14. \A j \in 1 .. N : ids[key[j]] = Names[tags[j]]
  <2> TAKE j \in 1 .. N
  <2>1. X(j) \in tagged /\ Id(X(j)) = key[j]
    BY <1>8, <1>9
  <2>2. \A c \in tagged : Id(c) = key[j] => c = X(j)
    BY <1>8, <1>9, <1>10
  <2>3. (CHOOSE c \in tagged : Id(c) = key[j]) = X(j)
    BY <2>1, <2>2
  <2>4. ids[key[j]] = (CHOOSE c \in tagged : Id(c) = key[j]).name
    BY <1>11, <1>12
  <2>5. QED
    BY <1>9, <2>3, <2>4
<1>15. Cat!SeriesKeyResolves(stored, e)
  BY <1>4, <1>10, <1>13 DEF Cat!SeriesKeyResolves, Cat!ToSet, ids
<1> DEFINE parsed == Cat!Parsed(stored, e)
<1>16. /\ DOMAIN parsed = TableFields
       /\ parsed.columns = [c \in 1 .. Len(cols) |->
                              [name |-> stored.columns[c].name, kind |-> stored.columns[c].kind]]
       /\ parsed.key = [n \in 1 .. N |-> ids[key[n]]]
       /\ parsed.deleted = real.deleted /\ parsed.renamed = real.renamed
  BY <1>4, <1>10 DEF Cat!Parsed, TableFields, ids
<1> HIDE DEF parsed
<1>17. parsed.columns = [c \in 1 .. Len(cols) |-> [name |-> Names[c], kind |-> cols[c]]]
  <2>1. \A c \in 1 .. Len(cols) : [name |-> stored.columns[c].name, kind |-> stored.columns[c].kind]
                                    = [name |-> Names[c], kind |-> cols[c]]
    BY <1>6
  <2>2. QED
    BY <1>16, <2>1, Zenon
<1>18. parsed.key = [n \in 1 .. N |-> Names[tags[n]]]
  BY <1>14, <1>16
<1>19. Agrees(l, parsed, real)
  BY <1>1, <1>3, <1>16, <1>17, <1>18 DEF Agrees, cols, tags
<1>20. QED
  BY <1>15, <1>19 DEF parsed, stored
-----------------------------------------------------------------------------
(* A checkpoint of records.                                                *)

\* g[i] is start with the first i batches applied.
ReplayOf(g, start, n) ==
  g = [i \in 0 .. n |-> IF i = 0 THEN start ELSE Cat!Applied(g[i-1], history[i])]

(* The recursion of Replayed has a solution, whatever the history.         *)
LEMMA ReplayExists ==
  ASSUME NEW start, NEW n \in Nat
  PROVE  \E g : ReplayOf(g, start, n)
<1> DEFINE N == {m \in Nat : \E g : ReplayOf(g, start, m)}
<1>1. 0 \in N
  <2>1. ReplayOf([i \in 0 .. 0 |-> start], start, 0)
    BY DEF ReplayOf
  <2>2. QED
    BY <2>1
<1>2. ASSUME NEW m \in N \cap Nat PROVE m + 1 \in N
  <2>1. PICK g : ReplayOf(g, start, m)
    OBVIOUS
  <2> DEFINE last == Cat!Applied(g[m], history[m + 1])
             h == [i \in 0 .. m + 1 |-> IF i \in 0 .. m THEN g[i] ELSE last]
  <2>2. ASSUME NEW i \in 0 .. m + 1
        PROVE  h[i] = IF i = 0 THEN start ELSE Cat!Applied(h[i-1], history[i])
    <3>1. CASE i = 0
      BY <2>1, <3>1 DEF ReplayOf
    <3>2. CASE i \in 1 .. m
      <4>1. h[i] = g[i] /\ h[i-1] = g[i-1] /\ i # 0
        BY <3>2
      <4>2. i \in 0 .. m
        BY <3>2
      <4> HIDE DEF h, last
      <4>3. g[i] = IF i = 0 THEN start ELSE Cat!Applied(g[i-1], history[i])
        BY <2>1, <4>2, Zenon DEF ReplayOf
      <4>4. QED
        BY <4>1, <4>3
    <3>3. CASE i = m + 1
      <4>1. h[i] = last /\ h[i-1] = g[m] /\ i # 0
        BY <3>3
      <4>2. QED
        BY <4>1, <3>3
    <3>4. QED
      BY <3>1, <3>2, <3>3
  <2>3. ReplayOf(h, start, m + 1)
    BY <2>2 DEF ReplayOf
  <2>4. QED
    <3> HIDE DEF h
    <3> QED BY <2>3
<1>3. Nat \subseteq N
  <2> HIDE DEF N
  <2> QED BY <1>1, <1>2, SetInduction
<1>4. QED
  BY <1>3

(* What the solution is at each batch.                                     *)
LEMMA ReplayStep ==
  ASSUME NEW start, NEW n \in Nat, NEW g, ReplayOf(g, start, n)
  PROVE  /\ g[0] = start
         /\ \A m \in 0 .. n - 1 : g[m + 1] = Cat!Applied(g[m], history[m + 1])
<1>1. \A i \in 0 .. n : g[i] = IF i = 0 THEN start ELSE Cat!Applied(g[i-1], history[i])
  BY Zenon DEF ReplayOf
<1>2. 0 \in 0 .. n
  OBVIOUS
<1>3. ASSUME NEW m \in 0 .. n - 1
      PROVE  g[m + 1] = Cat!Applied(g[m], history[m + 1])
  <2>1. m + 1 \in 0 .. n /\ m + 1 # 0 /\ (m + 1) - 1 = m
    OBVIOUS
  <2>2. g[m + 1] = Cat!Applied(g[(m + 1) - 1], history[m + 1])
    BY <1>1, <2>1, Zenon
  <2>3. QED
    BY <2>1, <2>2
<1>4. QED
  BY <1>1, <1>2, <1>3, Zenon

(* The checkpoint is what the recursion makes of the batches up to it.     *)
LEMMA ReplayFrom ==
  ASSUME NEW n \in Nat
  PROVE  \E g : ReplayOf(g, [load EXCEPT !.seq = n], n) /\ Cat!Replayed(n) = g[n]
<1> DEFINE start == [load EXCEPT !.seq = n]
           Is(g) == g = [i \in 0 .. n |->
                           IF i = 0 THEN [load EXCEPT !.seq = n] ELSE Cat!Applied(g[i-1], history[i])]
           replay == CHOOSE g : Is(g)
<1>1. Cat!Replayed(n) = replay[n]
  BY DEF Cat!Replayed
<1>2. Is(replay)
  <2>1. PICK g : ReplayOf(g, start, n)
    BY ReplayExists
  <2>2. Is(g)
    BY <2>1 DEF ReplayOf
  <2> HIDE DEF Is
  <2>3. QED
    BY <2>2
<1>3. ReplayOf(replay, start, n)
  <2> HIDE DEF replay
  <2> QED BY <1>2 DEF ReplayOf
<1> HIDE DEF replay
<1>4. QED
  BY <1>1, <1>3

\* A reading that has nothing yet, and is at batch 0.
Fresh(l) == DOMAIN l = LoadFields /\ l.db = "none" /\ l.tables = Cat!Idle.tables

(* Nothing is all there is at batch 0.                                     *)
LEMMA FreshComplete ==
  ASSUME NEW l, Fresh(l)
  PROVE  Matches(l, Cat!StateAt(0)) /\ Complete(l, Cat!StateAt(0))
<1>1. DOMAIN l.tables = {}
  BY DEF Fresh, Cat!Idle
<1>2. Cat!StateAt(0).tables = <<>> /\ Cat!StateAt(0).db = "none"
  BY DEF Cat!StateAt, Cat!Empty
<1>3. QED
  BY <1>1, <1>2 DEF Matches, Complete, Fresh

(* Two batches change no more than one.                                    *)
LEMMA KeptTransitive ==
  ASSUME NEW l, NEW m, NEW k, Kept(l, m), Kept(m, k)
  PROVE  Kept(l, k)
BY DEF Kept

(* A history that is replayed from its beginning gives the server's        *)
(* catalog.                                                                *)
LEMMA ReplayedIs ==
  ASSUME NamesDiffer, HistorySound, NEW point \in 0 .. Len(history), Fresh(load)
  PROVE  LET m == Cat!Replayed(point) IN
         /\ Kept([load EXCEPT !.seq = point], m)
         /\ Matches(m, Cat!StateAt(point))
         /\ Complete(m, Cat!StateAt(point))
<1> DEFINE start == [load EXCEPT !.seq = point]
<1>1. Len(history) \in Nat /\ point \in Nat
  BY DEF HistorySound
<1>2. PICK g : ReplayOf(g, start, point) /\ Cat!Replayed(point) = g[point]
  BY <1>1, ReplayFrom
<1>3. g[0] = start /\ \A m \in 0 .. point - 1 : g[m + 1] = Cat!Applied(g[m], history[m + 1])
  <2> HIDE DEF start
  <2> QED BY <1>1, <1>2, ReplayStep
<1>4. Fresh(start) /\ Kept(start, start)
  BY DEF Fresh, Kept, LoadFields
<1> HIDE DEF start
<1> DEFINE Is(m) == /\ Kept(start, g[m])
                    /\ Matches(g[m], Cat!StateAt(m))
                    /\ Complete(g[m], Cat!StateAt(m))
           N == {m \in Nat : m <= point => Is(m)}
<1>5. 0 \in N
  BY <1>3, <1>4, FreshComplete
<1>6. ASSUME NEW m \in N \cap Nat PROVE m + 1 \in N
  <2>1. SUFFICES ASSUME m + 1 <= point PROVE Is(m + 1)
    OBVIOUS
  <2>2. Kept(start, g[m]) /\ Matches(g[m], Cat!StateAt(m)) /\ Complete(g[m], Cat!StateAt(m))
    BY <1>1, <2>1
  <2>3. m \in 0 .. point - 1 /\ m + 1 \in 1 .. Len(history) /\ m \in 0 .. Len(history) /\ (m + 1) - 1 = m
    BY <1>1, <2>1
  <2> DEFINE op == history[m + 1]
             prev == Cat!StateAt(m)
             next == Cat!StateAt(m + 1)
  <2>4. Did(op, prev, next) /\ Proper(prev)
    <3>1. Did(history[m + 1], Cat!StateAt((m + 1) - 1), Cat!StateAt(m + 1))
      BY <2>3 DEF HistorySound
    <3>2. QED
      BY <2>3, <3>1 DEF HistorySound
  <2>5. g[m + 1] = Cat!Applied(g[m], op)
    BY <1>3, <2>3
  <2> HIDE DEF op, prev, next
  <2>6. Cat!Applicable(g[m], op)
    BY <2>2, <2>4, CompleteApplies DEF prev
  <2>7. DOMAIN g[m] = LoadFields
    BY <2>2 DEF Kept
  <2>8. Follows(g[m], prev, next, g[m + 1])
    BY <2>2, <2>4, <2>5, <2>6, <2>7, BatchFollows DEF prev
  <2>9. Kept(g[m], g[m + 1])
    BY <2>4, <2>5, <2>7, DidNames, AppliedKeeps
  <2>10. Kept(start, g[m + 1])
    BY <2>2, <2>9, KeptTransitive
  <2>11. QED
    BY <2>2, <2>8, <2>10 DEF Follows, prev, next
<1>7. Nat \subseteq N
  <2> HIDE DEF N
  <2> QED BY <1>5, <1>6, SetInduction
<1>8. Is(point)
  <2> HIDE DEF Is
  <2> QED BY <1>1, <1>7
<1>9. QED
  BY <1>2, <1>8 DEF start
-----------------------------------------------------------------------------
(* The layouts.                                                            *)

\* A server that migrates goes through the layouts in turn.
Layouts == {{"v1"}, {"v1", "v2"}, {"v1", "v2", "v3"}}
EraOf(D) == Cat!Eras[Cat!Cardinality(D)]

(* How many layouts there are.                                             *)
LEMMA LayoutCount ==
  ASSUME NEW D \in Layouts
  PROVE  /\ Cat!Cardinality(D) = IF D = {"v1"} THEN 1 ELSE IF D = {"v1", "v2"} THEN 2 ELSE 3
         /\ Cat!Cardinality(D) \in Nat
<1>1. IsFiniteSet({"v1"}) /\ Cardinality({"v1"}) = 1
  BY FS_Singleton
<1>2. IsFiniteSet({"v1", "v2"}) /\ Cardinality({"v1", "v2"}) = 2
  <2>1. {"v1", "v2"} = {"v1"} \cup {"v2"} /\ "v2" \notin {"v1"}
    OBVIOUS
  <2>2. QED
    BY <1>1, <2>1, FS_AddElement
<1>3. Cardinality({"v1", "v2", "v3"}) = 3
  <2>1. {"v1", "v2", "v3"} = {"v1", "v2"} \cup {"v3"} /\ "v3" \notin {"v1", "v2"}
    OBVIOUS
  <2>2. QED
    BY <1>2, <2>1, FS_AddElement
<1>4. {"v1"} # {"v1", "v2"} /\ {"v1"} # {"v1", "v2", "v3"} /\ {"v1", "v2"} # {"v1", "v2", "v3"}
  OBVIOUS
<1>5. Cat!Cardinality(D) = Cardinality(D)
  BY CatCardinality
<1>6. D = {"v1"} \/ D = {"v1", "v2"} \/ D = {"v1", "v2", "v3"}
  BY DEF Layouts
<1>7. QED
  BY <1>1, <1>2, <1>3, <1>4, <1>5, <1>6

(* The layout in use is the last one.                                      *)
LEMMA EraIs ==
  ASSUME NEW D \in Layouts
  PROVE  EraOf(D) = IF D = {"v1"} THEN "v1" ELSE IF D = {"v1", "v2"} THEN "v2" ELSE "v3"
BY LayoutCount DEF EraOf, Cat!Eras

(* It exists, and so does v2 if v3 does.                                   *)
LEMMA EraIn ==
  ASSUME NEW D \in Layouts
  PROVE  EraOf(D) \in D /\ ("v3" \in D => "v2" \in D) /\ D \subseteq {"v1", "v2", "v3"}
BY EraIs DEF Layouts

-----------------------------------------------------------------------------
(* The initial state.                                                      *)

(* The invariant holds initially.                                          *)
LEMMA CatInit ==
  ASSUME Cat!Init
  PROVE  CatInv
<1>1. /\ history = <<>> /\ states = <<>> /\ load = Cat!Idle
      /\ trees = [e \in {"v1"} |-> [point |-> 0, logs |-> {}]]
  BY DEF Cat!Init
<1>2. Len(history) = 0
  BY <1>1
<1>3. HistorySound
  <2>1. Cat!StateAt(0) = [db |-> "none", tables |-> <<>>]
    BY DEF Cat!StateAt, Cat!Empty
  <2>2. <<>> \in Seq(CatTables) /\ DOMAIN <<>> = {}
    OBVIOUS
  <2>3. Proper(Cat!StateAt(0))
    <3>1. [db |-> "none", tables |-> <<>>] \in CatStates
      BY <2>2 DEF CatStates
    <3>2. Cat!StateAt(0) \in CatStates /\ Cat!StateAt(0).tables = <<>>
      BY <2>1, <3>1
    <3>3. QED
      BY <3>2 DEF Proper
  <2>4. history \in Seq(Batches) /\ states \in Seq(CatStates) /\ Len(states) = 0
    BY <1>1
  <2>5. 0 .. 0 = {0} /\ 1 .. 0 = {}
    OBVIOUS
  <2>6. QED
    BY <1>2, <2>3, <2>4, <2>5 DEF HistorySound
<1>4. TreesSound
  <2>1. DOMAIN trees = {"v1"} /\ {"v1"} \in Layouts
    BY <1>1 DEF Layouts
  <2>2. Cat!era = "v1"
    BY <2>1, EraIs DEF EraOf, Cat!era
  <2>3. trees["v1"].point = 0 /\ trees["v1"].logs = {} /\ trees["v1"] = [point |-> 0, logs |-> {}]
    BY <1>1
  <2>4. 1 .. 0 = {} /\ 0 \in 0 .. 0
    OBVIOUS
  <2>5. QED
    BY <1>2, <2>1, <2>2, <2>3, <2>4 DEF TreesSound, Layouts
<1>5. LoadSound
  <2>1. DOMAIN load = LoadFields
    BY <1>1 DEF Cat!Idle, LoadFields
  <2>2. /\ load.pc = "idle" /\ load.seq = 0 /\ load.begun = 0 /\ load.todo = {} /\ ~ load.stale
    BY <1>1 DEF Cat!Idle
  <2>3. 0 \in 0 .. Len(history)
    BY <1>2
  <2>4. QED
    BY <1>1, <2>1, <2>2, <2>3 DEF LoadSound, Cat!Reading
<1>6. Cat!CatalogExact
  BY <1>1 DEF Cat!CatalogExact, Cat!Idle
<1>7. QED
  BY <1>3, <1>4, <1>5, <1>6 DEF CatInv

-----------------------------------------------------------------------------
(* The server's steps.                                                     *)

\* A step of the server: the reading only counts it, or notes a removal.
Seen ==
  /\ Cat!MayAct
  /\ load.pc = "idle" => load' = load
  /\ DOMAIN load' = LoadFields
  /\ load'.pc = load.pc /\ load'.tree = load.tree /\ load'.stale = load.stale /\ load'.seq = load.seq
  /\ load'.db = load.db /\ load'.tables = load.tables /\ load'.unknown = load.unknown
  /\ load'.todo = load.todo /\ load'.whole = load.whole /\ load'.damaged = load.damaged
  /\ load'.begun = load.begun
  /\ load.swept => load'.swept

(* A step that is only counted leaves the reading as it was.               *)
LEMMA CountedSeen ==
  ASSUME LoadSound, Cat!MayAct, load' = Cat!Counted(load)
  PROVE  Seen
<1>1. DOMAIN load = LoadFields
  BY DEF LoadSound
<1>2. load.pc = "idle" => load' = load
  BY DEF Cat!Counted, Cat!Reading
<1>3. QED
  BY <1>1, <1>2 DEF Seen, Cat!Counted, LoadFields

(* So does the removal of a log file, apart from noting it.                *)
LEMMA SweptSeen ==
  ASSUME LoadSound, Cat!MayAct, load' = Cat!Counted([load EXCEPT !.swept = Cat!Reading])
  PROVE  Seen /\ (Cat!Reading => load'.swept)
<1>1. DOMAIN load = LoadFields /\ (load.pc = "idle" => load = Cat!Idle)
  BY DEF LoadSound
<1>2. Cat!Reading <=> load.pc # "idle"
  BY DEF Cat!MayAct, Cat!Reading
<1>3. Cat!Reading \in BOOLEAN
  BY DEF Cat!Reading
<1>4. CASE load.pc = "idle"
  <2>1. load = Cat!Idle /\ ~ Cat!Reading /\ Cat!Reading = FALSE
    BY <1>1, <1>2, <1>3, <1>4
  <2>2. load' = [load EXCEPT !.swept = FALSE]
    BY <2>1 DEF Cat!Counted
  <2>3. load' = load
    BY <2>1, <2>2 DEF Cat!Idle
  <2>4. QED
    BY <1>1, <1>2, <1>4, <2>3 DEF Seen
<1>5. CASE load.pc # "idle"
  <2>1. Cat!Reading = TRUE
    BY <1>2, <1>3, <1>5
  <2>2. load' = [[load EXCEPT !.swept = TRUE] EXCEPT !.steps = @ + 1]
    BY <2>1 DEF Cat!Counted
  <2>3. QED
    BY <1>1, <1>5, <2>2 DEF Seen, LoadFields
<1>6. QED
  BY <1>4, <1>5

\* The batches that were written stay.
Stays ==
  /\ Len(history) \in Nat /\ Len(history') \in Nat /\ Len(history) <= Len(history')
  /\ \A n \in 0 .. Len(history) : Cat!StateAt(n)' = Cat!StateAt(n)

(* A step of the server keeps a reading sound that it leaves its layout's  *)
(* log files.                                                              *)
LEMMA LoadKept ==
  ASSUME LoadSound, Seen, Stays, Chosen => Chosen',
         ~ load'.swept /\ Cat!Reading => (Chosen /\ Following => Following') /\ (Replaying => Replaying')
  PROVE  LoadSound' /\ Cat!CatalogExact'
<1>1. load.pc = "idle" \/ Cat!Reading
  BY DEF Seen, Cat!MayAct
<1>2. load.stale' => Undone'
  BY DEF Seen, LoadSound, Undone
<1>3. Cat!CatalogExact'
  <2>1. load'.pc # "done" /\ load'.pc # "failed"
    BY <1>1 DEF Seen, Cat!Reading
  <2>2. QED
    BY <1>2, <2>1 DEF Cat!CatalogExact, Undone
<1>4. AtBatch(load) => AtBatch(load)'
  <2>1. load.seq \in 0 .. Len(history)
    BY DEF LoadSound
  <2>2. Cat!StateAt(load.seq)' = Cat!StateAt(load.seq)
    BY <2>1 DEF Seen, Stays, Cat!StateAt
  <2>3. QED
    BY <2>2 DEF Seen, AtBatch, Matches, Agrees, Complete
<1>5. /\ DOMAIN load' = LoadFields
      /\ load'.pc \in {"idle", "checkpoint", "list", "replay", "done", "failed"}
      /\ load'.seq \in 0 .. Len(history') /\ load'.begun \in 0 .. Len(history')
      /\ load'.todo \subseteq 1 .. Len(history')
      /\ load'.pc = "idle" => load' = Cat!Idle
      /\ load'.pc = "checkpoint" => load'.seq = 0 /\ load'.db = "none" /\ load'.tables = Cat!Idle.tables
  BY DEF Seen, Stays, LoadSound
<1>6. Cat!Reading' => Chosen'
  BY DEF Seen, LoadSound, Cat!Reading
<1>7. load'.pc = "list" /\ ~ load'.swept => AtBatch(load)' /\ Following'
  BY <1>4 DEF Seen, LoadSound, Cat!Reading
<1>8. load'.pc = "replay" /\ ~ load'.swept => AtBatch(load)' /\ Replaying'
  BY <1>4 DEF Seen, LoadSound, Cat!Reading
<1>9. QED
  BY <1>2, <1>3, <1>5, <1>6, <1>7, <1>8 DEF LoadSound

(* A batch is written: the history, and the log of the layout in use, are  *)
(* longer by it.                                                           *)
LEMMA BatchHistory ==
  ASSUME HistorySound, NEW op \in Batches, NEW after, Cat!Batch(op, after),
         Proper(after), Did(op, Cat!server, after)
  PROVE  HistorySound' /\ Stays /\ Len(history') = Len(history) + 1
<1>0. PICK L : L = Len(history)
  OBVIOUS
<1>1. history' = Append(history, op) /\ states' = Append(states, after)
  BY DEF Cat!Batch
<1>2. history \in Seq(Batches) /\ states \in Seq(CatStates) /\ Len(states) = L /\ L \in Nat
  BY <1>0 DEF HistorySound
<1>3. after \in CatStates
  BY DEF Proper
<1>4. /\ history' \in Seq(Batches) /\ Len(history') = L + 1 /\ history'[L + 1] = op
      /\ \A n \in 1 .. L : history'[n] = history[n]
  BY <1>0, <1>1, <1>2
<1>5. /\ states' \in Seq(CatStates) /\ Len(states') = L + 1 /\ states'[L + 1] = after
      /\ \A n \in 1 .. L : states'[n] = states[n]
  BY <1>0, <1>1, <1>2, <1>3
<1>6. \A n \in 0 .. L : Cat!StateAt(n)' = Cat!StateAt(n)
  BY <1>2, <1>5 DEF Cat!StateAt
<1>7. Cat!StateAt(L + 1)' = after
  BY <1>2, <1>5 DEF Cat!StateAt
<1>8. Cat!server = Cat!StateAt(L)
  BY <1>0 DEF Cat!server
<1>9. ASSUME NEW n \in 0 .. L + 1 PROVE Proper(Cat!StateAt(n)')
  <2>1. CASE n = L + 1
    BY <1>7, <2>1
  <2>2. CASE n \in 0 .. L
    BY <1>0, <1>6, <2>2 DEF HistorySound
  <2>3. QED
    BY <1>2, <2>1, <2>2
<1>10. ASSUME NEW n \in 1 .. L + 1 PROVE Did(history'[n], Cat!StateAt(n-1)', Cat!StateAt(n)')
  <2>1. CASE n = L + 1
    <3>1. n - 1 = L /\ L \in 0 .. L
      BY <1>2, <2>1
    <3>2. QED
      BY <1>4, <1>6, <1>7, <1>8, <2>1, <3>1
  <2>2. CASE n \in 1 .. L
    <3>1. n \in 0 .. L /\ n - 1 \in 0 .. L
      BY <1>2, <2>2
    <3>2. Did(history[n], Cat!StateAt(n-1), Cat!StateAt(n))
      BY <1>0, <2>2 DEF HistorySound
    <3>3. QED
      BY <1>4, <1>6, <2>2, <3>1, <3>2
  <2>3. QED
    BY <1>2, <2>1, <2>2
<1>11. Stays
  BY <1>0, <1>2, <1>4, <1>6 DEF Stays
<1>12. QED
  BY <1>0, <1>2, <1>4, <1>5, <1>9, <1>10, <1>11 DEF HistorySound

\* What TreesSound says of one layout, at batch n.
TreeSound(t, n) ==
  /\ t \in [point : 0 .. n, logs : SUBSET (1 .. n)]
  /\ \A a, b \in t.logs : a .. b \subseteq t.logs
  /\ \A b \in t.logs : t.point + 1 .. b \subseteq t.logs

\* And of the one in use.
Current(t, n) ==
  /\ t.point + 1 .. n \subseteq t.logs
  /\ \A a \in t.logs : a .. n \subseteq t.logs

(* TreesSound, layout by layout.                                           *)
LEMMA TreesSoundIs ==
  TreesSound <=> /\ DOMAIN trees \in Layouts
                 /\ \A e \in DOMAIN trees : TreeSound(trees[e], Len(history))
                 /\ Current(trees[EraOf(DOMAIN trees)], Len(history))
BY DEF TreesSound, Layouts, TreeSound, Current, EraOf, Cat!era

(* And after a step.                                                       *)
LEMMA TreesSoundNext ==
  TreesSound' <=> /\ DOMAIN trees' \in Layouts
                  /\ \A e \in DOMAIN trees' : TreeSound(trees'[e], Len(history'))
                  /\ Current(trees'[EraOf(DOMAIN trees')], Len(history'))
BY DEF TreesSound, Layouts, TreeSound, Current, EraOf, Cat!era

(* The log of the layout in use gets the batch; it still has no gap.       *)
LEMMA BatchTrees ==
  ASSUME TreesSound, NEW op, NEW after, Cat!Batch(op, after),
         Len(history) \in Nat, Len(history') = Len(history) + 1
  PROVE  /\ TreesSound' /\ DOMAIN trees' = DOMAIN trees
         /\ trees'[Cat!era] = [trees[Cat!era] EXCEPT !.logs = @ \cup {Len(history) + 1}]
         /\ \A e \in DOMAIN trees \ {Cat!era} : trees'[e] = trees[e]
<1>0. PICK L, e, t : L = Len(history) /\ e = EraOf(DOMAIN trees) /\ t = trees[e]
  OBVIOUS
<1> DEFINE u == [t EXCEPT !.logs = @ \cup {L + 1}]
<1>1. Cat!era = e
  BY <1>0 DEF Cat!era, EraOf
<1>2. trees' = [trees EXCEPT ![e].logs = @ \cup {L + 1}]
  BY <1>0, <1>1 DEF Cat!Batch
<1>3. /\ DOMAIN trees \in Layouts /\ e \in DOMAIN trees /\ TreeSound(t, L) /\ Current(t, L)
      /\ \A f \in DOMAIN trees : TreeSound(trees[f], L)
  BY <1>0, TreesSoundIs, EraIn
<1>4. DOMAIN trees' = DOMAIN trees /\ trees'[e] = u /\ \A f \in DOMAIN trees \ {e} : trees'[f] = trees[f]
  BY <1>0, <1>2, <1>3
<1>5. EraOf(DOMAIN trees)' = e
  BY <1>0, <1>4 DEF EraOf
<1>6. /\ t.point \in 0 .. L /\ t.logs \in SUBSET (1 .. L) /\ L \in Nat
      /\ \A a, b \in t.logs : a .. b \subseteq t.logs
      /\ \A b \in t.logs : t.point + 1 .. b \subseteq t.logs
      /\ t.point + 1 .. L \subseteq t.logs
      /\ \A a \in t.logs : a .. L \subseteq t.logs
  BY <1>0, <1>3 DEF TreeSound, Current
<1>7. u.point = t.point /\ u.logs = t.logs \cup {L + 1}
  BY <1>3 DEF TreeSound
<1>8. t \in [point : 0 .. L + 1, logs : SUBSET (1 .. L + 1)]
  BY <1>3, <1>6 DEF TreeSound
<1>9. u \in [point : 0 .. L + 1, logs : SUBSET (1 .. L + 1)]
  <2>1. t.logs \cup {L + 1} \in SUBSET (1 .. L + 1)
    BY <1>6
  <2>2. QED
    BY <1>8, <2>1
<1> HIDE DEF u
<1>10. \A a, b \in u.logs : a .. b \subseteq u.logs
  BY <1>6, <1>7
<1>11. u.point + 1 .. L + 1 \subseteq u.logs /\ \A a \in u.logs : a .. L + 1 \subseteq u.logs
  BY <1>6, <1>7
<1>12. \A b \in u.logs : u.point + 1 .. b \subseteq u.logs
  BY <1>6, <1>7
<1>13. TreeSound(u, L + 1) /\ Current(u, L + 1)
  BY <1>9, <1>10, <1>11, <1>12 DEF TreeSound, Current
<1>14. ASSUME NEW f \in DOMAIN trees \ {e} PROVE TreeSound(trees[f], L + 1)
  BY <1>3, <1>6 DEF TreeSound
<1>15. TreesSound'
  BY <1>0, <1>3, <1>4, <1>5, <1>13, <1>14, TreesSoundNext
<1>16. QED
  BY <1>0, <1>1, <1>4, <1>15 DEF u

(* The layout in use is the same while no layout is added.                 *)
LEMMA EraStays ==
  ASSUME DOMAIN trees' = DOMAIN trees
  PROVE  Cat!era' = Cat!era
BY DEF Cat!era

(* Any batch of the server keeps the invariant.                            *)
LEMMA BatchStep ==
  ASSUME CatInv, NEW op \in Batches, NEW after, Cat!Batch(op, after),
         Proper(after), Did(op, Cat!server, after)
  PROVE  CatInv'
<1>1. HistorySound' /\ Stays /\ Len(history') = Len(history) + 1
  BY BatchHistory DEF CatInv
<1>2. PICK L, k, t : L = Len(history) /\ k = load.tree /\ t = trees[k]
  OBVIOUS
<1>3. L \in Nat
  BY <1>2 DEF CatInv, HistorySound
<1>4. /\ TreesSound' /\ DOMAIN trees' = DOMAIN trees
      /\ trees'[Cat!era] = [trees[Cat!era] EXCEPT !.logs = @ \cup {L + 1}]
      /\ \A e \in DOMAIN trees \ {Cat!era} : trees'[e] = trees[e]
  BY <1>1, <1>2, <1>3, BatchTrees DEF CatInv
<1>5. Seen
  BY CountedSeen DEF CatInv, Cat!Batch
<1>6. load'.tree = k /\ load'.stale = load.stale /\ load'.seq = load.seq /\ load'.begun = load.begun
      /\ load'.todo = load.todo /\ load'.whole = load.whole /\ load'.tables = load.tables
  BY <1>2, <1>5 DEF Seen
<1>7. Cat!era' = Cat!era
  BY <1>4, EraStays
<1>8. ASSUME Chosen
      PROVE  /\ k \in DOMAIN trees'
             /\ t \in [point : 0 .. L, logs : SUBSET (1 .. L)]
             /\ trees'[k].point = t.point
             /\ trees'[k].logs = IF k = Cat!era THEN t.logs \cup {L + 1} ELSE t.logs
  <2>1. k \in DOMAIN trees
    BY <1>2, <1>8 DEF Chosen
  <2>2. t \in [point : 0 .. L, logs : SUBSET (1 .. L)]
    BY <1>2, <2>1 DEF CatInv, TreesSound
  <2>3. QED
    BY <1>2, <1>4, <2>1, <2>2
<1>9. Chosen => Chosen'
  <2> HAVE Chosen
  <2>1. t.logs \subseteq trees'[k].logs
    BY <1>8
  <2>2. QED
    BY <1>2, <1>6, <1>8, <2>1 DEF Chosen
<1>10. Chosen /\ Replaying => Replaying'
  <2> HAVE Chosen /\ Replaying
  <2>1. t.logs \subseteq trees'[k].logs
    BY <1>8
  <2>2. QED
    BY <1>2, <1>6, <2>1 DEF Replaying
<1>11. Chosen /\ Following => Following'
  <2> HAVE Chosen /\ Following
  <2>1. SUFFICES ASSUME load.whole \/ DOMAIN load.tables # {}
                 PROVE  /\ \A b \in trees'[k].logs : load.seq + 1 .. b \subseteq trees'[k].logs
                        /\ k = Cat!era => load.seq + 1 .. L + 1 \subseteq trees'[k].logs
                        /\ load.stale \/ load.begun <= load.seq \/ load.begun \in trees'[k].logs
    BY <1>1, <1>2, <1>6, <1>7 DEF Following
  <2>2. /\ \A b \in t.logs : load.seq + 1 .. b \subseteq t.logs
        /\ k = Cat!era => load.seq + 1 .. L \subseteq t.logs
        /\ load.stale \/ load.begun <= load.seq \/ load.begun \in t.logs
    BY <1>2, <2>1 DEF Following
  <2>3. load.seq \in 0 .. L
    BY <1>2 DEF CatInv, LoadSound
  <2>4. CASE k = Cat!era
    <3>1. trees'[k].logs = t.logs \cup {L + 1}
      BY <1>8, <2>4
    <3>2. load.seq + 1 .. L + 1 \subseteq t.logs \cup {L + 1}
      BY <1>3, <2>2, <2>3, <2>4
    <3>3. \A b \in t.logs \cup {L + 1} : load.seq + 1 .. b \subseteq t.logs \cup {L + 1}
      BY <1>3, <2>2, <2>3, <3>2
    <3>4. QED
      BY <2>2, <3>1, <3>2, <3>3
  <2>5. CASE k # Cat!era
    BY <1>8, <2>2, <2>5
  <2>6. QED
    BY <2>4, <2>5
<1>12. LoadSound' /\ Cat!CatalogExact'
  <2>1. Cat!Reading => Chosen
    BY DEF CatInv, LoadSound
  <2>2. QED
    BY <1>1, <1>5, <1>9, <1>10, <1>11, <2>1, LoadKept DEF CatInv
<1>13. QED
  BY <1>1, <1>4, <1>12 DEF CatInv

(* What each of the server's batches does to its catalog.                  *)
LEMMA ServerProper ==
  ASSUME HistorySound
  PROVE  Proper(Cat!server)
BY DEF HistorySound, Cat!server

(* A table more is in order once there is a database.                      *)
LEMMA TableAdded ==
  ASSUME NEW s, Proper(s), s.db # "none", NEW table \in CatTables, Len(table.columns) <= Len(Names)
  PROVE  Proper([s EXCEPT !.tables = Append(@, table)])
<1> DEFINE u == [s EXCEPT !.tables = Append(@, table)]
<1>1. /\ s \in CatStates /\ s.tables \in Seq(CatTables)
      /\ Len(s.tables) \in Nat /\ DOMAIN s.tables = 1 .. Len(s.tables)
  BY DEF Proper, CatStates
<1>2. Append(s.tables, table) \in Seq(CatTables)
  BY <1>1
<1>3. u \in CatStates /\ u.db = s.db /\ u.tables = Append(s.tables, table)
  BY <1>1, <1>2 DEF CatStates
<1> HIDE DEF u
<1>4. /\ DOMAIN u.tables = 1 .. Len(s.tables) + 1 /\ u.tables[Len(s.tables) + 1] = table
      /\ \A t \in 1 .. Len(s.tables) : u.tables[t] = s.tables[t]
  BY <1>1, <1>3
<1>5. ASSUME NEW t \in DOMAIN u.tables PROVE Len(u.tables[t].columns) <= Len(Names)
  <2>1. CASE t = Len(s.tables) + 1
    BY <1>4, <2>1
  <2>2. CASE t \in 1 .. Len(s.tables)
    BY <1>1, <1>4, <2>2 DEF Proper
  <2>3. QED
    BY <1>1, <1>4, <2>1, <2>2
<1>6. QED
  BY <1>3, <1>5 DEF Proper, u

(* So is a table that is changed.                                          *)
LEMMA TableChanged ==
  ASSUME NEW s, Proper(s), NEW t \in DOMAIN s.tables, NEW table \in CatTables,
         Len(table.columns) <= Len(Names)
  PROVE  Proper([s EXCEPT !.tables[t] = table])
<1> DEFINE u == [s EXCEPT !.tables[t] = table]
<1>1. /\ s \in CatStates /\ s.tables \in Seq(CatTables)
      /\ Len(s.tables) \in Nat /\ DOMAIN s.tables = 1 .. Len(s.tables)
  BY DEF Proper, CatStates
<1>2. [s.tables EXCEPT ![t] = table] \in Seq(CatTables)
  BY <1>1
<1>3. u \in CatStates /\ u.db = s.db /\ u.tables = [s.tables EXCEPT ![t] = table]
  BY <1>1, <1>2 DEF CatStates
<1> HIDE DEF u
<1>4. s.db # "none"
  <2>1. s.tables # <<>>
    BY <1>1
  <2>2. QED
    BY <2>1 DEF Proper
<1>5. /\ DOMAIN u.tables = DOMAIN s.tables /\ u.tables[t] = table
      /\ \A v \in DOMAIN s.tables \ {t} : u.tables[v] = s.tables[v]
  BY <1>1, <1>3
<1>6. ASSUME NEW v \in DOMAIN u.tables PROVE Len(u.tables[v].columns) <= Len(Names)
  BY <1>5 DEF Proper
<1>7. QED
  BY <1>3, <1>4, <1>6 DEF Proper, u

(* The database is created.                                                *)
LEMMA CreateDatabaseStep ==
  ASSUME CatInv, Cat!CreateDatabase
  PROVE  CatInv'
<1> DEFINE op == [name |-> "CreateDatabase"]
           after == [Cat!server EXCEPT !.db = "live"]
<1>1. Cat!server.db = "none" /\ Cat!Batch(op, after)
  BY DEF Cat!CreateDatabase
<1>2. Proper(Cat!server)
  BY ServerProper DEF CatInv
<1>3. op \in Batches
  BY DEF Batches
<1>4. Proper(after)
  <2>1. after \in CatStates /\ after.tables = Cat!server.tables /\ after.db = "live"
    BY <1>2 DEF Proper, CatStates
  <2>2. QED
    BY <1>2, <2>1 DEF Proper
<1>5. Did(op, Cat!server, after)
  BY <1>1 DEF Did
<1> HIDE DEF op, after
<1>6. QED
  BY <1>1, <1>3, <1>4, <1>5, BatchStep

(* The database is deleted.                                                *)
LEMMA DeleteDatabaseStep ==
  ASSUME CatInv, Cat!DeleteDatabase
  PROVE  CatInv'
<1> DEFINE op == [name |-> "DeleteDatabase"]
           after == [Cat!server EXCEPT !.db = "deleted"]
<1>1. Cat!server.db = "live" /\ Cat!Batch(op, after)
  BY DEF Cat!DeleteDatabase
<1>2. Proper(Cat!server)
  BY ServerProper DEF CatInv
<1>3. op \in Batches
  BY DEF Batches
<1>4. Proper(after)
  <2>1. after \in CatStates /\ after.tables = Cat!server.tables /\ after.db = "deleted"
    BY <1>2 DEF Proper, CatStates
  <2>2. QED
    BY <1>2, <2>1 DEF Proper
<1>5. Did(op, Cat!server, after)
  BY <1>1 DEF Did
<1> HIDE DEF op, after
<1>6. QED
  BY <1>1, <1>3, <1>4, <1>5, BatchStep

(* A batch about something else.                                           *)
LEMMA OtherBatchStep ==
  ASSUME CatInv, Cat!OtherBatch
  PROVE  CatInv'
<1> DEFINE op == [name |-> "Other"]
<1>1. Cat!Batch(op, Cat!server)
  BY DEF Cat!OtherBatch
<1>2. Proper(Cat!server)
  BY ServerProper DEF CatInv
<1>3. op \in Batches /\ Did(op, Cat!server, Cat!server)
  BY DEF Batches, Did
<1> HIDE DEF op
<1>4. QED
  BY <1>1, <1>2, <1>3, BatchStep

(* The columns of an operation have a kind.                                *)
LEMMA OperationKinds ==
  /\ <<>> \in Seq(Cat!Kinds)
  /\ <<"tag">> \in Seq(Cat!Kinds)
  /\ <<"field">> \in Seq(Cat!Kinds)
  /\ <<"field", "tag">> \in Seq(Cat!Kinds)
<1>1. "tag" \in Cat!Kinds /\ "field" \in Cat!Kinds
  BY DEF Cat!Kinds
<1>2. QED
  BY <1>1

(* A table is created.                                                     *)
LEMMA CreateTableStep ==
  ASSUME CatInv, Cat!CreateTable
  PROVE  CatInv'
<1>1. PICK kinds \in {<<>>} \cup (IF Cat!era = "v1" THEN {<<"tag">>, <<"field", "tag">>} ELSE {}) :
        /\ Cat!server.db = "live" /\ Len(kinds) <= Len(Names)
        /\ Cat!Batch([name |-> "CreateTable", table |-> Len(Cat!server.tables) + 1, kinds |-> kinds],
                     [Cat!server EXCEPT !.tables =
                        Append(@, [columns |-> kinds, deleted |-> FALSE, renamed |-> FALSE])])
  BY DEF Cat!CreateTable
<1> DEFINE op == [name |-> "CreateTable", table |-> Len(Cat!server.tables) + 1, kinds |-> kinds]
           table == [columns |-> kinds, deleted |-> FALSE, renamed |-> FALSE]
           after == [Cat!server EXCEPT !.tables = Append(@, table)]
<1>2. Proper(Cat!server)
  BY ServerProper DEF CatInv
<1>3. kinds \in Seq(Cat!Kinds)
  BY OperationKinds
<1>4. Len(Cat!server.tables) \in Nat
  BY <1>2 DEF Proper, CatStates
<1>5. op \in Batches
  BY <1>3, <1>4 DEF Batches
<1>6. table \in CatTables /\ table.columns = kinds
  BY <1>3 DEF CatTables
<1>7. Did(op, Cat!server, after)
  BY <1>1, <1>3 DEF Did
<1>8. Proper(after)
  <2> HIDE DEF table
  <2> QED BY <1>1, <1>2, <1>6, TableAdded
<1>9. Cat!Batch(op, after)
  BY <1>1
<1> HIDE DEF op, after
<1>10. QED
  BY <1>5, <1>7, <1>8, <1>9, BatchStep

(* A table gets columns.                                                   *)
LEMMA AddColumnsStep ==
  ASSUME CatInv, Cat!AddColumns
  PROVE  CatInv'
<1>1. PICK t \in DOMAIN Cat!server.tables, kinds \in {<<"tag">>, <<"field">>, <<"field", "tag">>} :
        /\ Len(Cat!server.tables[t].columns) + Len(kinds) <= Len(Names)
        /\ Cat!Batch([name |-> "AddColumns", table |-> t,
                      from |-> Len(Cat!server.tables[t].columns), kinds |-> kinds],
                     [Cat!server EXCEPT !.tables[t].columns = @ \o kinds])
  BY DEF Cat!AddColumns
<1>2. PICK s : s = Cat!server
  OBVIOUS
<1> DEFINE real == s.tables[t]
           op == [name |-> "AddColumns", table |-> t, from |-> Len(real.columns), kinds |-> kinds]
           table == [real EXCEPT !.columns = @ \o kinds]
           after == [s EXCEPT !.tables[t].columns = @ \o kinds]
<1>3. Proper(s)
  BY <1>2, ServerProper DEF CatInv
<1>4. /\ s.tables \in Seq(CatTables) /\ t \in DOMAIN s.tables /\ t \in Nat
      /\ real \in CatTables /\ real.columns \in Seq(Cat!Kinds)
  <2>1. s.tables \in Seq(CatTables) /\ t \in DOMAIN s.tables
    BY <1>1, <1>2, <1>3 DEF Proper, CatStates
  <2>2. t \in Nat /\ real \in CatTables
    BY <2>1
  <2>3. real.columns \in Seq(Cat!Kinds)
    BY <2>2 DEF CatTables
  <2>4. QED
    BY <2>1, <2>2, <2>3
<1>5. kinds \in Seq(Cat!Kinds)
  BY OperationKinds
<1>6. op \in Batches
  BY <1>4, <1>5 DEF Batches
<1>7. table \in CatTables /\ Len(table.columns) <= Len(Names)
  <2>1. real.columns \o kinds \in Seq(Cat!Kinds)
        /\ Len(real.columns \o kinds) = Len(real.columns) + Len(kinds)
    BY <1>4, <1>5
  <2>2. table.columns = real.columns \o kinds /\ table \in CatTables
    BY <1>4, <2>1 DEF CatTables
  <2>3. QED
    BY <1>1, <1>2, <2>1, <2>2
<1>8. after = [s EXCEPT !.tables[t] = table]
  OBVIOUS
<1>9. Proper(after)
  <2> HIDE DEF table, after
  <2> QED BY <1>3, <1>4, <1>7, <1>8, TableChanged
<1>10. Did(op, s, after)
  BY <1>1, <1>2, <1>4, <1>5 DEF Did
<1>11. Cat!Batch(op, after)
  BY <1>1, <1>2
<1> HIDE DEF op, after
<1>12. QED
  BY <1>2, <1>6, <1>9, <1>10, <1>11, BatchStep

(* A table is deleted.                                                     *)
LEMMA DeleteTableStep ==
  ASSUME CatInv, Cat!DeleteTable
  PROVE  CatInv'
<1>1. PICK t \in DOMAIN Cat!server.tables :
        Cat!Batch([name |-> "DeleteTable", table |-> t], [Cat!server EXCEPT !.tables[t].deleted = TRUE])
  BY DEF Cat!DeleteTable
<1>2. PICK s : s = Cat!server
  OBVIOUS
<1> DEFINE op == [name |-> "DeleteTable", table |-> t]
           table == [s.tables[t] EXCEPT !.deleted = TRUE]
           after == [s EXCEPT !.tables[t].deleted = TRUE]
<1>3. Proper(s)
  BY <1>2, ServerProper DEF CatInv
<1>4. t \in DOMAIN s.tables /\ t \in Nat /\ s.tables[t] \in CatTables /\ Len(s.tables[t].columns) <= Len(Names)
  BY <1>1, <1>2, <1>3 DEF Proper, CatStates
<1>5. op \in Batches
  BY <1>4 DEF Batches
<1>6. table \in CatTables /\ table.columns = s.tables[t].columns
  BY <1>4 DEF CatTables
<1>7. after = [s EXCEPT !.tables[t] = table]
  OBVIOUS
<1>8. Proper(after)
  <2> HIDE DEF table, after
  <2> QED BY <1>3, <1>4, <1>6, <1>7, TableChanged
<1>9. Did(op, s, after)
  BY <1>4 DEF Did
<1>10. Cat!Batch(op, after)
  BY <1>1, <1>2
<1> HIDE DEF op, after
<1>11. QED
  BY <1>2, <1>5, <1>8, <1>9, <1>10, BatchStep

(* A table is renamed.                                                     *)
LEMMA RenameStep ==
  ASSUME CatInv, Cat!Rename
  PROVE  CatInv'
<1>1. PICK t \in DOMAIN Cat!server.tables :
        Cat!Batch([name |-> "Rename"], [Cat!server EXCEPT !.tables[t].renamed = TRUE])
  BY DEF Cat!Rename
<1>2. PICK s : s = Cat!server
  OBVIOUS
<1> DEFINE op == [name |-> "Rename"]
           table == [s.tables[t] EXCEPT !.renamed = TRUE]
           after == [s EXCEPT !.tables[t].renamed = TRUE]
<1>3. Proper(s)
  BY <1>2, ServerProper DEF CatInv
<1>4. t \in DOMAIN s.tables /\ s.tables[t] \in CatTables /\ Len(s.tables[t].columns) <= Len(Names)
  BY <1>1, <1>2, <1>3 DEF Proper, CatStates
<1>5. op \in Batches
  BY DEF Batches
<1>6. table \in CatTables /\ table.columns = s.tables[t].columns
  BY <1>4 DEF CatTables
<1>7. after = [s EXCEPT !.tables[t] = table]
  OBVIOUS
<1>8. Proper(after)
  <2> HIDE DEF table, after
  <2> QED BY <1>3, <1>4, <1>6, <1>7, TableChanged
<1>9. Did(op, s, after)
  BY <1>4 DEF Did
<1>10. Cat!Batch(op, after)
  BY <1>1, <1>2
<1> HIDE DEF op, after
<1>11. QED
  BY <1>2, <1>5, <1>8, <1>9, <1>10, BatchStep

(* A step that writes no batch keeps what is said of the history.          *)
LEMMA HistoryStays ==
  ASSUME HistorySound, UNCHANGED <<history, states>>
  PROVE  /\ HistorySound' /\ Stays /\ Len(history) \in Nat /\ Len(history') = Len(history)
         /\ \A n \in 0 .. Len(history) : Cat!StateAt(n)' = Cat!StateAt(n)
<1>1. Len(history) \in Nat
  BY DEF HistorySound
<1>2. \A n : Cat!StateAt(n)' = Cat!StateAt(n)
  BY DEF Cat!StateAt
<1>3. HistorySound'
  <2>1. /\ history' \in Seq(Batches) /\ states' \in Seq(CatStates) /\ Len(states') = Len(history')
    BY DEF HistorySound
  <2>2. \A n \in 0 .. Len(history') : Proper(Cat!StateAt(n)')
    BY <1>2 DEF HistorySound
  <2>3. \A n \in 1 .. Len(history') : Did(history'[n], Cat!StateAt(n-1)', Cat!StateAt(n)')
    BY <1>2 DEF HistorySound
  <2>4. QED
    BY <2>1, <2>2, <2>3 DEF HistorySound
<1>4. Stays
  BY <1>1, <1>2 DEF Stays
<1>5. QED
  BY <1>1, <1>2, <1>3, <1>4

(* The layout in use has every log file above its checkpoint.              *)
LEMMA CurrentTree ==
  ASSUME TreesSound
  PROVE  /\ Cat!era \in DOMAIN trees
         /\ TreeSound(trees[Cat!era], Len(history)) /\ Current(trees[Cat!era], Len(history))
BY TreesSoundIs, EraIn DEF EraOf, Cat!era

(* The layout in use changes, and nothing else.                            *)
LEMMA TreeChanged ==
  ASSUME TreesSound, UNCHANGED history, NEW u,
         DOMAIN trees' = DOMAIN trees, trees'[Cat!era] = u,
         \A e \in DOMAIN trees \ {Cat!era} : trees'[e] = trees[e],
         TreeSound(u, Len(history)), Current(u, Len(history))
  PROVE  TreesSound'
<1>1. PICK L, e : L = Len(history) /\ e = EraOf(DOMAIN trees)
  OBVIOUS
<1>2. Cat!era = e
  BY <1>1 DEF Cat!era, EraOf
<1>3. EraOf(DOMAIN trees') = e
  BY <1>1
<1>4. DOMAIN trees \in Layouts /\ \A f \in DOMAIN trees : TreeSound(trees[f], L)
  BY <1>1, TreesSoundIs
<1>5. Len(history') = L
  BY <1>1
<1>6. \A f \in DOMAIN trees' : TreeSound(trees'[f], L)
  BY <1>1, <1>2, <1>4
<1>7. Current(trees'[e], L)
  BY <1>1, <1>2
<1>8. QED
  BY <1>3, <1>4, <1>5, <1>6, <1>7, TreesSoundNext

(* A checkpoint moves on; the log files stay.                              *)
LEMMA CheckpointStep ==
  ASSUME CatInv, Cat!Checkpoint
  PROVE  CatInv'
<1>1. PICK L, e, t, k : L = Len(history) /\ e = Cat!era /\ t = trees[e] /\ k = load.tree
  OBVIOUS
<1>2. /\ Cat!MayAct /\ load' = Cat!Counted(load) /\ UNCHANGED <<history, states>>
      /\ trees' = [trees EXCEPT ![e].point = L]
  BY <1>1 DEF Cat!Checkpoint
<1>3. /\ HistorySound' /\ Stays /\ L \in Nat /\ Len(history') = L
  BY <1>1, <1>2, HistoryStays DEF CatInv
<1>4. e \in DOMAIN trees /\ TreeSound(t, L) /\ Current(t, L)
  BY <1>1, CurrentTree DEF CatInv
<1> DEFINE u == [t EXCEPT !.point = L]
<1>5. DOMAIN trees' = DOMAIN trees /\ trees'[e] = u /\ \A f \in DOMAIN trees \ {e} : trees'[f] = trees[f]
  BY <1>1, <1>2, <1>4
<1>6. u.point = L /\ u.logs = t.logs /\ u \in [point : 0 .. L, logs : SUBSET (1 .. L)]
  BY <1>3, <1>4 DEF TreeSound
<1> HIDE DEF u
<1>7. TreeSound(u, L) /\ Current(u, L)
  BY <1>3, <1>4, <1>6 DEF TreeSound, Current
<1>8. TreesSound'
  BY <1>1, <1>2, <1>5, <1>7, TreeChanged DEF CatInv
<1>9. Seen
  BY <1>2, CountedSeen DEF CatInv
<1>10. Cat!era' = Cat!era
  BY <1>5, EraStays
<1>11. /\ load'.tree = k /\ load'.stale = load.stale /\ load'.seq = load.seq /\ load'.begun = load.begun
       /\ load'.todo = load.todo /\ load'.whole = load.whole /\ load'.tables = load.tables
  BY <1>1, <1>9 DEF Seen
<1>12. ASSUME Chosen
       PROVE  k \in DOMAIN trees /\ trees'[k].logs = trees[k].logs
              /\ (trees'[k].point = trees[k].point \/ trees'[k].point = L)
  BY <1>1, <1>5, <1>6, <1>12 DEF Chosen
<1>13. Chosen => Chosen'
  <2> HAVE Chosen
  <2>1. load.begun \in 0 .. L
    BY <1>1 DEF CatInv, LoadSound
  <2>2. load.begun <= trees[k].point => load.begun <= trees'[k].point
    BY <1>12, <2>1
  <2>3. QED
    BY <1>1, <1>5, <1>11, <1>12, <2>2 DEF Chosen
<1>14. Chosen /\ Following => Following'
  BY <1>1, <1>2, <1>10, <1>11, <1>12 DEF Following
<1>15. Chosen /\ Replaying => Replaying'
  BY <1>1, <1>11, <1>12 DEF Replaying
<1>16. LoadSound' /\ Cat!CatalogExact'
  <2>1. Cat!Reading => Chosen
    BY DEF CatInv, LoadSound
  <2>2. QED
    BY <1>3, <1>9, <1>13, <1>14, <1>15, <2>1, LoadKept DEF CatInv
<1>17. QED
  BY <1>3, <1>8, <1>16 DEF CatInv

(* The oldest log file goes once the checkpoint covers it.                 *)
LEMMA RemoveLogStep ==
  ASSUME CatInv, Cat!RemoveLog
  PROVE  CatInv'
<1>1. PICK L, e, t, k : L = Len(history) /\ e = Cat!era /\ t = trees[e] /\ k = load.tree
  OBVIOUS
<1>2. PICK n \in t.logs :
        /\ Cat!MayAct /\ n <= t.point /\ \A m \in t.logs : n <= m
        /\ trees' = [trees EXCEPT ![e].logs = @ \ {n}]
        /\ load' = Cat!Counted([load EXCEPT !.swept = Cat!Reading])
        /\ UNCHANGED <<history, states>>
  BY <1>1 DEF Cat!RemoveLog
<1>3. /\ HistorySound' /\ Stays /\ L \in Nat /\ Len(history') = L
  BY <1>1, <1>2, HistoryStays DEF CatInv
<1>4. e \in DOMAIN trees /\ TreeSound(t, L) /\ Current(t, L)
  BY <1>1, CurrentTree DEF CatInv
<1> DEFINE u == [t EXCEPT !.logs = @ \ {n}]
<1>5. DOMAIN trees' = DOMAIN trees /\ trees'[e] = u /\ \A f \in DOMAIN trees \ {e} : trees'[f] = trees[f]
  BY <1>1, <1>2, <1>4
<1>6. u.point = t.point /\ u.logs = t.logs \ {n} /\ u \in [point : 0 .. L, logs : SUBSET (1 .. L)]
  <2>1. t \in [point : 0 .. L, logs : SUBSET (1 .. L)]
    BY <1>4 DEF TreeSound
  <2>2. t.logs \ {n} \in SUBSET (1 .. L)
    BY <2>1
  <2>3. QED
    BY <2>1, <2>2
<1> HIDE DEF u
<1>7. TreeSound(u, L) /\ Current(u, L)
  <2>1. /\ t.point \in 0 .. L /\ t.logs \in SUBSET (1 .. L) /\ n \in 1 .. L
        /\ \A a, b \in t.logs : a .. b \subseteq t.logs
        /\ \A b \in t.logs : t.point + 1 .. b \subseteq t.logs
        /\ t.point + 1 .. L \subseteq t.logs
        /\ \A a \in t.logs : a .. L \subseteq t.logs
    BY <1>2, <1>4 DEF TreeSound, Current
  <2>2. \A a \in u.logs : n < a /\ a \in Nat
    BY <1>2, <1>6, <2>1
  <2>3. \A a, b \in u.logs : a .. b \subseteq u.logs
    BY <1>6, <2>1, <2>2
  <2>4. \A b \in u.logs : u.point + 1 .. b \subseteq u.logs
    BY <1>2, <1>6, <2>1, <2>2
  <2>5. u.point + 1 .. L \subseteq u.logs
    BY <1>2, <1>6, <2>1
  <2>6. \A a \in u.logs : a .. L \subseteq u.logs
    BY <1>6, <2>1, <2>2
  <2>7. QED
    BY <1>6, <2>3, <2>4, <2>5, <2>6 DEF TreeSound, Current
<1>8. TreesSound'
  BY <1>1, <1>2, <1>5, <1>7, TreeChanged DEF CatInv
<1>9. Seen /\ (Cat!Reading => load'.swept)
  BY <1>2, SweptSeen DEF CatInv
<1>10. load'.tree = k /\ load'.stale = load.stale /\ load'.begun = load.begun
  BY <1>1, <1>9 DEF Seen
<1>11. Chosen => Chosen'
  <2> HAVE Chosen
  <2>1. k \in DOMAIN trees
    BY <1>1 DEF Chosen
  <2>2. CASE k = e
    <3>1. trees'[k].point = t.point /\ trees'[k].logs = t.logs \ {n}
      BY <1>5, <1>6, <2>2
    <3>2. load.stale \/ load.begun <= t.point \/ load.begun \in t.logs
      BY <1>1, <2>2 DEF Chosen
    <3>3. load.stale \/ load.begun <= t.point \/ load.begun \in t.logs \ {n}
      BY <1>2, <3>2
    <3>4. QED
      BY <1>5, <1>10, <2>1, <3>1, <3>3 DEF Chosen
  <2>3. CASE k # e
    BY <1>1, <1>5, <1>10, <2>1, <2>3 DEF Chosen
  <2>4. QED
    BY <2>2, <2>3
<1>12. LoadSound' /\ Cat!CatalogExact'
  BY <1>3, <1>9, <1>11, LoadKept DEF CatInv
<1>13. QED
  BY <1>3, <1>8, <1>12 DEF CatInv

(* A migration adds the next layout, and that is then in use.              *)
LEMMA NextLayout ==
  ASSUME NEW D \in Layouts, Cat!Cardinality(D) < Len(Cat!Eras)
  PROVE  LET next == Cat!Eras[Cat!Cardinality(D) + 1] IN
         /\ D \cup {next} \in Layouts /\ next \notin D /\ EraOf(D \cup {next}) = next
<1>1. Len(Cat!Eras) = 3 /\ Cat!Eras[2] = "v2" /\ Cat!Eras[3] = "v3"
  BY DEF Cat!Eras
<1>2. CASE D = {"v1"}
  <2>1. Cat!Eras[Cat!Cardinality(D) + 1] = "v2"
    BY <1>1, <1>2, LayoutCount
  <2>2. D \cup {"v2"} = {"v1", "v2"} /\ {"v1", "v2"} \in Layouts /\ "v2" \notin D /\ {"v1", "v2"} # {"v1"}
    BY <1>2 DEF Layouts
  <2>3. EraOf(D \cup {"v2"}) = "v2"
    BY <2>2, EraIs
  <2>4. QED
    BY <2>1, <2>2, <2>3
<1>3. CASE D = {"v1", "v2"}
  <2>1. {"v1", "v2"} # {"v1"}
    OBVIOUS
  <2>2. Cat!Eras[Cat!Cardinality(D) + 1] = "v3"
    BY <1>1, <1>3, <2>1, LayoutCount
  <2>3. /\ D \cup {"v3"} = {"v1", "v2", "v3"} /\ {"v1", "v2", "v3"} \in Layouts /\ "v3" \notin D
        /\ {"v1", "v2", "v3"} # {"v1"} /\ {"v1", "v2", "v3"} # {"v1", "v2"}
    BY <1>3 DEF Layouts
  <2>4. EraOf(D \cup {"v3"}) = "v3"
    BY <2>3, EraIs
  <2>5. QED
    BY <2>2, <2>3, <2>4
<1>4. CASE D = {"v1", "v2", "v3"}
  <2>1. {"v1", "v2", "v3"} # {"v1"} /\ {"v1", "v2", "v3"} # {"v1", "v2"}
    OBVIOUS
  <2>2. Cat!Cardinality(D) = 3
    BY <1>4, <2>1, LayoutCount
  <2>3. QED
    BY <1>1, <2>2
<1>5. QED
  BY <1>2, <1>3, <1>4 DEF Layouts

(* A migration leaves the old layouts as they are.                         *)
LEMMA MigrateStep ==
  ASSUME CatInv, Cat!Migrate
  PROVE  CatInv'
<1>1. PICK L, D, k, next : /\ L = Len(history) /\ D = DOMAIN trees /\ k = load.tree
                           /\ next = Cat!Eras[Cat!Cardinality(DOMAIN trees) + 1]
  OBVIOUS
<1>2. /\ Cat!MayAct /\ load' = Cat!Counted(load) /\ UNCHANGED <<history, states>>
      /\ Cat!Cardinality(D) < Len(Cat!Eras)
      /\ trees' = [e \in D \cup {next} |-> IF e = next THEN [point |-> L, logs |-> {}] ELSE trees[e]]
  BY <1>1 DEF Cat!Migrate
<1>3. /\ HistorySound' /\ Stays /\ L \in Nat /\ Len(history') = L
  BY <1>1, <1>2, HistoryStays DEF CatInv
<1>4. D \in Layouts /\ \A e \in D : TreeSound(trees[e], L)
  BY <1>1, TreesSoundIs DEF CatInv
<1>5. D \cup {next} \in Layouts /\ next \notin D /\ EraOf(D \cup {next}) = next
  BY <1>1, <1>2, <1>4, NextLayout
<1>6. /\ DOMAIN trees' = D \cup {next} /\ trees'[next] = [point |-> L, logs |-> {}]
      /\ \A e \in D : trees'[e] = trees[e]
  BY <1>2, <1>5
<1>7. TreesSound'
  <2>1. TreeSound([point |-> L, logs |-> {}], L) /\ Current([point |-> L, logs |-> {}], L)
    BY <1>3 DEF TreeSound, Current
  <2>2. \A e \in D \cup {next} : TreeSound(trees'[e], L)
    BY <1>4, <1>6, <2>1
  <2>3. QED
    BY <1>3, <1>5, <1>6, <2>1, <2>2, TreesSoundNext
<1>8. Cat!era' = next
  BY <1>5, <1>6 DEF Cat!era, EraOf
<1>9. Seen
  BY <1>2, CountedSeen DEF CatInv
<1>10. /\ load'.tree = k /\ load'.stale = load.stale /\ load'.seq = load.seq /\ load'.begun = load.begun
       /\ load'.todo = load.todo /\ load'.whole = load.whole /\ load'.tables = load.tables
  BY <1>1, <1>9 DEF Seen
<1>11. Chosen => k \in D /\ k \in DOMAIN trees' /\ trees'[k] = trees[k] /\ k # next
  BY <1>1, <1>5, <1>6 DEF Chosen
<1>12. Chosen => Chosen'
  BY <1>1, <1>10, <1>11 DEF Chosen
<1>13. Chosen /\ Following => Following'
  BY <1>1, <1>2, <1>8, <1>10, <1>11 DEF Following
<1>14. Chosen /\ Replaying => Replaying'
  BY <1>1, <1>10, <1>11 DEF Replaying
<1>15. LoadSound' /\ Cat!CatalogExact'
  <2>1. Cat!Reading => Chosen
    BY DEF CatInv, LoadSound
  <2>2. QED
    BY <1>3, <1>9, <1>12, <1>13, <1>14, <2>1, LoadKept DEF CatInv
<1>16. QED
  BY <1>3, <1>7, <1>15 DEF CatInv

(* Every step of the server keeps the invariant.                           *)
LEMMA ServerStep ==
  ASSUME CatInv, Cat!Server
  PROVE  CatInv'
BY CreateDatabaseStep, CreateTableStep, AddColumnsStep, DeleteTableStep, DeleteDatabaseStep,
   RenameStep, OtherBatchStep, CheckpointStep, RemoveLogStep, MigrateStep
DEF Cat!Server

-----------------------------------------------------------------------------
(* The tool's steps.                                                       *)

(* The tool changes nothing of the store.                                  *)
LEMMA ToolLeaves ==
  ASSUME CatInv, UNCHANGED <<history, states, trees>>
  PROVE  /\ HistorySound' /\ TreesSound' /\ Cat!era' = Cat!era
         /\ \A n \in 0 .. Len(history) : Cat!StateAt(n)' = Cat!StateAt(n)
<1>1. HistorySound' /\ \A n \in 0 .. Len(history) : Cat!StateAt(n)' = Cat!StateAt(n)
  BY HistoryStays DEF CatInv
<1>2. Cat!era' = Cat!era
  BY DEF Cat!era
<1>3. TreesSound'
  BY <1>2 DEF CatInv, TreesSound
<1>4. QED
  BY <1>1, <1>2, <1>3

(* A failure has a cause, and a reading that goes on with the layout before *)
(* finds it there.                                                         *)
LEMMA FailedStep ==
  ASSUME CatInv, UNCHANGED <<history, states, trees>>, Cat!Reading,
         NEW l, l = load \/ l = [load EXCEPT !.damaged = TRUE],
         l.damaged \/ l.swept \/ ~ l.whole, load' = Cat!Failed(l)
  PROVE  CatInv'
<1>1. /\ DOMAIN l = LoadFields /\ l.tree = load.tree /\ l.stale = load.stale /\ l.seq = load.seq
      /\ l.begun = load.begun /\ l.todo = load.todo /\ l.whole = load.whole /\ l.swept = load.swept
  BY DEF CatInv, LoadSound, LoadFields
<1>2. HistorySound' /\ TreesSound' /\ Len(history) \in Nat
  BY ToolLeaves DEF CatInv, HistorySound
<1>3. /\ l.seq \in 0 .. Len(history') /\ l.begun \in 0 .. Len(history') /\ l.todo \subseteq 1 .. Len(history')
  BY <1>1 DEF CatInv, LoadSound
<1>4. load.tree \in DOMAIN trees /\ ("v3" \in DOMAIN trees => "v2" \in DOMAIN trees)
  BY TreesSoundIs, EraIn DEF CatInv, LoadSound, Chosen
<1>5. CASE l.tree = "v3"
  <2>1. load' = [l EXCEPT !.pc = "checkpoint", !.tree = "v2", !.stale = TRUE, !.seq = 0,
                          !.db = "none", !.tables = Cat!Idle.tables, !.unknown = FALSE]
    BY <1>5 DEF Cat!Failed
  <2>2. /\ DOMAIN load' = LoadFields /\ load'.pc = "checkpoint" /\ load'.tree = "v2" /\ load'.stale = TRUE
        /\ load'.seq = 0 /\ load'.db = "none" /\ load'.tables = Cat!Idle.tables
        /\ load'.begun = l.begun /\ load'.todo = l.todo
        /\ load'.damaged = l.damaged /\ load'.swept = l.swept /\ load'.whole = l.whole
    BY <1>1, <2>1 DEF LoadFields
  <2>3. Undone'
    BY <2>2 DEF Undone
  <2>4. Chosen'
    BY <1>1, <1>4, <1>5, <2>2 DEF Chosen
  <2>5. 0 \in 0 .. Len(history')
    BY <1>2
  <2>6. LoadSound'
    BY <1>3, <2>2, <2>3, <2>4, <2>5 DEF LoadSound
  <2>7. Cat!CatalogExact'
    BY <2>2, <2>3 DEF Cat!CatalogExact, Undone
  <2>8. QED
    BY <1>2, <2>6, <2>7 DEF CatInv
<1>6. CASE l.tree # "v3"
  <2>1. load' = [l EXCEPT !.pc = "failed"]
    BY <1>6 DEF Cat!Failed
  <2>2. /\ DOMAIN load' = LoadFields /\ load'.pc = "failed" /\ load'.seq = l.seq
        /\ load'.begun = l.begun /\ load'.todo = l.todo
        /\ load'.damaged = l.damaged /\ load'.swept = l.swept /\ load'.whole = l.whole
    BY <1>1, <2>1 DEF LoadFields
  <2>3. Undone'
    BY <2>2 DEF Undone
  <2>4. LoadSound'
    BY <1>3, <2>2, <2>3 DEF LoadSound, Cat!Reading
  <2>5. Cat!CatalogExact'
    BY <2>2, <2>3 DEF Cat!CatalogExact, Undone
  <2>6. QED
    BY <1>2, <2>4, <2>5 DEF CatInv
<1>7. QED
  BY <1>5, <1>6

(* A corrupt file.                                                         *)
LEMMA DamagedStep ==
  ASSUME CatInv, Cat!Reading, Cat!Becomes(Cat!Damaged)
  PROVE  CatInv'
<1> DEFINE l == [load EXCEPT !.damaged = TRUE]
<1>1. load' = Cat!Failed(l) /\ UNCHANGED <<history, states, trees>>
  BY DEF Cat!Becomes, Cat!Damaged
<1>2. l.damaged
  BY DEF CatInv, LoadSound, LoadFields
<1>3. l = [load EXCEPT !.damaged = TRUE]
  OBVIOUS
<1> HIDE DEF l
<1>4. QED
  BY <1>1, <1>2, <1>3, FailedStep

(* The newest layout is chosen.                                            *)
LEMMA LoadCatalogStep ==
  ASSUME CatInv, Cat!LoadCatalog
  PROVE  CatInv'
<1>1. load.pc = "idle" /\ load = Cat!Idle /\ UNCHANGED <<history, states, trees>>
  BY DEF Cat!LoadCatalog, Cat!Becomes, CatInv, LoadSound
<1>2. HistorySound' /\ TreesSound' /\ Len(history) \in Nat /\ Len(history') = Len(history)
  BY <1>1, ToolLeaves DEF CatInv, HistorySound
<1>3. /\ DOMAIN load = LoadFields /\ load.seq = 0 /\ load.db = "none" /\ load.tables = Cat!Idle.tables
      /\ load.begun = 0 /\ load.todo = {} /\ load.stale = FALSE
  BY <1>1 DEF Cat!Idle, LoadFields
<1>4. CASE history = <<>>
  <2>1. load' = [load EXCEPT !.pc = "failed"]
    BY <1>4 DEF Cat!LoadCatalog, Cat!Becomes
  <2>2. /\ DOMAIN load' = LoadFields /\ load'.pc = "failed" /\ load'.seq = 0 /\ load'.begun = 0
        /\ load'.todo = {} /\ load'.stale = FALSE
    BY <1>3, <2>1 DEF LoadFields
  <2>3. 0 \in 0 .. Len(history')
    BY <1>2
  <2>4. LoadSound'
    BY <2>2, <2>3 DEF LoadSound, Cat!Reading
  <2>5. Cat!CatalogExact'
    BY <2>2 DEF Cat!CatalogExact
  <2>6. QED
    BY <1>2, <2>4, <2>5 DEF CatInv
<1>5. CASE history # <<>>
  <2>1. load' = [load EXCEPT !.pc = "checkpoint", !.tree = Cat!era, !.begun = Len(history)]
    BY <1>5 DEF Cat!LoadCatalog, Cat!Becomes
  <2>2. /\ DOMAIN load' = LoadFields /\ load'.pc = "checkpoint" /\ load'.tree = Cat!era
        /\ load'.begun = Len(history) /\ load'.seq = 0 /\ load'.db = "none"
        /\ load'.tables = Cat!Idle.tables /\ load'.todo = {} /\ load'.stale = FALSE
    BY <1>3, <2>1 DEF LoadFields
  <2>3. 0 \in 0 .. Len(history') /\ Len(history) \in 0 .. Len(history')
    BY <1>2
  <2>4. Chosen'
    <3>1. PICK L, t : L = Len(history) /\ t = trees[Cat!era]
      OBVIOUS
    <3>2. Cat!era \in DOMAIN trees /\ t.point \in 0 .. L /\ t.point + 1 .. L \subseteq t.logs
      BY <3>1, CurrentTree DEF CatInv, TreeSound, Current
    <3>3. L <= t.point \/ L \in t.logs
      BY <1>2, <3>1, <3>2
    <3>4. QED
      BY <1>1, <2>2, <3>1, <3>2, <3>3 DEF Chosen
  <2>5. LoadSound'
    BY <2>2, <2>3, <2>4 DEF LoadSound
  <2>6. Cat!CatalogExact'
    BY <2>2 DEF Cat!CatalogExact
  <2>7. QED
    BY <1>2, <2>5, <2>6 DEF CatInv
<1>6. QED
  BY <1>4, <1>5

(* A reading that has a checkpoint, none, or could not read it, and looks  *)
(* at the log files next.                                                  *)
LEMMA ListNext ==
  ASSUME CatInv, UNCHANGED <<history, states, trees>>, load.pc = "checkpoint",
         NEW seq \in {0, trees[load.tree].point}, NEW whole,
         DOMAIN load' = LoadFields, load'.pc = "list", load'.tree = load.tree, load'.stale = load.stale,
         load'.begun = load.begun, load'.todo = load.todo, load'.seq = seq,
         load'.whole = whole, load'.swept = load.swept, load'.damaged = load.damaged,
         whole => load.whole,
         Matches(load', Cat!StateAt(seq)), load.whole => Complete(load', Cat!StateAt(seq)),
         seq = trees[load.tree].point \/ (~ whole /\ DOMAIN load'.tables = {}),
         load.stale => load.damaged \/ load.swept \/ ~ load.whole
  PROVE  CatInv'
<1>1. PICK L, k, t : L = Len(history) /\ k = load.tree /\ t = trees[k]
  OBVIOUS
<1>2. /\ HistorySound' /\ TreesSound' /\ L \in Nat /\ Len(history') = L /\ Cat!era' = Cat!era
      /\ \A n \in 0 .. L : Cat!StateAt(n)' = Cat!StateAt(n)
  BY <1>1, ToolLeaves DEF CatInv, HistorySound
<1>3. /\ load.begun \in 0 .. L /\ load.todo \subseteq 1 .. L /\ k \in DOMAIN trees
      /\ load.stale \/ load.begun <= t.point \/ load.begun \in t.logs
  BY <1>1 DEF CatInv, LoadSound, Cat!Reading, Chosen
<1>4. TreeSound(t, L) /\ (k = Cat!era => Current(t, L))
  BY <1>1, <1>3, TreesSoundIs, CurrentTree DEF CatInv
<1>5. seq \in 0 .. L
  BY <1>1, <1>2, <1>4 DEF TreeSound
<1>6. Undone' \/ ~ load'.stale
  BY DEF Undone
<1>7. Chosen'
  BY <1>1, <1>3 DEF Chosen
<1>8. AtBatch(load)'
  <2>1. Cat!StateAt(load.seq)' = Cat!StateAt(seq)
    BY <1>2, <1>5 DEF Cat!StateAt
  <2>2. QED
    BY <2>1 DEF AtBatch, Matches, Agrees, Complete
<1>9. Following'
  <2>1. CASE seq = t.point
    BY <1>1, <1>2, <1>3, <1>4, <2>1 DEF Following, TreeSound, Current
  <2>2. CASE ~ whole /\ DOMAIN load'.tables = {}
    BY <2>2 DEF Following
  <2>3. QED
    BY <1>1, <2>1, <2>2
<1>10. LoadSound'
  BY <1>2, <1>3, <1>5, <1>6, <1>7, <1>8, <1>9 DEF LoadSound
<1>11. Cat!CatalogExact'
  BY <1>6 DEF Cat!CatalogExact, Undone
<1>12. QED
  BY <1>2, <1>10, <1>11 DEF CatInv

(* The checkpoint is read, is not there, is unreadable or corrupt.         *)
LEMMA ReadCheckpointStep ==
  ASSUME NamesDiffer, CatInv, Cat!ReadCheckpoint
  PROVE  CatInv'
<1>1. PICK point, k : point = trees[k].point /\ k = load.tree
  OBVIOUS
<1> DEFINE tables == Cat!StateAt(point).tables
<1>2. /\ load.pc = "checkpoint"
      /\ \/ point = 0 /\ Cat!Becomes([load EXCEPT !.pc = "list"])
         \/ point > 0 /\ Cat!Becomes([load EXCEPT !.pc = "list", !.whole = FALSE])
         \/ point > 0 /\ Cat!Becomes(Cat!Damaged)
         \/ /\ point > 0
            /\ IF k = "v3" \/ \A t \in DOMAIN tables :
                     Cat!SeriesKeyResolves(Cat!StoredTable(tables[t], k), k)
               THEN Cat!Becomes([Cat!Checkpointed(k, point) EXCEPT !.pc = "list"])
               ELSE Cat!Becomes(Cat!Failed(load))
  BY <1>1 DEF Cat!ReadCheckpoint
<1>3. /\ DOMAIN load = LoadFields /\ load.seq = 0 /\ load.db = "none" /\ load.tables = Cat!Idle.tables
      /\ Cat!Reading /\ Fresh(load) /\ DOMAIN load.tables = {}
      /\ load.stale => load.damaged \/ load.swept \/ ~ load.whole
  BY <1>2 DEF CatInv, LoadSound, Cat!Reading, Fresh, Undone, Cat!Idle
<1>4. k \in DOMAIN trees /\ point \in 0 .. Len(history) /\ k \in {"v1", "v2", "v3"}
  BY <1>1, <1>3, TreesSoundIs, EraIn DEF CatInv, LoadSound, Chosen, TreeSound
<1>5. CASE point = 0 /\ Cat!Becomes([load EXCEPT !.pc = "list"])
  <2>1. load' = [load EXCEPT !.pc = "list"] /\ UNCHANGED <<history, states, trees>>
    BY <1>5 DEF Cat!Becomes
  <2>2. /\ DOMAIN load' = LoadFields /\ load'.pc = "list" /\ load'.tree = load.tree /\ load'.stale = load.stale
        /\ load'.begun = load.begun /\ load'.todo = load.todo /\ load'.seq = 0
        /\ load'.whole = load.whole /\ load'.swept = load.swept /\ load'.damaged = load.damaged
        /\ load'.db = "none" /\ load'.tables = Cat!Idle.tables
    BY <1>3, <2>1 DEF LoadFields
  <2>3. Fresh(load')
    BY <2>2 DEF Fresh
  <2>4. Matches(load', Cat!StateAt(0)) /\ Complete(load', Cat!StateAt(0))
    BY <2>3, FreshComplete
  <2>5. QED
    BY <1>1, <1>2, <1>3, <1>5, <2>1, <2>2, <2>4, ListNext
<1>6. CASE point > 0 /\ Cat!Becomes([load EXCEPT !.pc = "list", !.whole = FALSE])
  <2>1. load' = [load EXCEPT !.pc = "list", !.whole = FALSE] /\ UNCHANGED <<history, states, trees>>
    BY <1>6 DEF Cat!Becomes
  <2>2. /\ DOMAIN load' = LoadFields /\ load'.pc = "list" /\ load'.tree = load.tree /\ load'.stale = load.stale
        /\ load'.begun = load.begun /\ load'.todo = load.todo /\ load'.seq = 0
        /\ load'.whole = FALSE /\ load'.swept = load.swept /\ load'.damaged = load.damaged
        /\ load'.db = "none" /\ load'.tables = Cat!Idle.tables /\ DOMAIN load'.tables = {}
    BY <1>3, <2>1 DEF LoadFields
  <2>3. Fresh(load')
    BY <2>2 DEF Fresh
  <2>4. Matches(load', Cat!StateAt(0)) /\ Complete(load', Cat!StateAt(0))
    BY <2>3, FreshComplete
  <2>5. QED
    BY <1>1, <1>2, <1>3, <2>1, <2>2, <2>4, ListNext
<1>7. CASE Cat!Becomes(Cat!Damaged)
  BY <1>3, <1>7, DamagedStep
<1>8. CASE k = "v3" /\ Cat!Becomes([Cat!Checkpointed(k, point) EXCEPT !.pc = "list"])
  <2> DEFINE m == Cat!Replayed(point)
  <2>1. load' = [m EXCEPT !.pc = "list"] /\ UNCHANGED <<history, states, trees>>
    BY <1>8 DEF Cat!Becomes, Cat!Checkpointed
  <2>2. /\ Kept([load EXCEPT !.seq = point], m)
        /\ Matches(m, Cat!StateAt(point)) /\ Complete(m, Cat!StateAt(point))
    BY <1>3, <1>4, ReplayedIs DEF CatInv
  <2> HIDE DEF m
  <2>3. /\ DOMAIN load' = LoadFields /\ load'.pc = "list" /\ load'.tree = load.tree /\ load'.stale = load.stale
        /\ load'.begun = load.begun /\ load'.todo = load.todo /\ load'.seq = point
        /\ load'.whole = load.whole /\ load'.swept = load.swept /\ load'.damaged = load.damaged
        /\ load'.db = m.db /\ load'.tables = m.tables /\ load'.unknown = m.unknown
    BY <1>3, <2>1, <2>2 DEF LoadFields, Kept
  <2>4. Matches(load', Cat!StateAt(point)) /\ Complete(load', Cat!StateAt(point))
    BY <2>2, <2>3 DEF Matches, Agrees, Complete
  <2>5. QED
    BY <1>1, <1>2, <1>3, <2>1, <2>3, <2>4, ListNext
<1>9. ASSUME k # "v3"
      PROVE  \A t \in DOMAIN tables :
               /\ Cat!SeriesKeyResolves(Cat!StoredTable(tables[t], k), k)
               /\ \A l : Agrees(l, Cat!Parsed(Cat!StoredTable(tables[t], k), k), tables[t])
  <2>1. Cat!StateAt(point) \in CatStates
    BY <1>4 DEF CatInv, HistorySound, Proper
  <2>2. tables \in Seq(CatTables)
    BY <2>1 DEF CatStates
  <2>3. \A t \in DOMAIN tables : tables[t] \in CatTables
    BY <2>2
  <2> HIDE DEF tables
  <2>4. QED
    BY <1>4, <1>9, <2>3, ParsedAgrees
<1>10. CASE k # "v3" /\ Cat!Becomes([Cat!Checkpointed(k, point) EXCEPT !.pc = "list"])
  <2> DEFINE read == [t \in DOMAIN tables |-> Cat!Parsed(Cat!StoredTable(tables[t], k), k)]
  <2>1. /\ load' = [[load EXCEPT !.seq = point, !.db = Cat!StateAt(point).db, !.tables = read]
                      EXCEPT !.pc = "list"]
        /\ UNCHANGED <<history, states, trees>>
    BY <1>10 DEF Cat!Becomes, Cat!Checkpointed
  <2> HIDE DEF read
  <2>2. /\ DOMAIN load' = LoadFields /\ load'.pc = "list" /\ load'.tree = load.tree /\ load'.stale = load.stale
        /\ load'.begun = load.begun /\ load'.todo = load.todo /\ load'.seq = point
        /\ load'.whole = load.whole /\ load'.swept = load.swept /\ load'.damaged = load.damaged
        /\ load'.db = Cat!StateAt(point).db /\ load'.tables = read
    BY <1>3, <2>1 DEF LoadFields
  <2>3. Matches(load', Cat!StateAt(point)) /\ Complete(load', Cat!StateAt(point))
    BY <1>9, <1>10, <2>2 DEF Matches, Complete, read
  <2>4. QED
    BY <1>1, <1>2, <1>3, <2>1, <2>2, <2>3, ListNext
<1>11. QED
  BY <1>2, <1>5, <1>6, <1>7, <1>8, <1>9, <1>10

(* The log files are listed.                                               *)
LEMMA ListLogsStep ==
  ASSUME CatInv, Cat!ListLogs
  PROVE  CatInv'
<1>1. PICK L, k, t : L = Len(history) /\ k = load.tree /\ t = trees[k]
  OBVIOUS
<1>2. /\ load.pc = "list" /\ load' = [load EXCEPT !.pc = "replay", !.todo = t.logs]
      /\ UNCHANGED <<history, states, trees>>
  BY <1>1 DEF Cat!ListLogs, Cat!Becomes
<1>3. /\ HistorySound' /\ TreesSound' /\ L \in Nat /\ Len(history') = L
      /\ \A n \in 0 .. L : Cat!StateAt(n)' = Cat!StateAt(n)
  BY <1>1, <1>2, ToolLeaves DEF CatInv, HistorySound
<1>4. /\ DOMAIN load = LoadFields /\ load.seq \in 0 .. L /\ load.begun \in 0 .. L /\ Chosen
      /\ (load.stale => Undone)
      /\ (~ load.swept => AtBatch(load) /\ Following)
  BY <1>1, <1>2 DEF CatInv, LoadSound, Cat!Reading
<1>5. TreeSound(t, L)
  BY <1>1, <1>4, TreesSoundIs DEF CatInv, Chosen
<1>6. /\ DOMAIN load' = LoadFields /\ load'.pc = "replay" /\ load'.tree = k /\ load'.stale = load.stale
      /\ load'.seq = load.seq /\ load'.db = load.db /\ load'.tables = load.tables
      /\ load'.unknown = load.unknown /\ load'.todo = t.logs /\ load'.whole = load.whole
      /\ load'.swept = load.swept /\ load'.damaged = load.damaged /\ load'.begun = load.begun
  BY <1>1, <1>2, <1>4 DEF LoadFields
<1>7. load'.stale => Undone'
  BY <1>4, <1>6 DEF Undone
<1>8. Chosen'
  BY <1>1, <1>2, <1>4, <1>6 DEF Chosen
<1>9. ASSUME ~ load.swept
      PROVE  AtBatch(load)' /\ Replaying'
  <2>1. AtBatch(load) /\ Following
    BY <1>4, <1>9
  <2>2. Cat!StateAt(load.seq)' = Cat!StateAt(load.seq)
    BY <1>3, <1>4, <1>6 DEF Cat!StateAt
  <2>3. AtBatch(load)'
    BY <1>6, <2>1, <2>2 DEF AtBatch, Matches, Agrees, Complete
  <2>4. Replaying'
    BY <1>1, <1>2, <1>5, <1>6, <2>1 DEF Replaying, Following, TreeSound
  <2>5. QED
    BY <2>3, <2>4
<1>10. t.logs \subseteq 1 .. L
  BY <1>5 DEF TreeSound
<1>11. LoadSound'
  BY <1>3, <1>4, <1>6, <1>7, <1>8, <1>9, <1>10 DEF LoadSound
<1>12. Cat!CatalogExact'
  BY <1>6, <1>7 DEF Cat!CatalogExact, Undone
<1>13. QED
  BY <1>3, <1>11, <1>12 DEF CatInv

(* A reading after a step is at batch seq.                                 *)
LEMMA AtBatchNext ==
  ASSUME NEW seq, Cat!StateAt(load.seq)' = Cat!StateAt(seq),
         Matches(load', Cat!StateAt(seq)), load'.whole => Complete(load', Cat!StateAt(seq))
  PROVE  AtBatch(load)'
BY DEF AtBatch, Matches, Agrees, Complete

(* The next log file is left out, being folded into the checkpoint, or is  *)
(* applied to what was read up to it.                                      *)
LEMMA ReplayNext ==
  ASSUME CatInv, load.pc = "replay", UNCHANGED <<history, states, trees>>,
         NEW n \in load.todo, \A m \in load.todo : n <= m,
         NEW seq, seq = IF n <= load.seq THEN load.seq ELSE n,
         DOMAIN load' = LoadFields, load'.pc = "replay", load'.tree = load.tree, load'.stale = load.stale,
         load'.begun = load.begun, load'.todo = load.todo \ {n}, load'.seq = seq,
         load'.whole = load.whole, load'.swept = load.swept, load'.damaged = load.damaged,
         load.swept \/ (/\ Matches(load', Cat!StateAt(seq))
                        /\ load.whole => Complete(load', Cat!StateAt(seq))
                        /\ n <= load.seq => load'.tables = load.tables)
  PROVE  CatInv'
<1>1. PICK L, k, t : L = Len(history) /\ k = load.tree /\ t = trees[k]
  OBVIOUS
<1>2. /\ HistorySound' /\ TreesSound' /\ L \in Nat /\ Len(history') = L
      /\ \A m \in 0 .. L : Cat!StateAt(m)' = Cat!StateAt(m)
  BY <1>1, ToolLeaves DEF CatInv, HistorySound
<1>3. /\ load.seq \in 0 .. L /\ load.begun \in 0 .. L /\ load.todo \subseteq 1 .. L /\ Chosen
      /\ (load.stale => Undone)
      /\ (~ load.swept => Replaying)
  BY <1>1 DEF CatInv, LoadSound, Cat!Reading
<1>4. seq \in 0 .. L /\ n \in 1 .. L
  BY <1>2, <1>3
<1>5. load'.stale => Undone'
  BY <1>3 DEF Undone
<1>6. Chosen'
  BY <1>3 DEF Chosen
<1>7. ASSUME ~ load.swept
      PROVE  AtBatch(load)' /\ Replaying'
  <2>1. /\ load.todo \subseteq t.logs
        /\ \A a, b \in load.todo : a .. b \subseteq load.todo
        /\ load.whole \/ DOMAIN load.tables # {} => \A b \in load.todo : load.seq + 1 .. b \subseteq load.todo
        /\ load.whole => load.stale \/ load.begun <= load.seq \/ load.begun \in load.todo
    BY <1>1, <1>3, <1>7 DEF Replaying
  <2>2. Cat!StateAt(load.seq)' = Cat!StateAt(seq)
    BY <1>2, <1>4 DEF Cat!StateAt
  <2>3. AtBatch(load)'
    <3>1. Matches(load', Cat!StateAt(seq)) /\ (load'.whole => Complete(load', Cat!StateAt(seq)))
      BY <1>7
    <3>2. QED
      BY <2>2, <3>1, AtBatchNext
  <2> DEFINE todo == load.todo \ {n}
  <2>4. todo \subseteq t.logs
    BY <2>1
  <2>5. \A a \in todo : n < a /\ a \in Nat
    BY <1>3, <1>4
  <2>6. \A a, b \in todo : a .. b \subseteq todo
    BY <1>4, <2>1, <2>5
  <2>7. load.whole \/ DOMAIN load'.tables # {} => \A b \in todo : seq + 1 .. b \subseteq todo
    <3>1. CASE n <= load.seq
      <4>1. load'.tables = load.tables /\ seq = load.seq
        BY <1>7, <3>1
      <4>2. QED
        BY <1>3, <1>4, <2>1, <2>5, <3>1, <4>1
    <3>2. CASE ~ (n <= load.seq)
      <4>1. seq = n
        BY <3>2
      <4>2. \A b \in todo : n + 1 .. b \subseteq todo
        BY <1>4, <2>1, <2>5
      <4>3. QED
        BY <4>1, <4>2
    <3>3. QED
      BY <3>1, <3>2
  <2>8. load.whole => load.stale \/ load.begun <= seq \/ load.begun \in todo
    BY <1>3, <1>4, <2>1
  <2>9. Replaying'
    <3> HIDE DEF todo
    <3>1. load'.todo = todo
      BY DEF todo
    <3>2. QED
      BY <1>1, <2>4, <2>6, <2>7, <2>8, <3>1 DEF Replaying
  <2>10. QED
    BY <2>3, <2>9
<1>8. load'.todo \subseteq 1 .. L
  BY <1>3
<1>9. LoadSound'
  BY <1>2, <1>3, <1>4, <1>5, <1>6, <1>7, <1>8 DEF LoadSound
<1>10. Cat!CatalogExact'
  BY <1>5 DEF Cat!CatalogExact, Undone
<1>11. QED
  BY <1>2, <1>9, <1>10 DEF CatInv

(* The next log file is replayed.                                          *)
LEMMA ReplayLogStep ==
  ASSUME NamesDiffer, CatInv, Cat!ReplayLog
  PROVE  CatInv'
<1>1. PICK n \in load.todo :
        /\ load.pc = "replay" /\ \A m \in load.todo : n <= m
        /\ \/ Cat!Becomes(Cat!Damaged)
           \/ n \notin trees[load.tree].logs /\ Cat!Becomes(Cat!Failed(load))
           \/ IF Cat!FoldedIn(load, n) THEN Cat!Becomes([load EXCEPT !.todo = @ \ {n}])
              ELSE IF ~ Cat!Applicable(load, history[n]) THEN Cat!Becomes(Cat!Failed(load))
              ELSE Cat!Becomes([Cat!Applied(load, history[n]) EXCEPT !.todo = @ \ {n}, !.seq = n])
  BY DEF Cat!ReplayLog
<1>2. PICK L : L = Len(history)
  OBVIOUS
<1>3. /\ Cat!Reading /\ DOMAIN load = LoadFields /\ load.seq \in 0 .. L /\ load.todo \subseteq 1 .. L
      /\ (~ load.swept => AtBatch(load) /\ Replaying)
  BY <1>1, <1>2 DEF CatInv, LoadSound, Cat!Reading
<1>4. L \in Nat /\ n \in 1 .. L /\ n \in 0 .. L /\ n - 1 \in 0 .. L
  BY <1>2, <1>3 DEF CatInv, HistorySound
<1>5. Cat!FoldedIn(load, n) <=> n <= load.seq
  BY DEF Cat!FoldedIn
<1> DEFINE op == history[n]
           prev == Cat!StateAt(n - 1)
           next == Cat!StateAt(n)
<1>6. Proper(prev) /\ Did(op, prev, next)
  BY <1>2, <1>4 DEF CatInv, HistorySound
<1> HIDE DEF op, prev, next
<1>7. ASSUME ~ load.swept, ~ (n <= load.seq)
      PROVE  Matches(load, prev) /\ (load.whole => Complete(load, prev))
  <2>1. AtBatch(load) /\ Replaying
    BY <1>3, <1>7
  <2>2. CASE load.whole \/ DOMAIN load.tables # {}
    <3>1. load.seq + 1 .. n \subseteq load.todo
      BY <1>1, <2>1, <2>2 DEF Replaying
    <3>2. load.seq + 1 \in load.todo
      BY <1>3, <1>4, <1>7, <3>1
    <3>3. n <= load.seq + 1
      BY <1>1, <3>2
    <3>4. n - 1 = load.seq
      BY <1>3, <1>4, <1>7, <3>3
    <3>5. QED
      BY <2>1, <3>4 DEF AtBatch, prev
  <2>3. CASE ~ (load.whole \/ DOMAIN load.tables # {})
    BY <2>3 DEF Matches
  <2>4. QED
    BY <2>2, <2>3
<1>8. CASE Cat!Becomes(Cat!Damaged)
  BY <1>3, <1>8, DamagedStep
<1>9. CASE n \notin trees[load.tree].logs /\ Cat!Becomes(Cat!Failed(load))
  <2>1. load.swept
    BY <1>3, <1>9 DEF Replaying
  <2>2. QED
    BY <1>3, <1>9, <2>1, FailedStep DEF Cat!Becomes
<1>10. CASE n <= load.seq /\ Cat!Becomes([load EXCEPT !.todo = @ \ {n}])
  <2>1. load' = [load EXCEPT !.todo = @ \ {n}] /\ UNCHANGED <<history, states, trees>>
    BY <1>10 DEF Cat!Becomes
  <2>2. /\ DOMAIN load' = LoadFields /\ load'.pc = "replay" /\ load'.tree = load.tree /\ load'.stale = load.stale
        /\ load'.begun = load.begun /\ load'.todo = load.todo \ {n} /\ load'.seq = load.seq
        /\ load'.whole = load.whole /\ load'.swept = load.swept /\ load'.damaged = load.damaged
        /\ load'.tables = load.tables /\ load'.unknown = load.unknown /\ load'.db = load.db
    BY <1>1, <1>3, <2>1 DEF LoadFields
  <2>3. load.swept \/ (/\ Matches(load', Cat!StateAt(load.seq))
                       /\ load.whole => Complete(load', Cat!StateAt(load.seq)))
    BY <1>3, <2>2 DEF AtBatch, Matches, Agrees, Complete
  <2>4. QED
    BY <1>1, <1>10, <2>1, <2>2, <2>3, ReplayNext
<1>11. CASE ~ (n <= load.seq) /\ ~ Cat!Applicable(load, op) /\ Cat!Becomes(Cat!Failed(load))
  <2>1. load.swept \/ ~ load.whole
    BY <1>6, <1>7, <1>11, CompleteApplies
  <2>2. QED
    BY <1>3, <1>11, <2>1, FailedStep DEF Cat!Becomes
<1>12. CASE /\ ~ (n <= load.seq) /\ Cat!Applicable(load, op)
            /\ Cat!Becomes([Cat!Applied(load, op) EXCEPT !.todo = @ \ {n}, !.seq = n])
  <2> DEFINE m == Cat!Applied(load, op)
  <2>1. load' = [m EXCEPT !.todo = @ \ {n}, !.seq = n] /\ UNCHANGED <<history, states, trees>>
    BY <1>12 DEF Cat!Becomes
  <2>2. Kept(load, m)
    BY <1>3, <1>6, DidNames, AppliedKeeps
  <2>3. load.swept \/ (/\ Matches(m, next)
                       /\ load.whole => Complete(m, next))
    <3> SUFFICES ASSUME ~ load.swept PROVE Matches(m, next) /\ (load.whole => Complete(m, next))
      OBVIOUS
    <3>1. Matches(load, prev) /\ (load.whole => Complete(load, prev))
      BY <1>7, <1>12
    <3>2. Follows(load, prev, next, m)
      BY <1>3, <1>6, <1>12, <3>1, BatchFollows
    <3>3. QED
      BY <3>1, <3>2 DEF Follows
  <2> HIDE DEF m
  <2>4. /\ DOMAIN load' = LoadFields /\ load'.pc = "replay" /\ load'.tree = load.tree /\ load'.stale = load.stale
        /\ load'.begun = load.begun /\ load'.todo = load.todo \ {n} /\ load'.seq = n
        /\ load'.whole = load.whole /\ load'.swept = load.swept /\ load'.damaged = load.damaged
        /\ load'.tables = m.tables /\ load'.unknown = m.unknown /\ load'.db = m.db
    BY <1>1, <1>3, <2>1, <2>2 DEF LoadFields, Kept
  <2>5. load.swept \/ (/\ Matches(load', Cat!StateAt(n))
                       /\ load.whole => Complete(load', Cat!StateAt(n)))
    BY <2>3, <2>4 DEF Matches, Agrees, Complete, next
  <2>6. QED
    BY <1>1, <1>12, <2>1, <2>4, <2>5, ReplayNext
<1>13. QED
  BY <1>1, <1>5, <1>8, <1>9, <1>10, <1>11, <1>12 DEF op

(* All log files are replayed: what was read is the server's catalog.      *)
LEMMA FinishStep ==
  ASSUME CatInv, Cat!Finish
  PROVE  CatInv'
<1>1. PICK L : L = Len(history)
  OBVIOUS
<1>2. /\ load.pc = "replay" /\ load.todo = {} /\ load' = [load EXCEPT !.pc = "done"]
      /\ UNCHANGED <<history, states, trees>>
  BY DEF Cat!Finish, Cat!Becomes
<1>3. /\ HistorySound' /\ TreesSound' /\ L \in Nat /\ Len(history') = L
      /\ \A n \in 0 .. L : Cat!StateAt(n)' = Cat!StateAt(n)
  BY <1>1, <1>2, ToolLeaves DEF CatInv, HistorySound
<1>4. /\ DOMAIN load = LoadFields /\ load.seq \in 0 .. L /\ load.begun \in 0 .. L
      /\ (load.stale => Undone)
      /\ (~ load.swept => AtBatch(load) /\ Replaying)
  BY <1>1, <1>2 DEF CatInv, LoadSound
<1>5. /\ DOMAIN load' = LoadFields /\ load'.pc = "done" /\ load'.stale = load.stale
      /\ load'.seq = load.seq /\ load'.db = load.db /\ load'.tables = load.tables
      /\ load'.unknown = load.unknown /\ load'.todo = {} /\ load'.whole = load.whole
      /\ load'.swept = load.swept /\ load'.damaged = load.damaged /\ load'.begun = load.begun
  BY <1>2, <1>4 DEF LoadFields
<1>6. load'.stale => Undone'
  BY <1>4, <1>5 DEF Undone
<1>7. LoadSound'
  BY <1>3, <1>4, <1>5, <1>6 DEF LoadSound, Cat!Reading
<1>8. Cat!StateAt(load.seq)' = Cat!StateAt(load.seq)
  BY <1>3, <1>4, <1>5 DEF Cat!StateAt
<1>9. ASSUME ~ load.swept
      PROVE  /\ \A t \in DOMAIN load.tables :
                  t \in DOMAIN Cat!StateAt(load.seq).tables
                  /\ Agrees(load, load.tables[t], Cat!StateAt(load.seq).tables[t])
             /\ load.whole => /\ DOMAIN load.tables = DOMAIN Cat!StateAt(load.seq).tables
                              /\ load.db = Cat!StateAt(load.seq).db
                              /\ load.stale \/ load.seq >= load.begun
  <2>1. AtBatch(load) /\ Replaying
    BY <1>4, <1>9
  <2>2. load.whole => load.stale \/ load.begun <= load.seq
    BY <1>2, <2>1 DEF Replaying
  <2>3. load.stale \/ load.begun <= load.seq => load.stale \/ load.seq >= load.begun
    BY <1>3, <1>4
  <2>4. QED
    BY <2>1, <2>2, <2>3 DEF AtBatch, Matches, Complete
<1>10. Cat!CatalogExact'
  BY <1>5, <1>6, <1>8, <1>9 DEF Cat!CatalogExact, Cat!Same, Agrees, Undone
<1>11. QED
  BY <1>3, <1>7, <1>10 DEF CatInv

-----------------------------------------------------------------------------
(* The theorem about the catalog.                                          *)

(* The columns' names differ.                                              *)
LEMMA NamesAreDifferent ==
  NamesDiffer
<1>1. Names \in Seq(STRING) /\ IsInjective(Names)
  BY CatalogAssumption
<1>2. DOMAIN Names = 1 .. Len(Names)
  BY <1>1
<1>3. QED
  BY <1>1, <1>2 DEF NamesDiffer, IsInjective

(* Every step keeps the invariant.                                         *)
LEMMA CatNext ==
  ASSUME NamesDiffer, CatInv, [Cat!Next]_(Cat!vars)
  PROVE  CatInv'
<1>1. CASE Cat!Server
  BY <1>1, ServerStep
<1>2. CASE Cat!Tool
  BY <1>2, LoadCatalogStep, ReadCheckpointStep, ListLogsStep, ReplayLogStep, FinishStep DEF Cat!Tool
<1>3. CASE UNCHANGED Cat!vars
  <2>1. UNCHANGED <<history, states, trees>> /\ load' = load
    BY <1>3 DEF Cat!vars
  <2>2. HistorySound' /\ TreesSound' /\ Cat!era' = Cat!era
    BY <2>1, ToolLeaves
  <2>3. Cat!StateAt(load.seq)' = Cat!StateAt(load.seq)
    BY <2>1 DEF Cat!StateAt
  <2>4. Cat!CatalogExact'
    BY <2>1, <2>3 DEF CatInv, Cat!CatalogExact, Cat!Same
  <2>5. (Chosen => Chosen') /\ (Following => Following') /\ (Replaying => Replaying') /\ (Undone => Undone')
    BY <2>1, <2>2 DEF Chosen, Following, Replaying, Undone
  <2>6. AtBatch(load) => AtBatch(load)'
    BY <2>1, <2>3 DEF AtBatch, Matches, Agrees, Complete
  <2>7. LoadSound'
    BY <2>1, <2>5, <2>6 DEF CatInv, LoadSound, Cat!Reading
  <2>8. QED
    BY <2>2, <2>4, <2>7 DEF CatInv
<1>4. QED
  BY <1>1, <1>2, <1>3 DEF Cat!Next

(* LoadCatalog (internal/v3meta): whatever the server writes, folds into   *)
(* its checkpoint, removes or migrates meanwhile, a catalog that is read   *)
(* is the one the server had at the last batch read, and one that can be   *)
(* read is never refused.                                                  *)
THEOREM CatalogIsExact == Cat!Spec => []CatalogExact
<1>1. NamesDiffer
  BY NamesAreDifferent
<1>2. Cat!Init => CatInv
  BY CatInit
<1>3. CatInv /\ [Cat!Next]_(Cat!vars) => CatInv'
  BY <1>1, CatNext
<1>4. CatInv => CatalogExact
  BY DEF CatInv, CatalogExact
<1>5. QED
  BY <1>2, <1>3, <1>4, PTL DEF Cat!Spec
=============================================================================
