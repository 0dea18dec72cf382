----------------------------- MODULE StreamProofs -----------------------------
(***************************************************************************)
(* Proofs about the streams of a shard: the files that they are read from  *)
(* (FileHandles), for every set of files and shards, every budget of the   *)
(* index cache and every number of workers, and then the points that they  *)
(* are merged to (SeriesMerge, as SM of SeriesPoints), for every shard,    *)
(* range, cursor and number of windows.                                    *)
(***************************************************************************)
EXTENDS FileHandles, SeriesPoints, Sorting, SequenceTheorems, FiniteSetTheorems,
        WellFoundedInduction, TLAPS

-----------------------------------------------------------------------------
(* Induction over the natural numbers, in a form without a parameter.      *)

(* A non-empty set of natural numbers has a least element.                 *)
LEMMA LeastElement ==
  ASSUME NEW T \in SUBSET Nat, T # {}
  PROVE  \E x \in T : \A y \in T : x <= y
<1>1. PICK x \in T : \A y \in T : ~ (<<y, x>> \in OpToRel(<, Nat))
  BY NatLessThanWellFounded, WFMin
<1>2. \A y \in T : ~ (y < x)
  BY <1>1 DEF OpToRel
<1>3. QED
  BY <1>2

(* Induction over the natural numbers.                                     *)
LEMMA SetInduction ==
  ASSUME NEW T, 0 \in T, \A n \in T \cap Nat : n + 1 \in T
  PROVE  Nat \subseteq T
<1>1. SUFFICES ASSUME Nat \ T # {} PROVE FALSE
  OBVIOUS
<1>2. PICK x \in Nat \ T : \A y \in Nat \ T : x <= y
  BY <1>1, LeastElement
<1>3. x - 1 \in T \cap Nat /\ (x - 1) + 1 = x
  BY <1>2
<1>4. (x - 1) + 1 \in T
  BY <1>3
<1>5. QED
  BY <1>2, <1>3, <1>4

-----------------------------------------------------------------------------
(* Sums, by the number of elements of a union of disjoint sets.            *)

LEMMA ImageFinite ==
  ASSUME NEW S, IsFiniteSet(S), NEW g
  PROVE  IsFiniteSet({g[x] : x \in S})
<1> DEFINE f == [x \in S |-> g[x]]
           T == {g[x] : x \in S}
<1>1. f \in Surjection(S, T)
  BY DEF Surjection
<1>2. QED
  BY <1>1, FS_Surjection

(* A sum over a set grows by what is added to the set.                     *)
LEMMA SumProperties ==
  ASSUME NEW D, IsFiniteSet(D), NEW f \in [D -> Nat]
  PROVE  /\ SumOver(f, {}) = 0
         /\ \A S \in SUBSET D : SumOver(f, S) \in Nat
         /\ \A S \in SUBSET D : \A x \in D \ S :
              SumOver(f, S \cup {x}) = SumOver(f, S) + f[x]
<1> DEFINE part == [x \in D |-> {x} \X (1 .. f[x])]
           Parts(S) == UNION {part[x] : x \in S}
<1>1. ASSUME NEW x \in D PROVE IsFiniteSet(part[x]) /\ Cardinality(part[x]) = f[x]
  <2>1. /\ IsFiniteSet({x}) /\ Cardinality({x}) = 1
        /\ IsFiniteSet(1 .. f[x]) /\ Cardinality(1 .. f[x]) = f[x]
    <3>1. IsFiniteSet({x}) /\ Cardinality({x}) = 1
      BY FS_Singleton
    <3>2. f[x] \in Nat /\ 1 \in Int
      OBVIOUS
    <3>3. /\ IsFiniteSet(1 .. f[x])
          /\ Cardinality(1 .. f[x]) = IF 1 > f[x] THEN 0 ELSE f[x] - 1 + 1
      BY <3>2, FS_Interval
    <3>4. QED
      BY <3>1, <3>2, <3>3
  <2>2. IsFiniteSet({x} \X (1 .. f[x])) /\ Cardinality({x} \X (1 .. f[x])) = 1 * f[x]
    <3> DEFINE T == 1 .. f[x]
    <3> HIDE DEF T
    <3>1. /\ IsFiniteSet({x} \X T)
          /\ Cardinality({x} \X T) = Cardinality({x}) * Cardinality(T)
      BY <2>1, FS_Product, ZenonT(30) DEF T
    <3>2. QED
      BY <2>1, <3>1 DEF T
  <2>3. QED
    BY <2>2
<1>2. ASSUME NEW S \in SUBSET D PROVE SumOver(f, S) = Cardinality(Parts(S))
  <2>1. {part[x] : x \in S} = {{x} \X (1 .. f[x]) : x \in S}
    OBVIOUS
  <2>2. QED
    BY <2>1 DEF SumOver
<1>3. ASSUME NEW x \in D, NEW y \in D, x # y PROVE part[x] \cap part[y] = {}
  BY <1>3
<1> HIDE DEF part
<1>4. ASSUME NEW S \in SUBSET D PROVE IsFiniteSet(Parts(S))
  <2>1. IsFiniteSet(S)
    BY FS_Subset
  <2>2. IsFiniteSet({part[x] : x \in S})
    BY <2>1, ImageFinite
  <2>3. QED
    BY <1>1, <2>2, FS_UNION
<1>5. ASSUME NEW S \in SUBSET D, NEW x \in D \ S
      PROVE  Cardinality(Parts(S \cup {x})) = Cardinality(Parts(S)) + f[x]
  <2> DEFINE A == Parts(S)
             B == part[x]
  <2>1. Parts(S \cup {x}) = A \cup B
    OBVIOUS
  <2>2. A \cap B = {}
    BY <1>3
  <2>3. /\ IsFiniteSet(A) /\ Cardinality(A) \in Nat
        /\ IsFiniteSet(B) /\ Cardinality(B) = f[x] /\ f[x] \in Nat
    BY <1>1, <1>4, FS_CardinalityType
  <2> HIDE DEF A, B, Parts
  <2>4. Cardinality(A \cup B) = Cardinality(A) + Cardinality(B) - Cardinality(A \cap B)
    BY <2>3, FS_Union
  <2>5. Cardinality(A \cap B) = 0
    BY <2>2, FS_EmptySet
  <2>6. Cardinality(A \cup B) = Cardinality(A) + f[x]
    BY <2>3, <2>4, <2>5
  <2>7. QED
    BY <2>1, <2>6 DEF A
<1>6. Parts({}) = {}
  OBVIOUS
<1>7. \A S \in SUBSET D : Cardinality(Parts(S)) \in Nat
  BY <1>4, FS_CardinalityType
<1> HIDE DEF Parts
<1>8. SumOver(f, {}) = 0
  BY <1>2, <1>6, FS_EmptySet
<1>9. QED
  BY <1>2, <1>5, <1>7, <1>8

-----------------------------------------------------------------------------
(* The invariant.                                                          *)

Handles == [version : 0 .. MaxVersion, index : 0 .. MaxVersion]
Streams == [at : {"new", "loaded", "head", "released"}, left : Nat]

\* Types of all variables; an actor that has opened nothing yet has no target.
TypeOK ==
  /\ version \in [Files -> 1 .. MaxVersion]
  /\ cache \in [Files -> 0 .. MaxVersion]
  /\ used \in Nat
  /\ split \in 1 .. MaxWorkers
  /\ scan \in Seq(Files) /\ plan \in Seq(Units)
  /\ pc \in [Actors -> {"idle", "cached", "parse", "store", "scanned", "merge"}]
  /\ target \in [Actors -> Files \cup {CHOOSE f \in Files : TRUE}]
  /\ handle \in [Actors -> Handles]
  /\ rs \in [Actors -> [Files -> Handles]]
  /\ refs \in [Workers -> [Files -> Int]]
  /\ unit \in [Workers -> Units]
  /\ str \in [Workers -> Seq(Streams)]
  /\ \A w \in Workers : Len(str[w]) = Len(unit[w])
  /\ failed \in BOOLEAN

Opening(a) == pc[a] \in {"cached", "parse", "store"}

(* The scanner has the one file open that it has just scanned.             *)
ScannerRole ==
  /\ pc[Scanner] # "merge" /\ (pc[Scanner] # "idle" => scan # << >>)
  /\ \A f \in Files : IsOpen(Scanner, f) <=> (pc[Scanner] = "scanned" /\ f = target[Scanner])

(* What an actor is opening is a file, and what it has parsed is that file *)
(* as it was then.                                                         *)
Targets ==
  \A a \in Actors :
    /\ pc[a] # "idle" /\ pc[a] # "merge" => target[a] \in Files
    /\ pc[a] = "store" =>
         handle[a].version \in 1 .. MaxVersion /\ handle[a].index = handle[a].version

(* A worker opens a file that its unit still needs and that is not open.   *)
WorkerRole ==
  \A w \in Workers :
    /\ pc[w] # "scanned"
    /\ pc[w] = "idle" => unit[w] = << >> /\ str[w] = << >>
    /\ Opening(w) => target[w] \in Needed(w) /\ ~ IsOpen(w, target[w])

Roles == ScannerRole /\ Targets /\ WorkerRole

\* The streams that have not released a file yet.
Users(w, f) == {i \in DOMAIN str[w] : FileOf(w, i) = f /\ str[w][i].at # "released"}

\* fileSet.refs is their number.
RefsCounted == \A w \in Workers, f \in Files : refs[w][f] = Cardinality(Users(w, f))

HeldOpen ==
  \A w \in Workers, f \in Files :
    /\ f \in Begun(w) /\ f \in Needed(w) => IsOpen(w, f)
    /\ IsOpen(w, f) => f \in Needed(w)

OpenFiles == {x \in Actors \X Files : IsOpen(x[1], x[2])}
Storing == {a \in Actors : pc[a] = "store"}

FdsCounted == fds = Cardinality(OpenFiles) + Cardinality(Storing)

IInv == TypeOK /\ Roles /\ RefsCounted /\ HeldOpen /\ FdsCounted /\ CacheSound
-----------------------------------------------------------------------------
(* The constants, and sequences.                                           *)

LEMMA Numbers ==
  /\ MaxVersion \in Nat /\ 1 <= MaxVersion
  /\ MaxWorkers \in Nat /\ 1 <= MaxWorkers
  /\ Budget \in Nat
  /\ IsFiniteSet(Files) /\ IsFiniteSet(Actors)
  /\ Scanner \in Actors /\ Scanner \notin Workers /\ Workers \subseteq Actors
  /\ \A a \in Actors : a # Scanner => a \in Workers
<1>1. MaxVersion \in Nat /\ 1 <= MaxVersion /\ MaxWorkers \in Nat /\ 1 <= MaxWorkers
      /\ Budget \in Nat /\ IsFiniteSet(Files)
  BY ConstantsAssumption
<1>2. IsFiniteSet(Actors)
  <2>1. IsFiniteSet(Workers)
    BY <1>1, FS_Interval DEF Workers
  <2>2. Actors = Workers \cup {Scanner}
    BY DEF Actors
  <2>3. QED
    BY <2>1, <2>2, FS_AddElement
<1>3. Scanner \notin Workers
  BY DEF Scanner, Workers
<1>4. QED
  BY <1>1, <1>2, <1>3 DEF Actors

LEMMA IsSeq ==
  ASSUME NEW S, NEW n \in Nat, NEW f \in [1 .. n -> S]
  PROVE  f \in Seq(S) /\ Len(f) = n
<1>1. f \in Seq(S)
  BY SeqDef
<1>2. DOMAIN f = 1 .. n /\ DOMAIN f = 1 .. Len(f) /\ Len(f) \in Nat
  BY <1>1, LenProperties
<1>3. QED
  BY <1>1, <1>2

(* What FlattenSeq computes exists, whatever it is given.                  *)
LEMMA FlattenExists ==
  ASSUME NEW S, NEW ss \in Seq(S), NEW n \in Nat
  PROVE  \E g : g = [i \in 1 .. n |-> IF i = 1 THEN ss[i] ELSE g[i-1] \o ss[i]]
<1> DEFINE Is(g, m) == g = [i \in 1 .. m |-> IF i = 1 THEN ss[i] ELSE g[i-1] \o ss[i]]
           N == {m \in Nat : \E g : Is(g, m)}
<1>1. 0 \in N
  <2>1. Is([i \in 1 .. 0 |-> << >>], 0)
    OBVIOUS
  <2>2. QED
    BY <2>1
<1>2. ASSUME NEW m \in N \cap Nat PROVE m + 1 \in N
  <2>1. PICK g : Is(g, m)
    OBVIOUS
  <2> DEFINE h == [i \in 1 .. m + 1 |-> IF i \in 1 .. m THEN g[i]
                                        ELSE IF i = 1 THEN ss[i] ELSE g[i-1] \o ss[i]]
  <2>2. ASSUME NEW i \in 1 .. m + 1
        PROVE  h[i] = IF i = 1 THEN ss[i] ELSE h[i-1] \o ss[i]
    <3>1. CASE i = 1
      BY <2>1, <3>1
    <3>2. CASE i # 1
      <4>1. i - 1 \in 1 .. m
        BY <3>2
      <4>2. h[i-1] = g[i-1]
        BY <4>1
      <4>3. h[i] = g[i-1] \o ss[i]
        BY <2>1, <3>2, <4>1
      <4>4. QED
        BY <3>2, <4>2, <4>3
    <3>3. QED
      BY <3>1, <3>2
  <2>3. Is(h, m + 1)
    BY <2>2
  <2>4. QED
    <3> HIDE DEF h, Is
    <3> QED BY <2>3
<1>3. Nat \subseteq N
  <2> HIDE DEF N
  <2> QED BY <1>1, <1>2, SetInduction
<1>4. QED
  BY <1>3

(* A flattened sequence of sequences is a sequence of their elements.      *)
LEMMA FlattenType ==
  ASSUME NEW S, NEW ss \in Seq(Seq(S))
  PROVE  FlattenSeq(ss) \in Seq(S)
<1> DEFINE Is(g) == g = [i \in 1 .. Len(ss) |-> IF i = 1 THEN ss[i] ELSE g[i-1] \o ss[i]]
           flat == CHOOSE g : Is(g)
<1>1. CASE Len(ss) = 0
  BY <1>1, EmptySeq DEF FlattenSeq
<1>2. CASE Len(ss) # 0
  <2>1. Len(ss) \in Nat \ {0}
    BY <1>2, LenProperties
  <2>2. FlattenSeq(ss) = flat[Len(ss)]
    BY <1>2 DEF FlattenSeq
  <2>3. \E g : Is(g)
    BY <2>1, FlattenExists
  <2>4. Is(flat)
    <3> HIDE DEF Is
    <3> QED BY <2>3
  <2> HIDE DEF flat
  <2> DEFINE N == {n \in Nat : n + 1 <= Len(ss) => flat[n + 1] \in Seq(S)}
  <2>5. 0 \in N
    BY <2>1, <2>4, ElementOfSeq
  <2>6. ASSUME NEW n \in N \cap Nat PROVE n + 1 \in N
    <3>1. SUFFICES ASSUME n + 2 <= Len(ss) PROVE flat[n + 2] \in Seq(S)
      OBVIOUS
    <3>2. flat[n + 1] \in Seq(S) /\ n + 2 \in 1 .. Len(ss) /\ n + 2 # 1 /\ (n + 2) - 1 = n + 1
      BY <2>1, <3>1
    <3>3. ss[n + 2] \in Seq(S)
      BY <3>2, ElementOfSeq
    <3>4. flat[n + 2] = flat[n + 1] \o ss[n + 2]
      BY <2>4, <3>2
    <3>5. QED
      BY <3>2, <3>3, <3>4, ConcatProperties
  <2>7. Nat \subseteq N
    <3> HIDE DEF N
    <3> QED BY <2>5, <2>6, SetInduction
  <2>8. PICK n \in Nat : n + 1 = Len(ss)
    <3>1. Len(ss) - 1 \in Nat /\ (Len(ss) - 1) + 1 = Len(ss)
      BY <2>1
    <3>2. QED
      BY <3>1
  <2>9. flat[n + 1] \in Seq(S)
    BY <2>1, <2>7, <2>8
  <2>10. QED
    BY <2>2, <2>8, <2>9
<1>3. QED
  BY <1>1, <1>2

LEMMA SetToSeqType ==
  ASSUME NEW S, IsFiniteSet(S)
  PROVE  SetToSeq(S) \in Seq(S)
<1>1. Cardinality(S) \in Nat /\ ExistsBijection(1 .. Cardinality(S), S)
  BY FS_CardinalityType
<1>2. PICK f \in [1 .. Cardinality(S) -> S] :
        \A a, b \in 1 .. Cardinality(S) : f[a] = f[b] => a = b
  BY <1>1 DEF ExistsBijection, Bijection, Injection, IsInjective
<1>3. IsInjective(f)
  BY <1>2 DEF IsInjective
<1>4. SetToSeq(S) \in [1 .. Cardinality(S) -> S]
  BY <1>3 DEF SetToSeq
<1>5. QED
  BY <1>1, <1>4, IsSeq
-----------------------------------------------------------------------------
(* Types.                                                                  *)

LEMMA TypeInit ==
  ASSUME Init
  PROVE  TypeOK
<1>1. PICK sh \in Shards : plan = UnitsOf(sh) /\ scan = ScanOf(sh, split)
  BY DEF Init
<1>2. sh \in Seq(Seq(Units))
  BY <1>1, ConstantsAssumption
<1>3. plan \in Seq(Units)
  BY <1>1, <1>2, FlattenType DEF UnitsOf
<1>4. \A r \in 1 .. Len(sh) : FilesOfRun(sh[r]) \in SUBSET Files
  <2>1. TAKE r \in 1 .. Len(sh)
  <2>2. sh[r] \in Seq(Units)
    BY <1>2, ElementOfSeq
  <2>3. \A u \in 1 .. Len(sh[r]) : sh[r][u] \in Seq([file : Files, blocks : Nat])
    BY <2>2, ElementOfSeq DEF Units
  <2>4. \A u \in 1 .. Len(sh[r]) : \A i \in 1 .. Len(sh[r][u]) : sh[r][u][i].file \in Files
    <3>1. TAKE u \in 1 .. Len(sh[r])
    <3>2. TAKE i \in 1 .. Len(sh[r][u])
    <3>3. sh[r][u][i] \in [file : Files, blocks : Nat]
      BY <2>3, ElementOfSeq
    <3>4. QED
      BY <3>3
  <2>5. QED
    BY <2>4 DEF FilesOfRun
<1> DEFINE lists == [r \in 1 .. Len(sh) |-> SetToSeq(FilesOfRun(sh[r]))]
<1>5. \A r \in 1 .. Len(sh) : SetToSeq(FilesOfRun(sh[r])) \in Seq(Files)
  <2>1. TAKE r \in 1 .. Len(sh)
  <2>2. FilesOfRun(sh[r]) \in SUBSET Files /\ IsFiniteSet(FilesOfRun(sh[r]))
    BY <1>4, Numbers, FS_Subset
  <2>3. SetToSeq(FilesOfRun(sh[r])) \in Seq(FilesOfRun(sh[r]))
    BY <2>2, SetToSeqType
  <2>4. QED
    BY <2>2, <2>3, SeqMonotonic
<1>6. Len(sh) \in Nat
  BY <1>2, LenProperties
<1>7. lists \in Seq(Seq(Files))
  BY <1>5, <1>6, IsSeq
<1>8. FlattenSeq(lists) \in Seq(Files) /\ SetToSeq(Files) \in Seq(Files)
  BY <1>7, FlattenType, SetToSeqType, Numbers
<1>9. scan \in Seq(Files)
  <2> HIDE DEF lists
  <2>1. SetToSeq(Files) \o FlattenSeq(lists) \in Seq(Files)
    BY <1>8, ConcatProperties
  <2>2. scan = IF split = 1 THEN SetToSeq(Files) ELSE SetToSeq(Files) \o FlattenSeq(lists)
    BY <1>1 DEF ScanOf, lists
  <2>3. QED
    BY <1>8, <2>1, <2>2
<1>10. << >> \in Units /\ << >> \in Seq(Streams) /\ Len(<< >>) = 0
  BY EmptySeq DEF Units
<1>11. NoHandle \in Handles
  BY Numbers DEF NoHandle, NoVersion, Handles
<1>12. /\ version \in [Files -> 1 .. MaxVersion] /\ cache \in [Files -> 0 .. MaxVersion]
       /\ used \in Nat /\ split \in 1 .. MaxWorkers /\ failed \in BOOLEAN
       /\ pc \in [Actors -> {"idle", "cached", "parse", "store", "scanned", "merge"}]
  <2>1. version = [f \in Files |-> 1] /\ cache = [f \in Files |-> 0]
    BY DEF Init, NoVersion
  <2>2. 1 \in 1 .. MaxVersion /\ 0 \in 0 .. MaxVersion
    BY Numbers
  <2>3. version \in [Files -> 1 .. MaxVersion] /\ cache \in [Files -> 0 .. MaxVersion]
    BY <2>1, <2>2
  <2>4. used \in Nat /\ split \in 1 .. MaxWorkers /\ failed \in BOOLEAN
    BY DEF Init
  <2>5. pc \in [Actors -> {"idle", "cached", "parse", "store", "scanned", "merge"}]
    BY DEF Init
  <2>6. QED
    BY <2>3, <2>4, <2>5
<1>13. /\ handle \in [Actors -> Handles]
       /\ rs \in [Actors -> [Files -> Handles]]
       /\ refs \in [Workers -> [Files -> Int]]
  BY <1>11 DEF Init
<1>14. /\ target \in [Actors -> Files \cup {CHOOSE f \in Files : TRUE}]
       /\ unit \in [Workers -> Units] /\ str \in [Workers -> Seq(Streams)]
       /\ \A w \in Workers : Len(str[w]) = Len(unit[w])
  BY <1>10 DEF Init
<1>15. QED
  BY <1>3, <1>9, <1>12, <1>13, <1>14 DEF TypeOK

(* A stream of a worker.                                                   *)
LEMMA StreamTypes ==
  ASSUME TypeOK, NEW w \in Workers, NEW i \in DOMAIN str[w]
  PROVE  /\ i \in 1 .. Len(str[w]) /\ i \in 1 .. Len(unit[w]) /\ Len(str[w]) \in Nat
         /\ str[w][i] \in Streams /\ FileOf(w, i) \in Files
<1>1. str[w] \in Seq(Streams) /\ unit[w] \in Seq([file : Files, blocks : Nat])
      /\ Len(str[w]) = Len(unit[w])
  BY DEF TypeOK, Units
<1>2. i \in 1 .. Len(str[w]) /\ Len(str[w]) \in Nat
  BY <1>1, LenProperties
<1>3. str[w][i] \in Streams /\ unit[w][i] \in [file : Files, blocks : Nat]
  BY <1>1, <1>2, ElementOfSeq
<1>4. QED
  BY <1>1, <1>2, <1>3 DEF FileOf

LEMMA UnitTypes ==
  ASSUME NEW u \in Units
  PROVE  Len(u) \in Nat /\ \A i \in 1 .. Len(u) : u[i].file \in Files /\ u[i].blocks \in Nat
<1>1. u \in Seq([file : Files, blocks : Nat])
  BY DEF Units
<1>2. Len(u) \in Nat
  BY <1>1, LenProperties
<1>3. \A i \in 1 .. Len(u) : u[i] \in [file : Files, blocks : Nat]
  BY <1>1, ElementOfSeq
<1>4. QED
  BY <1>2, <1>3

(* One stream moves on; the unit's other streams stay as they are.         *)
Moves(w, i, at) ==
  /\ i \in DOMAIN str[w]
  /\ \E n \in Nat : str' = [str EXCEPT ![w] = [str[w] EXCEPT ![i] = [at |-> at, left |-> n]]]

LEMMA MovesType ==
  ASSUME TypeOK, NEW w \in Workers, NEW i, NEW at \in {"new", "loaded", "head", "released"},
         Moves(w, i, at)
  PROVE  /\ str' \in [Workers -> Seq(Streams)]
         /\ Len(str'[w]) = Len(str[w]) /\ DOMAIN str'[w] = DOMAIN str[w]
         /\ str'[w][i].at = at
         /\ \A j \in DOMAIN str[w] : j # i => str'[w][j] = str[w][j]
         /\ \A v \in Workers : v # w => str'[v] = str[v]
<1>1. PICK n \in Nat : str' = [str EXCEPT ![w] = [str[w] EXCEPT ![i] = [at |-> at, left |-> n]]]
  BY DEF Moves
<1> DEFINE x == [at |-> at, left |-> n]
           s == [str[w] EXCEPT ![i] = x]
<1>2. str[w] \in Seq(Streams) /\ x \in Streams /\ i \in 1 .. Len(str[w])
  BY StreamTypes DEF Moves, TypeOK, Streams
<1>3. x.at = at
  OBVIOUS
<1> HIDE DEF x
<1>4. s \in Seq(Streams) /\ Len(s) = Len(str[w])
      /\ \A j \in 1 .. Len(str[w]) : s[j] = IF j = i THEN x ELSE str[w][j]
  BY <1>2, ExceptSeq
<1>5. DOMAIN s = 1 .. Len(str[w]) /\ DOMAIN str[w] = 1 .. Len(str[w])
  BY <1>2, <1>4, LenProperties
<1>6. str' = [str EXCEPT ![w] = s] /\ str \in [Workers -> Seq(Streams)]
  BY <1>1 DEF x, TypeOK
<1> HIDE DEF s
<1>7. str'[w] = s /\ \A v \in Workers : v # w => str'[v] = str[v]
  BY <1>6
<1>8. str' \in [Workers -> Seq(Streams)]
  BY <1>4, <1>6
<1>9. QED
  BY <1>2, <1>3, <1>4, <1>5, <1>7, <1>8

LEMMA StreamMoves ==
  ASSUME TypeOK, NEW w \in Workers, NEW i \in DOMAIN str[w]
  PROVE  /\ LoadIndex(w, i) => Moves(w, i, "loaded")
         /\ LoadNext(w, i) => Moves(w, i, "head")
         /\ EndStream(w, i) => Moves(w, i, "released")
<1>1. str[w][i] \in Streams
  BY StreamTypes
<1>2. str[w][i].left \in Nat /\ (str[w][i].left > 0 => str[w][i].left - 1 \in Nat)
  BY <1>1 DEF Streams
<1>3. \A a \in {"loaded", "released"} :
        [str[w][i] EXCEPT !.at = a] = [at |-> a, left |-> str[w][i].left]
  BY <1>1 DEF Streams
<1>4. \A a \in {"loaded", "released"} :
        str' = [str EXCEPT ![w][i].at = a] => Moves(w, i, a)
  <2>1. TAKE a \in {"loaded", "released"}
  <2>2. HAVE str' = [str EXCEPT ![w][i].at = a]
  <2>3. str' = [str EXCEPT ![w] = [str[w] EXCEPT ![i] = [str[w][i] EXCEPT !.at = a]]]
    BY <2>2
  <2>4. QED
    BY <1>2, <1>3, <2>3 DEF Moves
<1>5. LoadNext(w, i) => Moves(w, i, "head")
  <2>1. HAVE LoadNext(w, i)
  <2>2. /\ str[w][i].left - 1 \in Nat
        /\ str' = [str EXCEPT ![w] = [str[w] EXCEPT ![i] = [at |-> "head", left |-> str[w][i].left - 1]]]
    BY <1>2, <2>1 DEF LoadNext
  <2>3. QED
    BY <2>2 DEF Moves
<1>6. QED
  BY <1>4, <1>5 DEF LoadIndex, EndStream
(* A step that merges takes a unit, moves a stream, or ends the unit.      *)
LEMMA ConsumeType ==
  ASSUME TypeOK, NEW w \in Workers, Consume(w)
  PROVE  /\ str' \in [Workers -> Seq(Streams)]
         /\ DOMAIN str'[w] = DOMAIN str[w] /\ Len(str'[w]) = Len(str[w])
         /\ \A i \in DOMAIN str[w] :
              \/ str'[w][i] = str[w][i]
              \/ str[w][i].at = "head" /\ str'[w][i].at = "loaded"
         /\ \A v \in Workers : v # w => str'[v] = str[v]
<1>1. PICK S \in SUBSET {i \in DOMAIN str[w] : str[w][i].at = "head"} :
        str' = [str EXCEPT ![w] = [i \in DOMAIN str[w] |->
                  IF i \in S THEN [str[w][i] EXCEPT !.at = "loaded"] ELSE str[w][i]]]
  BY DEF Consume
<1> DEFINE s == [i \in DOMAIN str[w] |->
                  IF i \in S THEN [str[w][i] EXCEPT !.at = "loaded"] ELSE str[w][i]]
<1>2. str \in [Workers -> Seq(Streams)] /\ str[w] \in Seq(Streams)
  BY DEF TypeOK
<1>3. PICK n \in Nat : Len(str[w]) = n /\ DOMAIN str[w] = 1 .. n
  BY <1>2, LenProperties
<1>4. \A i \in 1 .. n : str[w][i] \in Streams
  BY <1>2, <1>3, ElementOfSeq
<1>5. \A i \in 1 .. n : s[i] \in Streams /\ (i \in S => s[i].at = "loaded")
                       /\ (i \notin S => s[i] = str[w][i])
  BY <1>3, <1>4 DEF Streams
<1>6. s \in [1 .. n -> Streams]
  BY <1>3, <1>5
<1>7. s \in Seq(Streams) /\ Len(s) = n /\ DOMAIN s = 1 .. n
  BY <1>6, IsSeq
<1>8. str' = [str EXCEPT ![w] = s]
  BY <1>1
<1> HIDE DEF s
<1>9. str'[w] = s /\ (\A v \in Workers : v # w => str'[v] = str[v])
      /\ str' \in [Workers -> Seq(Streams)]
  BY <1>2, <1>7, <1>8
<1>10. \A i \in S : str[w][i].at = "head"
  OBVIOUS
<1>11. QED
  BY <1>3, <1>5, <1>7, <1>9, <1>10

LEMMA TakeUnitType ==
  ASSUME TypeOK, NEW w \in Workers, TakeUnit(w)
  PROVE  LET u == Head(plan) IN
         /\ u \in Units /\ unit' = [unit EXCEPT ![w] = u]
         /\ plan' \in Seq(Units)
         /\ str' \in [Workers -> Seq(Streams)]
         /\ Len(str'[w]) = Len(u) /\ DOMAIN str'[w] = 1 .. Len(u)
         /\ \A i \in 1 .. Len(u) : str'[w][i].at = "new"
         /\ \A v \in Workers : v # w => str'[v] = str[v]
<1> DEFINE u == Head(plan)
           s == [i \in 1 .. Len(u) |-> [at |-> "new", left |-> u[i].blocks]]
<1>1. u \in Units /\ plan' \in Seq(Units)
  BY HeadTailProperties DEF TypeOK, TakeUnit
<1>2. unit' = [unit EXCEPT ![w] = u] /\ str' = [str EXCEPT ![w] = s]
  BY DEF TakeUnit
<1> HIDE DEF u
<1>3. Len(u) \in Nat /\ \A i \in 1 .. Len(u) : u[i].blocks \in Nat
  BY <1>1, UnitTypes
<1>4. s \in [1 .. Len(u) -> Streams] /\ \A i \in 1 .. Len(u) : s[i].at = "new"
  BY <1>3 DEF Streams
<1>5. s \in Seq(Streams) /\ Len(s) = Len(u) /\ DOMAIN s = 1 .. Len(u)
  BY <1>3, <1>4, IsSeq
<1> HIDE DEF s
<1>6. str \in [Workers -> Seq(Streams)]
  BY DEF TypeOK
<1>7. str'[w] = s /\ (\A v \in Workers : v # w => str'[v] = str[v])
      /\ str' \in [Workers -> Seq(Streams)]
  BY <1>2, <1>5, <1>6
<1>8. QED
  BY <1>1, <1>2, <1>4, <1>5, <1>7 DEF u

LEMMA CountType ==
  ASSUME NEW n \in Nat, NEW S \in SUBSET (1 .. n)
  PROVE  IsFiniteSet(S) /\ Cardinality(S) \in Nat
<1>1. IsFiniteSet(1 .. n)
  BY FS_Interval
<1>2. QED
  BY <1>1, FS_Subset, FS_CardinalityType

LEMMA TypeNext ==
  ASSUME TypeOK, Roles, Next
  PROVE  TypeOK'
<1> USE DEF TypeOK
<1>t. \A w \in Workers : << >> \in Units /\ << >> \in Seq(Streams) /\ Len(<< >>) = 0
  BY EmptySeq DEF Units
<1>h. NoHandle \in Handles /\ NoVersion = 0
  BY Numbers DEF NoHandle, NoVersion, Handles
<1>a. Scanner \in Actors /\ Workers \subseteq Actors
  BY Numbers
<1>v. /\ refs \in [Workers -> [Files -> Int]] /\ rs \in [Actors -> [Files -> Handles]]
      /\ cache \in [Files -> 0 .. MaxVersion] /\ used \in Nat
  OBVIOUS
<1>1. ASSUME NEW f \in Files, ChangeFile(f) PROVE TypeOK'
  <2>1. version' \in [Files -> 1 .. MaxVersion]
    BY <1>1, Numbers DEF ChangeFile
  <2>2. QED
    BY <1>1, <2>1 DEF ChangeFile
<1>2. CASE ScanFile
  <2>1. Head(scan) \in Files
    BY <1>2, HeadTailProperties DEF ScanFile
  <2>2. QED
    BY <1>2, <2>1, <1>a DEF ScanFile, LookUp, files
<1>3. CASE ScanClose
  <2>1. scan' \in Seq(Files)
    BY <1>3, HeadTailProperties DEF ScanClose, Roles, ScannerRole
  <2>2. QED
    BY <1>3, <2>1, <1>a, <1>h DEF ScanClose, files
<1>4. ASSUME NEW a \in Actors, OpenWithIndex(a) PROVE TypeOK'
  <2>1. target[a] \in Files
    BY <1>4 DEF OpenWithIndex, Roles, Targets
  <2>2. [version |-> version[target[a]], index |-> cache[target[a]]] \in Handles
    BY <2>1 DEF Handles
  <2>3. rs' \in [Actors -> [Files -> Handles]]
    BY <1>4, <2>2 DEF OpenWithIndex, Opened
  <2>4. QED
    BY <1>4, <2>3 DEF OpenWithIndex, Opened, files
<1>5. ASSUME NEW a \in Actors, Fails(a) PROVE TypeOK'
  <2>1. rs' \in [Actors -> [Files -> Handles]] /\ failed' \in BOOLEAN
        /\ pc' \in [Actors -> {"idle", "cached", "parse", "store", "scanned", "merge"}]
    BY <1>5, <1>h DEF Fails
  <2>2. /\ refs' \in [Workers -> [Files -> Int]]
        /\ unit' \in [Workers -> Units] /\ str' \in [Workers -> Seq(Streams)]
        /\ \A w \in Workers : Len(str'[w]) = Len(unit'[w])
    <3>1. CASE UNCHANGED <<refs, unit, str>>
      BY <3>1
    <3>2. CASE a # Scanner
      <4>1. a \in Workers
        BY <3>2, Numbers
      <4>2. /\ refs' = [refs EXCEPT ![a] = [f \in Files |-> 0]]
            /\ unit' = [unit EXCEPT ![a] = << >>]
            /\ str' = [str EXCEPT ![a] = << >>]
        BY <1>5, <3>2 DEF Fails
      <4>3. refs' \in [Workers -> [Files -> Int]]
        <5> HIDE DEF TypeOK
        <5>1. [f \in Files |-> 0] \in [Files -> Int]
          OBVIOUS
        <5>2. QED
          BY <1>v, <4>1, <4>2, <5>1
      <4>4. QED
        BY <1>t, <4>1, <4>2, <4>3
    <3>3. QED
      BY <1>5, <3>1, <3>2 DEF Fails
  <2>3. QED
    BY <1>5, <2>1, <2>2 DEF Fails, files
<1>6. ASSUME NEW a \in Actors, OpenAndParse(a) PROVE TypeOK'
  <2>1. target[a] \in Files
    BY <1>6 DEF OpenAndParse, Roles, Targets
  <2>2. [version |-> version[target[a]], index |-> version[target[a]]] \in Handles
    BY <2>1 DEF Handles
  <2>3. QED
    BY <1>6, <2>2 DEF OpenAndParse, files
<1>7. ASSUME NEW a \in Actors, StoreIndex(a) PROVE TypeOK'
  <2>1. /\ target[a] \in Files /\ handle[a].version \in 1 .. MaxVersion
        /\ handle[a].index = handle[a].version
    BY <1>7 DEF StoreIndex, Roles, Targets
  <2>2. Size[target[a]][handle[a].index] \in Nat
    BY <2>1, ConstantsAssumption
  <2>3. cache' \in [Files -> 0 .. MaxVersion] /\ used' \in Nat
    <3>1. handle[a].index \in 0 .. MaxVersion
      BY <2>1, Numbers
    <3>2. CASE UNCHANGED <<cache, used>>
      BY <3>2
    <3>3. CASE /\ cache' = [cache EXCEPT ![target[a]] = handle[a].index]
               /\ used' = used + Size[target[a]][handle[a].index]
      <4> HIDE DEF TypeOK
      <4>1. cache' \in [Files -> 0 .. MaxVersion]
        BY <1>v, <3>1, <3>3
      <4>2. used' \in Nat
        BY <1>v, <2>2, <3>3
      <4>3. QED
        BY <4>1, <4>2
    <3>4. QED
      BY <1>7, <3>2, <3>3 DEF StoreIndex
  <2>4. rs' \in [Actors -> [Files -> Handles]] /\ handle' \in [Actors -> Handles]
        /\ pc' \in [Actors -> {"idle", "cached", "parse", "store", "scanned", "merge"}]
    BY <1>7, <1>h DEF StoreIndex, Opened
  <2>5. QED
    BY <1>7, <2>3, <2>4 DEF StoreIndex
<1>8. ASSUME NEW w \in Workers, TakeUnit(w) PROVE TypeOK'
  <2> DEFINE u == Head(plan)
  <2>1. /\ u \in Units /\ unit' = [unit EXCEPT ![w] = u]
        /\ plan' \in Seq(Units)
        /\ str' \in [Workers -> Seq(Streams)]
        /\ Len(str'[w]) = Len(u)
        /\ \A v \in Workers : v # w => str'[v] = str[v]
    BY <1>8, TakeUnitType
  <2>2. \A f \in Files : refs[w][f] + Cardinality(StreamsOn(u, f)) \in Int
    <3>1. TAKE f \in Files
    <3>2. Len(u) \in Nat
      BY <2>1, UnitTypes
    <3>3. Cardinality(StreamsOn(u, f)) \in Nat
      BY <3>2, CountType DEF StreamsOn
    <3>4. QED
      BY <3>3
  <2>3. refs' = [refs EXCEPT ![w] = [f \in Files |-> refs[w][f] + Cardinality(StreamsOn(u, f))]]
    BY <1>8 DEF TakeUnit
  <2> HIDE DEF u
  <2>4. refs' \in [Workers -> [Files -> Int]]
    BY <2>2, <2>3
  <2>5. \A v \in Workers : Len(str'[v]) = Len(unit'[v])
    BY <2>1
  <2>6. QED
    BY <1>8, <1>a, <2>1, <2>4, <2>5 DEF TakeUnit, files
<1>9. ASSUME NEW w \in Workers, NEW i \in DOMAIN str[w], GetFile(w, i) PROVE TypeOK'
  <2>1. FileOf(w, i) \in Files
    BY StreamTypes
  <2>2. QED
    BY <1>9, <2>1, <1>a DEF GetFile, LookUp, files
<1>10. ASSUME NEW w \in Workers, NEW i \in DOMAIN str[w],
              LoadIndex(w, i) \/ LoadNext(w, i) \/ EndStream(w, i)
       PROVE TypeOK'
  <2>1. str' \in [Workers -> Seq(Streams)] /\ (\A v \in Workers : Len(str'[v]) = Len(str[v]))
    BY <1>10, StreamMoves, MovesType
  <2>2. rs' \in [Actors -> [Files -> Handles]] /\ refs' \in [Workers -> [Files -> Int]]
    <3>1. CASE LoadIndex(w, i) \/ LoadNext(w, i)
      BY <3>1 DEF LoadIndex, LoadNext
    <3>2. CASE EndStream(w, i)
      <4>1. FileOf(w, i) \in Files
        BY StreamTypes
      <4>2. /\ refs' = [refs EXCEPT ![w][FileOf(w, i)] = refs[w][FileOf(w, i)] - 1]
            /\ rs' = rs \/ rs' = [rs EXCEPT ![w][FileOf(w, i)] = NoHandle]
        BY <3>2 DEF EndStream
      <4>3. refs[w][FileOf(w, i)] - 1 \in Int
        BY <4>1
      <4> HIDE DEF TypeOK
      <4>4. refs' \in [Workers -> [Files -> Int]]
        BY <1>v, <4>1, <4>2, <4>3
      <4>5. rs' \in [Actors -> [Files -> Handles]]
        <5>1. w \in Actors /\ NoHandle \in Handles
          BY <1>a, <1>h
        <5>2. CASE rs' = rs
          BY <1>v, <5>2
        <5>3. CASE rs' = [rs EXCEPT ![w][FileOf(w, i)] = NoHandle]
          BY <1>v, <4>1, <5>1, <5>3
        <5>4. QED
          BY <4>2, <5>2, <5>3
      <4>6. QED
        BY <4>4, <4>5
    <3>3. QED
      BY <1>10, <3>1, <3>2
  <2>3. QED
    BY <1>10, <2>1, <2>2 DEF LoadIndex, LoadNext, EndStream, files
<1>11. ASSUME NEW w \in Workers, Consume(w) PROVE TypeOK'
  <2>1. str' \in [Workers -> Seq(Streams)] /\ (\A v \in Workers : Len(str'[v]) = Len(str[v]))
    BY <1>11, ConsumeType
  <2>2. QED
    BY <1>11, <2>1 DEF Consume, files
<1>12. ASSUME NEW w \in Workers, UnitDone(w) PROVE TypeOK'
  BY <1>12, <1>t, <1>a DEF UnitDone, files
<1>13. QED
  BY <1>1, <1>2, <1>3, <1>4, <1>5, <1>6, <1>7, <1>8, <1>9, <1>10, <1>11, <1>12,
     <1>a
  DEF Next, OpenWithIndexFails, OpenAndParseFails, ReadFails
-----------------------------------------------------------------------------
(* The streams of a unit.                                                  *)

LEMMA SameStreams ==
  ASSUME NEW w, unit'[w] = unit[w], DOMAIN str'[w] = DOMAIN str[w],
         \A i \in DOMAIN str[w] : /\ str'[w][i].at = "new" <=> str[w][i].at = "new"
                                  /\ str'[w][i].at = "released" <=> str[w][i].at = "released"
  PROVE  Begun(w)' = Begun(w) /\ Needed(w)' = Needed(w) /\ \A f : Users(w, f)' = Users(w, f)
  BY DEF Begun, Needed, Users, FileOf

LEMMA NoStreams ==
  ASSUME NEW w, str[w] = << >>
  PROVE  Begun(w) = {} /\ Needed(w) = {} /\ \A f : Users(w, f) = {}
<1>1. DOMAIN str[w] = {}
  OBVIOUS
<1>2. QED
  BY <1>1 DEF Begun, Needed, Users

LEMMA NeededIsUsed ==
  ASSUME NEW w, NEW f
  PROVE  f \in Needed(w) <=> Users(w, f) # {}
  BY DEF Needed, Users

LEMMA UsersFinite ==
  ASSUME TypeOK, NEW w \in Workers, NEW f
  PROVE  IsFiniteSet(Users(w, f)) /\ Cardinality(Users(w, f)) \in Nat
<1>1. Len(str[w]) \in Nat /\ DOMAIN str[w] = 1 .. Len(str[w])
  BY LenProperties DEF TypeOK
<1>2. QED
  BY <1>1, CountType DEF Users

\* What a step does to the streams of its unit.
LEMMA AfterLoad ==
  ASSUME TypeOK, NEW w \in Workers, NEW i, NEW at \in {"loaded", "head"}, Moves(w, i, at),
         str[w][i].at # "released", UNCHANGED unit
  PROVE  /\ Begun(w)' = Begun(w) \cup {FileOf(w, i)} /\ Needed(w)' = Needed(w)
         /\ \A f : Users(w, f)' = Users(w, f)
<1>1. /\ DOMAIN str'[w] = DOMAIN str[w] /\ str'[w][i].at = at
      /\ \A j \in DOMAIN str[w] : j # i => str'[w][j] = str[w][j]
      /\ i \in DOMAIN str[w]
  <2>1. i \in DOMAIN str[w]
    BY DEF Moves
  <2>2. at \in {"new", "loaded", "head", "released"}
    OBVIOUS
  <2>3. /\ DOMAIN str'[w] = DOMAIN str[w] /\ str'[w][i].at = at
        /\ \A j \in DOMAIN str[w] : j # i => str'[w][j] = str[w][j]
    BY <2>2, MovesType
  <2>4. QED
    BY <2>1, <2>3
<1>2. \A j \in DOMAIN str[w] : /\ str'[w][j].at # "released" <=> str[w][j].at # "released"
                               /\ str'[w][j].at # "new" <=> (str[w][j].at # "new" \/ j = i)
  BY <1>1
<1>3. \A j : FileOf(w, j)' = FileOf(w, j)
  BY DEF FileOf
<1>4. Begun(w)' = Begun(w) \cup {FileOf(w, i)}
  BY <1>1, <1>2, <1>3 DEF Begun
<1>5. QED
  BY <1>1, <1>2, <1>3, <1>4 DEF Needed, Users

LEMMA AfterEnd ==
  ASSUME TypeOK, NEW w \in Workers, NEW i, Moves(w, i, "released"),
         str[w][i].at = "loaded", UNCHANGED unit
  PROVE  /\ Begun(w)' = Begun(w)
         /\ \A f : Users(w, f)' = IF f = FileOf(w, i) THEN Users(w, f) \ {i} ELSE Users(w, f)
         /\ i \in Users(w, FileOf(w, i))
<1>1. /\ DOMAIN str'[w] = DOMAIN str[w] /\ str'[w][i].at = "released"
      /\ \A j \in DOMAIN str[w] : j # i => str'[w][j] = str[w][j]
      /\ i \in DOMAIN str[w]
  <2>1. i \in DOMAIN str[w]
    BY DEF Moves
  <2>2. "released" \in {"new", "loaded", "head", "released"}
    OBVIOUS
  <2>3. /\ DOMAIN str'[w] = DOMAIN str[w] /\ str'[w][i].at = "released"
        /\ \A j \in DOMAIN str[w] : j # i => str'[w][j] = str[w][j]
    BY <2>2, MovesType
  <2>4. QED
    BY <2>1, <2>3
<1>2. \A j \in DOMAIN str[w] : /\ str'[w][j].at # "new" <=> str[w][j].at # "new"
                               /\ str'[w][j].at # "released" <=> (str[w][j].at # "released" /\ j # i)
  BY <1>1
<1>3. \A j : FileOf(w, j)' = FileOf(w, j)
  BY DEF FileOf
<1>4. Begun(w)' = Begun(w)
  BY <1>1, <1>2, <1>3 DEF Begun
<1>5. QED
  BY <1>1, <1>2, <1>3, <1>4 DEF Users

LEMMA AfterTake ==
  ASSUME TypeOK, NEW w \in Workers, TakeUnit(w)
  PROVE  /\ Begun(w)' = {}
         /\ \A f : Users(w, f)' = StreamsOn(Head(plan), f)
<1> DEFINE u == Head(plan)
<1>1. /\ unit'[w] = u /\ DOMAIN str'[w] = 1 .. Len(u)
      /\ \A i \in 1 .. Len(u) : str'[w][i].at = "new"
  BY TakeUnitType DEF TypeOK
<1> HIDE DEF u
<1>2. Begun(w)' = {}
  BY <1>1 DEF Begun
<1>3. \A f : Users(w, f)' = StreamsOn(u, f)
  BY <1>1 DEF Users, StreamsOn, FileOf
<1>4. QED
  BY <1>2, <1>3 DEF u

(* A step of one actor, or of the file system, leaves the others' streams. *)
LEMMA OthersKeep ==
  ASSUME TypeOK, NEW w \in Workers, unit'[w] = unit[w], str'[w] = str[w]
  PROVE  Begun(w)' = Begun(w) /\ Needed(w)' = Needed(w) /\ \A f : Users(w, f)' = Users(w, f)
  BY SameStreams

LEMMA AfterConsume ==
  ASSUME TypeOK, NEW w \in Workers, Consume(w)
  PROVE  Begun(w)' = Begun(w) /\ Needed(w)' = Needed(w) /\ \A f : Users(w, f)' = Users(w, f)
<1>1. unit'[w] = unit[w]
  BY DEF Consume
<1>2. QED
  BY <1>1, ConsumeType, SameStreams

-----------------------------------------------------------------------------
(* Who does what.                                                          *)

(* A file is opened as it is on disk, with the index of that version.      *)
LEMMA OpensHandle ==
  ASSUME TypeOK, Roles, NEW a \in Actors, OpenWithIndex(a) \/ StoreIndex(a)
  PROVE  /\ target[a] \in Files
         /\ \E h \in Handles : /\ h # NoHandle /\ h.index = h.version
                               /\ rs' = [rs EXCEPT ![a][target[a]] = h]
<1>1. target[a] \in Files
  BY DEF OpenWithIndex, StoreIndex, Roles, Targets
<1>2. CASE OpenWithIndex(a)
  <2> DEFINE h == [version |-> version[target[a]], index |-> cache[target[a]]]
  <2>1. /\ version[target[a]] # 0 /\ version[target[a]] = cache[target[a]]
        /\ version[target[a]] \in 0 .. MaxVersion
    BY <1>1, <1>2 DEF OpenWithIndex, SameFile, TypeOK
  <2>2. h \in Handles /\ h # NoHandle /\ h.index = h.version
    BY <2>1 DEF Handles, NoHandle, NoVersion
  <2>3. rs' = [rs EXCEPT ![a][target[a]] = h]
    BY <1>2 DEF OpenWithIndex, Opened
  <2>4. QED
    BY <1>1, <2>2, <2>3
<1>3. CASE StoreIndex(a)
  <2>1. handle[a].version \in 1 .. MaxVersion /\ handle[a].index = handle[a].version
    BY <1>3 DEF StoreIndex, Roles, Targets
  <2>2. handle[a] \in Handles /\ handle[a] # NoHandle
    BY <2>1 DEF TypeOK, NoHandle, NoVersion
  <2>3. rs' = [rs EXCEPT ![a][target[a]] = handle[a]]
    BY <1>3 DEF StoreIndex, Opened
  <2>4. QED
    BY <1>1, <2>1, <2>2, <2>3
<1>4. QED
  BY <1>2, <1>3

LEMMA ScannerNext ==
  ASSUME TypeOK, Roles, Next
  PROVE  ScannerRole'
<1>r. ScannerRole /\ Targets
  BY DEF Roles
<1>n. /\ Scanner \in Actors /\ (\A w \in Workers : w # Scanner /\ w \in Actors)
      /\ (\A a \in Actors : a # Scanner => a \in Workers)
  BY Numbers
<1>t. /\ pc \in [Actors -> {"idle", "cached", "parse", "store", "scanned", "merge"}]
      /\ rs \in [Actors -> [Files -> Handles]] /\ DOMAIN target = Actors
      /\ version \in [Files -> 1 .. MaxVersion] /\ scan \in Seq(Files)
  BY DEF TypeOK
<1>1. CASE /\ pc'[Scanner] = pc[Scanner] /\ rs'[Scanner] = rs[Scanner]
           /\ target'[Scanner] = target[Scanner] /\ scan' = scan
  BY <1>r, <1>1 DEF ScannerRole, IsOpen
<1>2. ASSUME NEW f \in Files, ChangeFile(f) PROVE ScannerRole'
  BY <1>2, <1>1 DEF ChangeFile
<1>3. CASE ScanFile
  <2>1. /\ pc'[Scanner] \in {"cached", "parse"} /\ rs' = rs /\ scan' = scan /\ scan # << >>
        /\ pc[Scanner] = "idle"
    BY <1>3, <1>n, <1>t DEF ScanFile, LookUp
  <2>2. QED
    BY <1>r, <2>1 DEF ScannerRole, IsOpen
<1>4. CASE ScanClose
  <2>1. /\ rs' = [rs EXCEPT ![Scanner][target[Scanner]] = NoHandle]
        /\ pc'[Scanner] = "idle" /\ target' = target
    BY <1>4, <1>n, <1>t DEF ScanClose
  <2>2. \A f \in Files : rs'[Scanner][f] = NoHandle
    BY <1>4, <1>r, <1>n, <1>t, <2>1 DEF ScannerRole, IsOpen
  <2>3. QED
    BY <2>1, <2>2 DEF ScannerRole, IsOpen
<1>5. ASSUME NEW a \in Actors, OpenWithIndex(a) \/ StoreIndex(a) PROVE ScannerRole'
  <2>1. CASE a # Scanner
    <3>1. pc'[Scanner] = pc[Scanner] /\ rs'[Scanner] = rs[Scanner] /\ target' = target /\ scan' = scan
      BY <1>5, <2>1, <1>n, <1>t DEF OpenWithIndex, StoreIndex, Opened
    <3>2. QED
      BY <1>1, <3>1
  <2>2. CASE a = Scanner
    <3> DEFINE f == target[Scanner]
    <3>1. \E h : h # NoHandle /\ rs' = [rs EXCEPT ![Scanner][f] = h]
      BY <1>5, <2>2, OpensHandle
    <3>2. /\ pc[Scanner] \in {"cached", "store"} /\ pc'[Scanner] = "scanned"
          /\ target' = target /\ scan' = scan
      BY <1>5, <2>2, <1>n, <1>t DEF OpenWithIndex, StoreIndex, Opened
    <3>3. f \in Files
      BY <3>2, <1>n, <1>r DEF Targets
    <3>4. \A g \in Files : rs'[Scanner][g] # NoHandle <=> g = f
      BY <3>1, <3>2, <3>3, <1>r, <1>n, <1>t DEF ScannerRole, IsOpen
    <3>5. QED
      BY <3>2, <3>4, <1>r DEF ScannerRole, IsOpen
  <2>3. QED
    BY <2>1, <2>2
<1>6. ASSUME NEW a \in Actors, Fails(a) PROVE ScannerRole'
  <2>1. CASE a # Scanner
    <3>1. pc'[Scanner] = pc[Scanner] /\ rs'[Scanner] = rs[Scanner] /\ target' = target /\ scan' = scan
      BY <1>6, <2>1, <1>n, <1>t DEF Fails
    <3>2. QED
      BY <1>1, <3>1
  <2>2. CASE a = Scanner
    <3>1. pc'[Scanner] = "idle" /\ \A f \in Files : rs'[Scanner][f] = NoHandle
      BY <1>6, <2>2, <1>n, <1>t DEF Fails
    <3>2. QED
      BY <3>1 DEF ScannerRole, IsOpen
  <2>3. QED
    BY <2>1, <2>2
<1>7. ASSUME NEW a \in Actors, OpenAndParse(a) PROVE ScannerRole'
  <2>1. rs' = rs /\ scan' = scan /\ target' = target /\ pc[a] = "parse"
        /\ pc' = [pc EXCEPT ![a] = "store"]
    BY <1>7 DEF OpenAndParse
  <2>2. QED
    BY <2>1, <1>1, <1>r, <1>t, <1>n DEF ScannerRole, IsOpen
<1>8. ASSUME NEW w \in Workers,
             \/ TakeUnit(w) \/ Consume(w) \/ UnitDone(w)
             \/ \E i \in DOMAIN str[w] :
                  GetFile(w, i) \/ LoadIndex(w, i) \/ LoadNext(w, i) \/ EndStream(w, i)
      PROVE  ScannerRole'
  <2>1. /\ pc'[Scanner] = pc[Scanner] /\ rs'[Scanner] = rs[Scanner]
        /\ target'[Scanner] = target[Scanner] /\ scan' = scan
    BY <1>8, <1>n, <1>t DEF TakeUnit, Consume, UnitDone, GetFile, LoadIndex, LoadNext,
       EndStream, LookUp
  <2>2. QED
    BY <1>1, <2>1
<1>9. QED
  BY <1>2, <1>3, <1>4, <1>5, <1>6, <1>7, <1>8, <1>n
  DEF Next, OpenWithIndexFails, OpenAndParseFails, ReadFails

LEMMA TargetsNext ==
  ASSUME TypeOK, Roles, Next
  PROVE  Targets'
<1>r. Targets
  BY DEF Roles
<1>n. \A w \in Workers : w \in Actors
  BY Numbers
<1>t. /\ pc \in [Actors -> {"idle", "cached", "parse", "store", "scanned", "merge"}]
      /\ DOMAIN target = Actors /\ DOMAIN handle = Actors
      /\ version \in [Files -> 1 .. MaxVersion] /\ scan \in Seq(Files)
  BY DEF TypeOK
<1>1. ASSUME NEW a \in Actors,
             \A b \in Actors \ {a} : /\ pc'[b] = pc[b] /\ target'[b] = target[b]
                                     /\ handle'[b] = handle[b],
             pc'[a] # "idle" /\ pc'[a] # "merge" => target'[a] \in Files,
             pc'[a] = "store" => /\ handle'[a].version \in 1 .. MaxVersion
                                 /\ handle'[a].index = handle'[a].version
      PROVE  Targets'
  BY <1>1, <1>r DEF Targets
<1>2. ASSUME NEW f \in Files, ChangeFile(f) PROVE Targets'
  BY <1>2, <1>r DEF ChangeFile, Targets
<1>3. CASE ScanFile
  <2>1. Head(scan) \in Files
    BY <1>3, <1>t, HeadTailProperties DEF ScanFile
  <2>2. QED
    BY <1>3, <2>1, <1>t, <1>1, Numbers DEF ScanFile, LookUp
<1>4. CASE ScanClose
  BY <1>4, <1>t, <1>1, Numbers DEF ScanClose
<1>5. ASSUME NEW a \in Actors, OpenWithIndex(a) \/ StoreIndex(a) PROVE Targets'
  <2>1. target[a] \in Files /\ target' = target
    BY <1>5, <1>r DEF OpenWithIndex, StoreIndex, Targets
  <2>2. pc' = [pc EXCEPT ![a] = IF a = Scanner THEN "scanned" ELSE "merge"]
        /\ \A b \in Actors \ {a} : handle'[b] = handle[b]
    BY <1>5, <1>t DEF OpenWithIndex, StoreIndex, Opened
  <2>3. QED
    BY <2>1, <2>2, <1>t, <1>1
<1>6. ASSUME NEW a \in Actors, Fails(a) PROVE Targets'
  BY <1>6, <1>t, <1>1 DEF Fails
<1>7. ASSUME NEW a \in Actors, OpenAndParse(a) PROVE Targets'
  <2>1. target[a] \in Files
    BY <1>7, <1>r DEF OpenAndParse, Targets
  <2>2. handle'[a] = [version |-> version[target[a]], index |-> version[target[a]]]
        /\ version[target[a]] \in 1 .. MaxVersion
    BY <1>7, <2>1, <1>t DEF OpenAndParse
  <2>3. QED
    BY <1>7, <2>1, <2>2, <1>t, <1>1 DEF OpenAndParse
<1>8. ASSUME NEW w \in Workers, NEW i \in DOMAIN str[w], GetFile(w, i) PROVE Targets'
  <2>1. FileOf(w, i) \in Files
    BY StreamTypes
  <2>2. QED
    BY <1>8, <2>1, <1>t, <1>n, <1>1 DEF GetFile, LookUp
<1>9. ASSUME NEW w \in Workers,
             \/ TakeUnit(w) \/ Consume(w) \/ UnitDone(w)
             \/ \E i \in DOMAIN str[w] : LoadIndex(w, i) \/ LoadNext(w, i) \/ EndStream(w, i)
      PROVE  Targets'
  <2>1. /\ target' = target /\ handle' = handle
        /\ pc' = pc \/ pc' = [pc EXCEPT ![w] = "merge"] \/ pc' = [pc EXCEPT ![w] = "idle"]
    BY <1>9 DEF TakeUnit, Consume, UnitDone, LoadIndex, LoadNext, EndStream
  <2>2. QED
    BY <2>1, <1>r, <1>t, <1>n DEF Targets
<1>10. QED
  BY <1>2, <1>3, <1>4, <1>5, <1>6, <1>7, <1>8, <1>9, <1>n
  DEF Next, OpenWithIndexFails, OpenAndParseFails, ReadFails
LEMMA WorkerNext ==
  ASSUME TypeOK, Roles, HeldOpen, Next
  PROVE  WorkerRole'
<1>r. ScannerRole /\ Targets /\ WorkerRole
  BY DEF Roles
<1>n. /\ \A w \in Workers : w \in Actors /\ w # Scanner
      /\ Scanner \in Actors
      /\ \A a \in Actors : a # Scanner => a \in Workers
  BY Numbers
<1>t. /\ pc \in [Actors -> {"idle", "cached", "parse", "store", "scanned", "merge"}]
      /\ DOMAIN target = Actors /\ rs \in [Actors -> [Files -> Handles]]
      /\ DOMAIN unit = Workers /\ DOMAIN str = Workers
  BY DEF TypeOK
<1> DEFINE Role(w) == /\ pc[w] # "scanned"
                      /\ pc[w] = "idle" => unit[w] = << >> /\ str[w] = << >>
                      /\ Opening(w) => target[w] \in Needed(w) /\ ~ IsOpen(w, target[w])
           Still(w) == /\ pc'[w] = pc[w] /\ target'[w] = target[w] /\ rs'[w] = rs[w]
                       /\ unit'[w] = unit[w] /\ str'[w] = str[w]
<1>1. ASSUME NEW w \in Workers, Still(w) PROVE Role(w)'
  <2>1. Needed(w)' = Needed(w)
    BY <1>1, OthersKeep
  <2>2. QED
    BY <1>1, <1>r, <2>1 DEF WorkerRole, Opening, IsOpen
<1>2. ASSUME NEW a \in Actors, \A w \in Workers : w # a => Still(w),
             a \in Workers => pc'[a] \in {"merge", "store"},
             a \in Workers /\ pc'[a] = "store" =>
               target'[a] \in Needed(a)' /\ ~ IsOpen(a, target[a])'
      PROVE  WorkerRole'
  <2>1. \A w \in Workers : w # a => Role(w)'
    BY <1>1, <1>2
  <2>2. a \in Workers => Role(a)'
    BY <1>2 DEF Opening
  <2>3. QED
    BY <2>1, <2>2 DEF WorkerRole
<1>3. ASSUME NEW f \in Files, ChangeFile(f) PROVE WorkerRole'
  BY <1>1, <1>3 DEF ChangeFile, WorkerRole
<1>4. CASE ScanFile \/ ScanClose
  BY <1>4, <1>n, <1>t, <1>1 DEF ScanFile, ScanClose, LookUp, WorkerRole
<1>5. ASSUME NEW a \in Actors, OpenWithIndex(a) \/ StoreIndex(a) PROVE WorkerRole'
  <2>1. /\ pc' = [pc EXCEPT ![a] = IF a = Scanner THEN "scanned" ELSE "merge"]
        /\ \E h : rs' = [rs EXCEPT ![a][target[a]] = h]
        /\ UNCHANGED <<target, unit, str>>
    BY <1>5 DEF OpenWithIndex, StoreIndex, Opened
  <2>2. QED
    BY <2>1, <1>n, <1>t, <1>2
<1>6. ASSUME NEW a \in Actors, OpenAndParse(a) PROVE WorkerRole'
  <2>1. /\ pc' = [pc EXCEPT ![a] = "store"] /\ pc[a] = "parse"
        /\ UNCHANGED <<target, rs, unit, str>>
    BY <1>6 DEF OpenAndParse
  <2>2. a \in Workers => target[a] \in Needed(a) /\ ~ IsOpen(a, target[a])
                         /\ Needed(a)' = Needed(a)
    BY <2>1, <1>r, OthersKeep DEF WorkerRole, Opening
  <2>3. a \in Workers => target'[a] \in Needed(a)' /\ ~ IsOpen(a, target[a])'
    BY <2>1, <2>2 DEF IsOpen
  <2>4. \A w \in Workers : w # a => Still(w)
    BY <2>1, <1>t
  <2>5. pc'[a] = "store"
    BY <2>1, <1>t
  <2>6. QED
    BY <2>3, <2>4, <2>5, <1>2
<1>7. ASSUME NEW a \in Actors, Fails(a) PROVE WorkerRole'
  <2>1. \A w \in Workers : w # a => Still(w)
    BY <1>7, <1>n, <1>t DEF Fails
  <2>2. a \in Workers => pc'[a] = "idle" /\ unit'[a] = << >> /\ str'[a] = << >>
    BY <1>7, <1>n, <1>t DEF Fails
  <2>3. \A w \in Workers : Role(w)'
    BY <1>1, <2>1, <2>2 DEF Opening
  <2>4. QED
    BY <2>3 DEF WorkerRole
<1>8. ASSUME NEW w \in Workers, NEW i \in DOMAIN str[w], GetFile(w, i) PROVE WorkerRole'
  <2>1. /\ pc[w] = "merge" /\ pc'[w] \in {"cached", "parse"} /\ target'[w] = FileOf(w, i)
        /\ str[w][i].at # "released" /\ ~ IsOpen(w, FileOf(w, i))
        /\ UNCHANGED <<rs, unit, str>>
        /\ \A v \in Workers : v # w => Still(v)
    BY <1>8, <1>n, <1>t DEF GetFile, LookUp, Merging
  <2>2. FileOf(w, i) \in Needed(w)
    BY <2>1 DEF Needed
  <2>3. Needed(w)' = Needed(w) /\ ~ IsOpen(w, FileOf(w, i))'
    BY <2>1, OthersKeep DEF IsOpen, FileOf
  <2>4. Role(w)'
    BY <2>1, <2>2, <2>3 DEF IsOpen
  <2>5. QED
    BY <2>1, <2>4, <1>1 DEF WorkerRole
<1>9. ASSUME NEW w \in Workers,
             \/ TakeUnit(w) \/ Consume(w)
             \/ \E i \in DOMAIN str[w] : LoadIndex(w, i) \/ LoadNext(w, i) \/ EndStream(w, i)
      PROVE  WorkerRole'
  <2>1. pc'[w] = "merge"
    BY <1>9, <1>n, <1>t DEF TakeUnit, Consume, LoadIndex, LoadNext, EndStream, Merging
  <2>2. \A v \in Workers : v # w => Still(v)
    <3>1. CASE TakeUnit(w) \/ Consume(w)
      BY <3>1, <1>n, <1>t DEF TakeUnit, Consume
    <3>2. ASSUME NEW i \in DOMAIN str[w], LoadIndex(w, i) \/ LoadNext(w, i) \/ EndStream(w, i)
          PROVE  \A v \in Workers : v # w => Still(v)
      <4>1. \A v \in Workers : v # w => str'[v] = str[v]
        BY <3>2, StreamMoves, MovesType
      <4>2. \A v \in Workers : v # w => rs'[v] = rs[v]
        BY <3>2, <1>n, <1>t DEF LoadIndex, LoadNext, EndStream
      <4>3. UNCHANGED <<pc, target, unit>>
        BY <3>2 DEF LoadIndex, LoadNext, EndStream
      <4>4. QED
        BY <4>1, <4>2, <4>3
    <3>3. QED
      BY <1>9, <3>1, <3>2
  <2>3. QED
    BY <2>1, <2>2, <1>n, <1>2
<1>10. ASSUME NEW w \in Workers, UnitDone(w) PROVE WorkerRole'
  <2>1. \A v \in Workers : v # w => Still(v)
    BY <1>10, <1>n, <1>t DEF UnitDone
  <2>2. pc'[w] = "idle" /\ unit'[w] = << >> /\ str'[w] = << >>
    BY <1>10, <1>n, <1>t DEF UnitDone
  <2>3. \A v \in Workers : Role(v)'
    BY <1>1, <2>1, <2>2 DEF Opening
  <2>4. QED
    BY <2>3 DEF WorkerRole
<1>11. QED
  BY <1>3, <1>4, <1>5, <1>6, <1>7, <1>8, <1>9, <1>10, <1>n
  DEF Next, OpenWithIndexFails, OpenAndParseFails, ReadFails

-----------------------------------------------------------------------------
(* References and open files.                                              *)

LEMMA RefsNext ==
  ASSUME TypeOK, Roles, RefsCounted, Next
  PROVE  RefsCounted'
<1>n. /\ \A w \in Workers : w \in Actors /\ w # Scanner
      /\ \A a \in Actors : a # Scanner => a \in Workers
  BY Numbers
<1>t. refs \in [Workers -> [Files -> Int]] /\ DOMAIN unit = Workers /\ DOMAIN str = Workers
  BY DEF TypeOK
<1>1. ASSUME NEW w \in Workers, refs'[w] = refs[w], \A f : Users(w, f)' = Users(w, f)
      PROVE  \A f \in Files : refs'[w][f] = Cardinality(Users(w, f)')
  BY <1>1 DEF RefsCounted
<1>2. ASSUME NEW w \in Workers, refs'[w] = refs[w], unit'[w] = unit[w], str'[w] = str[w]
      PROVE  \A f \in Files : refs'[w][f] = Cardinality(Users(w, f)')
  BY <1>1, <1>2, OthersKeep
<1>3. CASE UNCHANGED <<refs, unit, str>>
  BY <1>2, <1>3 DEF RefsCounted
<1>4. CASE ScanFile \/ ScanClose \/ \E f \in Files : ChangeFile(f)
  BY <1>3, <1>4 DEF ScanFile, ScanClose, ChangeFile, LookUp
<1>5. CASE \E a \in Actors : OpenWithIndex(a) \/ OpenAndParse(a) \/ StoreIndex(a)
  BY <1>3, <1>5 DEF OpenWithIndex, OpenAndParse, StoreIndex
<1>6. ASSUME NEW a \in Actors, Fails(a) PROVE RefsCounted'
  <2>1. CASE a = Scanner
    BY <1>6, <1>3, <2>1 DEF Fails
  <2>2. CASE a \in Workers
    <3>1. /\ str'[a] = << >> /\ \A f \in Files : refs'[a][f] = 0
          /\ \A w \in Workers : w # a => /\ refs'[w] = refs[w] /\ unit'[w] = unit[w]
                                         /\ str'[w] = str[w]
      BY <1>6, <2>2, <1>n, <1>t DEF Fails
    <3>2. \A f : Users(a, f)' = {}
      BY <3>1 DEF Users
    <3>3. \A w \in Workers : \A f \in Files : refs'[w][f] = Cardinality(Users(w, f)')
      BY <3>1, <3>2, <1>2, FS_EmptySet
    <3>4. QED
      BY <3>3 DEF RefsCounted
  <2>3. QED
    BY <2>1, <2>2, <1>n
<1>7. ASSUME NEW w \in Workers, TakeUnit(w) PROVE RefsCounted'
  <2> DEFINE u == Head(plan)
  <2>1. \A f : Users(w, f)' = StreamsOn(u, f)
    BY <1>7, AfterTake
  <2>2. \A f \in Files : refs[w][f] = 0
    <3>1. str[w] = << >>
      BY <1>7 DEF TakeUnit, Roles, WorkerRole
    <3>2. QED
      BY <3>1, NoStreams, FS_EmptySet DEF RefsCounted
  <2>3. refs' = [refs EXCEPT ![w] = [f \in Files |-> refs[w][f] + Cardinality(StreamsOn(u, f))]]
    BY <1>7 DEF TakeUnit
  <2>4. u \in Units /\ Len(u) \in Nat
    BY <1>7, TakeUnitType, UnitTypes
  <2> HIDE DEF u
  <2>5. \A f : Cardinality(StreamsOn(u, f)) \in Nat
    BY <2>4, CountType DEF StreamsOn
  <2>6. \A f \in Files : refs'[w][f] = Cardinality(Users(w, f)')
    <3>1. TAKE f \in Files
    <3>2. refs'[w][f] = refs[w][f] + Cardinality(StreamsOn(u, f))
      BY <2>3, <1>t
    <3>3. QED
      BY <3>2, <2>1, <2>2, <2>5
  <2>7. \A v \in Workers : v # w => refs'[v] = refs[v] /\ unit'[v] = unit[v] /\ str'[v] = str[v]
    BY <1>7, <1>t DEF TakeUnit
  <2>8. QED
    BY <2>6, <2>7, <1>2 DEF RefsCounted
<1>8. ASSUME NEW w \in Workers, NEW i \in DOMAIN str[w], LoadIndex(w, i) \/ LoadNext(w, i)
      PROVE  RefsCounted'
  <2>1. /\ UNCHANGED <<refs, unit>> /\ str[w][i].at # "released"
        /\ \A v \in Workers : v # w => str'[v] = str[v]
    BY <1>8, StreamMoves, MovesType DEF LoadIndex, LoadNext, Merging
  <2>2. \A f : Users(w, f)' = Users(w, f)
    BY <1>8, <2>1, StreamMoves, AfterLoad
  <2>3. QED
    BY <2>1, <2>2, <1>1, <1>2 DEF RefsCounted
<1>9. ASSUME NEW w \in Workers, NEW i \in DOMAIN str[w], EndStream(w, i) PROVE RefsCounted'
  <2>0. PICK g \in Files : g = FileOf(w, i)
    BY StreamTypes
  <2>1. /\ i \in Users(w, g)
        /\ \A f : Users(w, f)' = IF f = g THEN Users(w, f) \ {i} ELSE Users(w, f)
    BY <1>9, <2>0, StreamMoves, AfterEnd DEF EndStream, Merging
  <2>2. refs' = [refs EXCEPT ![w][g] = refs[w][g] - 1] /\ unit' = unit
        /\ \A v \in Workers : v # w => str'[v] = str[v]
    BY <1>9, <2>0, StreamMoves, MovesType DEF EndStream
  <2>3. Cardinality(Users(w, g) \ {i}) = Cardinality(Users(w, g)) - 1
    BY <2>1, UsersFinite, FS_RemoveElement
  <2>4. \A f \in Files : refs'[w][f] = Cardinality(Users(w, f)')
    <3>1. refs'[w][g] = Cardinality(Users(w, g)')
      BY <2>1, <2>2, <2>3, <1>t DEF RefsCounted
    <3>2. \A f \in Files : f # g => refs'[w][f] = Cardinality(Users(w, f)')
      BY <2>1, <2>2, <1>t DEF RefsCounted
    <3>3. QED
      BY <3>1, <3>2
  <2>5. \A v \in Workers : v # w => refs'[v] = refs[v]
    BY <2>2, <1>t
  <2>6. QED
    BY <2>2, <2>4, <2>5, <1>2 DEF RefsCounted
<1>10. ASSUME NEW w \in Workers, NEW i \in DOMAIN str[w], GetFile(w, i) PROVE RefsCounted'
  BY <1>3, <1>10 DEF GetFile, LookUp
<1>11. ASSUME NEW w \in Workers, Consume(w) PROVE RefsCounted'
  <2>1. UNCHANGED <<refs, unit>> /\ \A v \in Workers : v # w => str'[v] = str[v]
    BY <1>11, <1>t DEF Consume
  <2>2. QED
    BY <1>11, <2>1, <1>1, <1>2, AfterConsume DEF RefsCounted
<1>12. ASSUME NEW w \in Workers, UnitDone(w) PROVE RefsCounted'
  <2>1. /\ \A f : Users(w, f) = {} /\ Users(w, f)' = {}
        /\ refs' = refs /\ \A v \in Workers : v # w => unit'[v] = unit[v] /\ str'[v] = str[v]
    BY <1>12, <1>t DEF UnitDone, Users
  <2>2. QED
    BY <2>1, <1>1, <1>2 DEF RefsCounted
<1>13. QED
  BY <1>4, <1>5, <1>6, <1>7, <1>8, <1>9, <1>10, <1>11, <1>12, <1>n
  DEF Next, OpenWithIndexFails, OpenAndParseFails, ReadFails
LEMMA HeldNext ==
  ASSUME TypeOK, Roles, RefsCounted, HeldOpen, Next
  PROVE  HeldOpen'
<1>n. /\ \A w \in Workers : w \in Actors /\ w # Scanner
      /\ Scanner \in Actors
      /\ \A a \in Actors : a # Scanner => a \in Workers
  BY Numbers
<1>t. /\ rs \in [Actors -> [Files -> Handles]]
      /\ DOMAIN unit = Workers /\ DOMAIN str = Workers
  BY DEF TypeOK
<1>r. WorkerRole
  BY DEF Roles
<1> DEFINE Held(w) == \A f \in Files : /\ f \in Begun(w) /\ f \in Needed(w) => IsOpen(w, f)
                                       /\ IsOpen(w, f) => f \in Needed(w)
           Still(w) == rs'[w] = rs[w] /\ unit'[w] = unit[w] /\ str'[w] = str[w]
<1>1. ASSUME NEW w \in Workers, Still(w) PROVE Held(w)'
  BY <1>1, OthersKeep DEF HeldOpen, IsOpen
<1>2. ASSUME NEW w \in Workers, Held(w)', \A v \in Workers : v # w => Still(v) PROVE HeldOpen'
  <2>1. \A v \in Workers : Held(v)'
    BY <1>1, <1>2
  <2>2. QED
    BY <2>1 DEF HeldOpen
<1>3. CASE \A w \in Workers : Still(w)
  BY <1>1, <1>3 DEF HeldOpen
<1>4. CASE ScanFile \/ ScanClose \/ \E f \in Files : ChangeFile(f)
  BY <1>3, <1>4, <1>n, <1>t DEF ScanFile, ScanClose, ChangeFile, LookUp
<1>5. ASSUME NEW a \in Actors, OpenWithIndex(a) \/ StoreIndex(a) PROVE HeldOpen'
  <2>1. PICK f \in Files : f = target[a]
    BY <1>5, OpensHandle
  <2>2. PICK h : h # NoHandle /\ rs' = [rs EXCEPT ![a][f] = h]
    BY <1>5, <2>1, OpensHandle
  <2>3. UNCHANGED <<unit, str>>
    BY <1>5 DEF OpenWithIndex, StoreIndex
  <2>4. CASE a \notin Workers
    <3>1. \A w \in Workers : Still(w)
      BY <2>2, <2>3, <2>4, <1>n, <1>t
    <3>2. QED
      BY <1>3, <3>1
  <2>5. CASE a \in Workers
    <3>1. f \in Needed(a)
      BY <1>5, <1>r, <2>1, <2>5 DEF OpenWithIndex, StoreIndex, WorkerRole, Opening
    <3>2. \A g \in Files : rs'[a][g] = IF g = f THEN h ELSE rs[a][g]
      BY <2>2, <1>t, <1>n
    <3>3. \A g \in Files : IsOpen(a, g)' <=> (IsOpen(a, g) \/ g = f)
      BY <2>2, <3>2 DEF IsOpen
    <3>4. Begun(a)' = Begun(a) /\ Needed(a)' = Needed(a)
      BY <2>3, <2>5, OthersKeep
    <3>5. Held(a)'
      BY <2>5, <3>1, <3>3, <3>4 DEF HeldOpen
    <3>6. \A v \in Workers : v # a => Still(v)
      BY <2>2, <2>3, <1>n, <1>t
    <3>7. QED
      BY <2>5, <3>5, <3>6, <1>2
  <2>6. QED
    BY <2>4, <2>5
<1>6. ASSUME NEW a \in Actors, Fails(a) PROVE HeldOpen'
  <2>1. \A v \in Workers : v # a => Still(v)
    BY <1>6, <1>n, <1>t DEF Fails
  <2>2. CASE a \in Workers
    <3>1. str'[a] = << >> /\ \A f \in Files : rs'[a][f] = NoHandle
      BY <1>6, <2>2, <1>n, <1>t DEF Fails
    <3>2. Begun(a)' = {}
      BY <3>1 DEF Begun
    <3>3. Held(a)'
      BY <3>1, <3>2 DEF IsOpen
    <3>4. QED
      BY <1>2, <2>1, <2>2, <3>3
  <2>3. QED
    BY <1>3, <2>1, <2>2
<1>7. ASSUME NEW a \in Actors, OpenAndParse(a) PROVE HeldOpen'
  BY <1>3, <1>7 DEF OpenAndParse
<1>8. ASSUME NEW w \in Workers, TakeUnit(w) PROVE HeldOpen'
  <2>1. \A v \in Workers : v # w => Still(v)
    BY <1>8, <1>t DEF TakeUnit
  <2>2. \A f \in Files : ~ IsOpen(w, f)
    <3>1. Needed(w) = {}
      BY <1>8, <1>r, NoStreams DEF TakeUnit, WorkerRole
    <3>2. QED
      BY <3>1 DEF HeldOpen
  <2>3. \A f \in Files : ~ IsOpen(w, f)'
    BY <1>8, <2>2 DEF TakeUnit, IsOpen
  <2>4. Begun(w)' = {}
    BY <1>8, AfterTake
  <2>5. Held(w)'
    BY <2>3, <2>4
  <2>6. QED
    BY <1>2, <2>1, <2>5
<1>9. ASSUME NEW w \in Workers, NEW i \in DOMAIN str[w], LoadIndex(w, i) \/ LoadNext(w, i)
      PROVE  HeldOpen'
  <2>1. /\ UNCHANGED <<rs, unit>> /\ str[w][i].at # "released" /\ IsOpen(w, FileOf(w, i))
        /\ \A v \in Workers : v # w => str'[v] = str[v]
    BY <1>9, StreamMoves, MovesType DEF LoadIndex, LoadNext, Merging
  <2>2. Begun(w)' = Begun(w) \cup {FileOf(w, i)} /\ Needed(w)' = Needed(w)
    BY <1>9, <2>1, StreamMoves, AfterLoad
  <2>3. \A f : IsOpen(w, f)' <=> IsOpen(w, f)
    BY <2>1 DEF IsOpen
  <2>4. Held(w)'
    BY <2>1, <2>2, <2>3 DEF HeldOpen
  <2>5. QED
    BY <2>1, <2>4, <1>2
<1>10. ASSUME NEW w \in Workers, NEW i \in DOMAIN str[w], EndStream(w, i) PROVE HeldOpen'
  <2>0. PICK g \in Files : g = FileOf(w, i)
    BY StreamTypes
  <2>1. /\ i \in Users(w, g) /\ Begun(w)' = Begun(w)
        /\ \A f : Users(w, f)' = IF f = g THEN Users(w, f) \ {i} ELSE Users(w, f)
    BY <1>10, <2>0, StreamMoves, AfterEnd DEF EndStream, Merging
  <2>2. /\ unit' = unit
        /\ rs' = IF refs[w][g] = 1 /\ IsOpen(w, g) THEN [rs EXCEPT ![w][g] = NoHandle] ELSE rs
        /\ \A v \in Workers : v # w => str'[v] = str[v]
    BY <1>10, <2>0, StreamMoves, MovesType DEF EndStream, LastReference
  <2>3. Cardinality(Users(w, g) \ {i}) = Cardinality(Users(w, g)) - 1
        /\ IsFiniteSet(Users(w, g) \ {i})
    BY <2>1, UsersFinite, FS_RemoveElement
  <2>4. refs[w][g] = Cardinality(Users(w, g)) /\ Cardinality(Users(w, g)) \in Nat
    BY UsersFinite DEF RefsCounted
  <2>5. g \in Needed(w)' <=> refs[w][g] # 1
    <3>1. g \in Needed(w)' <=> Users(w, g)' # {}
      BY DEF Needed, Users
    <3>2. Users(w, g) \ {i} = {} <=> Cardinality(Users(w, g) \ {i}) = 0
      BY <2>3, FS_EmptySet
    <3>3. QED
      BY <2>1, <2>3, <2>4, <3>1, <3>2
  <2>6. \A f : f # g => (f \in Needed(w)' <=> f \in Needed(w))
    <3>1. \A f : f \in Needed(w)' <=> Users(w, f)' # {}
      BY DEF Needed, Users
    <3>2. \A f : f \in Needed(w) <=> Users(w, f) # {}
      BY NeededIsUsed
    <3>3. QED
      BY <2>1, <3>1, <3>2
  <2>7. \A f \in Files : /\ f # g => (IsOpen(w, f)' <=> IsOpen(w, f))
                         /\ IsOpen(w, g)' <=> (refs[w][g] # 1 /\ IsOpen(w, g))
    BY <2>2, <1>n, <1>t DEF IsOpen
  <2>8. g \in Begun(w) /\ g \in Needed(w)
    BY <1>10, <2>0 DEF EndStream, Merging, Begun, Needed
  <2>9. Held(w)'
    <3>1. IsOpen(w, g)
      BY <2>8 DEF HeldOpen
    <3>2. \A f \in Files : f # g => /\ f \in Begun(w)' /\ f \in Needed(w)' => IsOpen(w, f)'
                                    /\ IsOpen(w, f)' => f \in Needed(w)'
      BY <2>1, <2>6, <2>7 DEF HeldOpen
    <3>3. /\ g \in Begun(w)' /\ g \in Needed(w)' => IsOpen(w, g)'
          /\ IsOpen(w, g)' => g \in Needed(w)'
      BY <2>5, <2>7, <3>1
    <3>4. QED
      BY <3>2, <3>3
  <2>10. \A v \in Workers : v # w => Still(v)
    BY <2>2, <1>n, <1>t
  <2>11. QED
    BY <2>9, <2>10, <1>2
<1>11. ASSUME NEW w \in Workers, NEW i \in DOMAIN str[w], GetFile(w, i) PROVE HeldOpen'
  BY <1>3, <1>11 DEF GetFile, LookUp
<1>12. ASSUME NEW w \in Workers, Consume(w) PROVE HeldOpen'
  <2>1. UNCHANGED <<rs, unit>> /\ \A v \in Workers : v # w => str'[v] = str[v]
    BY <1>12, <1>t DEF Consume
  <2>2. Held(w)'
    BY <1>12, <2>1, AfterConsume DEF HeldOpen, IsOpen
  <2>3. QED
    BY <2>1, <2>2, <1>2
<1>13. ASSUME NEW w \in Workers, UnitDone(w) PROVE HeldOpen'
  <2>1. /\ Needed(w) = {} /\ str'[w] = << >> /\ rs' = rs
        /\ \A v \in Workers : v # w => Still(v)
    BY <1>13, <1>t DEF UnitDone, Needed
  <2>2. \A f \in Files : ~ IsOpen(w, f)'
    BY <2>1 DEF HeldOpen, IsOpen
  <2>3. Begun(w)' = {}
    BY <2>1 DEF Begun
  <2>4. Held(w)'
    BY <2>2, <2>3
  <2>5. QED
    BY <2>1, <2>4, <1>2
<1>14. QED
  BY <1>4, <1>5, <1>6, <1>7, <1>8, <1>9, <1>10, <1>11, <1>12, <1>13, <1>n
  DEF Next, OpenWithIndexFails, OpenAndParseFails, ReadFails
-----------------------------------------------------------------------------
(* File descriptors.                                                       *)

LEMMA OpenFinite ==
  /\ IsFiniteSet(OpenFiles) /\ Cardinality(OpenFiles) \in Nat
  /\ IsFiniteSet(Storing) /\ Cardinality(Storing) \in Nat
<1>1. IsFiniteSet(Actors \X Files) /\ IsFiniteSet(Actors)
  BY Numbers, FS_Product
<1>2. OpenFiles \in SUBSET (Actors \X Files) /\ Storing \in SUBSET Actors
  BY DEF OpenFiles, Storing
<1>3. QED
  BY <1>1, <1>2, FS_Subset, FS_CardinalityType

(* An actor opens or closes one file.                                      *)
LEMMA OneOpen ==
  ASSUME TypeOK, NEW a \in Actors, NEW f \in Files, NEW h,
         rs' = [rs EXCEPT ![a][f] = h]
  PROVE  /\ h # NoHandle => OpenFiles' = OpenFiles \cup {<<a, f>>}
         /\ h = NoHandle => OpenFiles' = OpenFiles \ {<<a, f>>}
         /\ <<a, f>> \in OpenFiles <=> IsOpen(a, f)
<1>1. \A b \in Actors, g \in Files : rs'[b][g] = IF b = a /\ g = f THEN h ELSE rs[b][g]
  BY DEF TypeOK
<1>2. \A b \in Actors, g \in Files :
        <<b, g>> \in OpenFiles' <=> IF b = a /\ g = f THEN h # NoHandle ELSE <<b, g>> \in OpenFiles
  BY <1>1 DEF OpenFiles, IsOpen
<1>3. OpenFiles \subseteq Actors \X Files /\ OpenFiles' \subseteq Actors \X Files
  BY DEF OpenFiles
<1>4. QED
  BY <1>2, <1>3 DEF OpenFiles

(* An actor closes all its files.                                          *)
LEMMA CloseAll ==
  ASSUME TypeOK, NEW a \in Actors, rs' = [rs EXCEPT ![a] = [f \in Files |-> NoHandle]]
  PROVE  /\ Cardinality(OpenFiles') = Cardinality(OpenFiles) - Cardinality({f \in Files : IsOpen(a, f)})
         /\ Cardinality({f \in Files : IsOpen(a, f)}) \in Nat
<1> DEFINE S == {f \in Files : IsOpen(a, f)}
           T == {x \in OpenFiles : x[1] = a}
           g == [f \in S |-> <<a, f>>]
<1>1. IsFiniteSet(S) /\ Cardinality(S) \in Nat
  BY Numbers, FS_Subset, FS_CardinalityType
<1>2. g \in Bijection(S, T)
  <2>1. \A f \in S : <<a, f>> \in T
    BY DEF OpenFiles
  <2>2. \A x \in T : \E f \in S : x = <<a, f>>
    BY DEF OpenFiles
  <2>3. g \in [S -> T] /\ (\A f \in S : g[f] = <<a, f>>)
    BY <2>1
  <2> HIDE DEF g, S, T
  <2>4. \A e, f \in S : g[e] = g[f] => e = f
    BY <2>3
  <2>5. \A x \in T : \E f \in S : g[f] = x
    BY <2>2, <2>3
  <2>6. QED
    BY <2>3, <2>4, <2>5 DEF Bijection, Injection, Surjection, IsInjective
<1>3. Cardinality(T) = Cardinality(S)
  <2>1. ExistsBijection(S, T)
    BY <1>2 DEF ExistsBijection
  <2>2. QED
    BY <1>1, <2>1, FS_Bijection
<1>4. OpenFiles' = OpenFiles \ T
  <2>1. \A b \in Actors, f \in Files : rs'[b][f] = IF b = a THEN NoHandle ELSE rs[b][f]
    BY DEF TypeOK
  <2>2. QED
    BY <2>1 DEF OpenFiles, IsOpen
<1>5. OpenFiles \cap T = T
  OBVIOUS
<1>6. Cardinality(OpenFiles \ T) = Cardinality(OpenFiles) - Cardinality(T)
  BY <1>5, OpenFinite, FS_Difference
<1>7. QED
  BY <1>1, <1>3, <1>4, <1>6

LEMMA FdsNext ==
  ASSUME TypeOK, Roles, HeldOpen, RefsCounted, FdsCounted, Next
  PROVE  FdsCounted'
<1>n. /\ \A w \in Workers : w \in Actors /\ w # Scanner
      /\ Scanner \in Actors
      /\ \A a \in Actors : a # Scanner => a \in Workers
  BY Numbers
<1>t. pc \in [Actors -> {"idle", "cached", "parse", "store", "scanned", "merge"}]
  BY DEF TypeOK
<1>r. ScannerRole /\ WorkerRole
  BY DEF Roles
<1>1. CASE UNCHANGED <<rs, fds>> /\ Storing' = Storing
  BY <1>1 DEF FdsCounted, OpenFiles, IsOpen
<1>2. ASSUME NEW a \in Actors, pc[a] # "store", pc'[a] # "store",
             \A b \in Actors : b # a => pc'[b] = pc[b]
      PROVE  Storing' = Storing
  BY <1>2 DEF Storing
<1>3. ASSUME NEW f \in Files, ChangeFile(f) PROVE FdsCounted'
  BY <1>3, <1>1 DEF ChangeFile, Storing
<1>4. CASE ScanFile
  <2>1. pc[Scanner] = "idle" /\ pc'[Scanner] # "store" /\ (\A b \in Actors : b # Scanner => pc'[b] = pc[b])
        /\ UNCHANGED <<rs, fds>>
    BY <1>4, <1>t, <1>n DEF ScanFile, LookUp
  <2>2. QED
    BY <2>1, <1>n, <1>1, <1>2
<1>5. CASE ScanClose
  <2>1. PICK f \in Files : f = target[Scanner]
    BY <1>5, <1>n DEF ScanClose, Roles, Targets
  <2>2. IsOpen(Scanner, f)
    BY <1>5, <1>r, <2>1 DEF ScanClose, ScannerRole
  <2>3. /\ rs' = [rs EXCEPT ![Scanner][f] = NoHandle] /\ fds' = fds - 1
        /\ pc[Scanner] # "store" /\ pc'[Scanner] # "store"
        /\ \A b \in Actors : b # Scanner => pc'[b] = pc[b]
    BY <1>5, <2>1, <1>t, <1>n DEF ScanClose
  <2>4. OpenFiles' = OpenFiles \ {<<Scanner, f>>} /\ <<Scanner, f>> \in OpenFiles
    BY <2>2, <2>3, <1>n, OneOpen
  <2>5. Cardinality(OpenFiles') = Cardinality(OpenFiles) - 1
    BY <2>4, OpenFinite, FS_RemoveElement
  <2>6. Storing' = Storing
    BY <2>3, <1>n, <1>2
  <2>7. QED
    BY <2>3, <2>5, <2>6, OpenFinite DEF FdsCounted
<1>6. ASSUME NEW a \in Actors, OpenWithIndex(a) \/ StoreIndex(a) PROVE FdsCounted'
  <2>1. PICK f \in Files : f = target[a]
    BY <1>6, OpensHandle
  <2>2. PICK h : h # NoHandle /\ rs' = [rs EXCEPT ![a][f] = h]
    BY <1>6, <2>1, OpensHandle
  <2>3. ~ IsOpen(a, f)
    <3>1. pc[a] \in {"cached", "store"}
      BY <1>6 DEF OpenWithIndex, StoreIndex
    <3>2. QED
      BY <3>1, <2>1, <1>n, <1>r DEF ScannerRole, WorkerRole, Opening
  <2>4. OpenFiles' = OpenFiles \cup {<<a, f>>} /\ <<a, f>> \notin OpenFiles
    BY <2>2, <2>3, OneOpen
  <2>5. Cardinality(OpenFiles') = Cardinality(OpenFiles) + 1
    BY <2>4, OpenFinite, FS_AddElement
  <2>6. CASE OpenWithIndex(a)
    <3>1. /\ fds' = fds + 1 /\ pc[a] # "store" /\ pc'[a] # "store"
          /\ \A b \in Actors : b # a => pc'[b] = pc[b]
      BY <2>6, <1>t DEF OpenWithIndex, Opened
    <3>2. Storing' = Storing
      BY <3>1, <1>2
    <3>3. QED
      BY <3>1, <3>2, <2>5, OpenFinite DEF FdsCounted
  <2>7. CASE StoreIndex(a)
    <3>1. /\ fds' = fds /\ pc[a] = "store" /\ pc'[a] # "store"
          /\ \A b \in Actors : b # a => pc'[b] = pc[b]
      BY <2>7, <1>t DEF StoreIndex, Opened
    <3>2. Storing' = Storing \ {a} /\ a \in Storing
      BY <3>1 DEF Storing
    <3>3. Cardinality(Storing') = Cardinality(Storing) - 1
      BY <3>2, OpenFinite, FS_RemoveElement
    <3>4. QED
      BY <3>1, <3>3, <2>5, OpenFinite DEF FdsCounted
  <2>8. QED
    BY <1>6, <2>6, <2>7
<1>7. ASSUME NEW a \in Actors, pc[a] # "store", Fails(a) PROVE FdsCounted'
  <2>1. /\ rs' = [rs EXCEPT ![a] = [f \in Files |-> NoHandle]]
        /\ fds' = fds - Cardinality({f \in Files : IsOpen(a, f)})
        /\ pc'[a] # "store" /\ \A b \in Actors : b # a => pc'[b] = pc[b]
    BY <1>7, <1>t DEF Fails
  <2>2. Storing' = Storing
    BY <1>7, <2>1, <1>2
  <2>3. /\ Cardinality(OpenFiles') = Cardinality(OpenFiles) - Cardinality({f \in Files : IsOpen(a, f)})
        /\ Cardinality({f \in Files : IsOpen(a, f)}) \in Nat
    BY <2>1, CloseAll
  <2>4. PICK n \in Nat : n = Cardinality({f \in Files : IsOpen(a, f)})
    BY <2>3
  <2>5. Cardinality(OpenFiles') = Cardinality(OpenFiles) - n /\ fds' = fds - n
    BY <2>1, <2>3, <2>4
  <2>6. QED
    BY <2>2, <2>5, OpenFinite DEF FdsCounted
<1>8. ASSUME NEW a \in Actors, OpenAndParse(a) PROVE FdsCounted'
  <2>1. /\ rs' = rs /\ fds' = fds + 1 /\ pc[a] # "store" /\ pc'[a] = "store"
        /\ \A b \in Actors : b # a => pc'[b] = pc[b]
    BY <1>8, <1>t DEF OpenAndParse
  <2>2. Storing' = Storing \cup {a} /\ a \notin Storing
    BY <2>1 DEF Storing
  <2>3. Cardinality(Storing') = Cardinality(Storing) + 1
    BY <2>2, OpenFinite, FS_AddElement
  <2>4. OpenFiles' = OpenFiles
    BY <2>1 DEF OpenFiles, IsOpen
  <2>5. QED
    BY <2>1, <2>3, <2>4, OpenFinite DEF FdsCounted
<1>9. ASSUME NEW w \in Workers,
             \/ TakeUnit(w) \/ Consume(w) \/ UnitDone(w)
             \/ \E i \in DOMAIN str[w] : GetFile(w, i) \/ LoadIndex(w, i) \/ LoadNext(w, i)
      PROVE  FdsCounted'
  <2>1. /\ UNCHANGED <<rs, fds>> /\ pc[w] # "store" /\ pc'[w] # "store"
        /\ \A b \in Actors : b # w => pc'[b] = pc[b]
    BY <1>9, <1>n, <1>t DEF TakeUnit, Consume, UnitDone, GetFile, LoadIndex, LoadNext, LookUp,
       Merging
  <2>2. QED
    BY <2>1, <1>n, <1>1, <1>2
<1>10. ASSUME NEW w \in Workers, NEW i \in DOMAIN str[w], EndStream(w, i) PROVE FdsCounted'
  <2>1. PICK f \in Files : f = FileOf(w, i)
    BY StreamTypes
  <2>2. UNCHANGED pc /\ Storing' = Storing
    BY <1>10 DEF EndStream, Storing
  <2>3. CASE UNCHANGED <<rs, fds>>
    BY <2>2, <2>3, <1>1
  <2>4. CASE IsOpen(w, f) /\ rs' = [rs EXCEPT ![w][f] = NoHandle] /\ fds' = fds - 1
    <3>1. OpenFiles' = OpenFiles \ {<<w, f>>} /\ <<w, f>> \in OpenFiles
      BY <2>4, <1>n, OneOpen
    <3>2. Cardinality(OpenFiles') = Cardinality(OpenFiles) - 1
      BY <3>1, OpenFinite, FS_RemoveElement
    <3>3. QED
      BY <2>2, <2>4, <3>2, OpenFinite DEF FdsCounted
  <2>5. QED
    BY <1>10, <2>1, <2>3, <2>4 DEF EndStream
<1>11. ASSUME NEW a \in Actors, OpenWithIndexFails(a) \/ OpenAndParseFails(a) PROVE FdsCounted'
  BY <1>11, <1>7 DEF OpenWithIndexFails, OpenAndParseFails
<1>12. ASSUME NEW w \in Workers, NEW i \in DOMAIN str[w], ReadFails(w, i) PROVE FdsCounted'
  BY <1>12, <1>n, <1>7 DEF ReadFails, Merging
<1>13. QED
  BY <1>3, <1>4, <1>5, <1>6, <1>8, <1>9, <1>10, <1>11, <1>12 DEF Next

-----------------------------------------------------------------------------
(* The cache.                                                              *)

(* A sum changes by as much as one of its terms does.                      *)
LEMMA SumChange ==
  ASSUME NEW D, IsFiniteSet(D), NEW f \in [D -> Nat], NEW g \in [D -> Nat],
         NEW x \in D, \A y \in D \ {x} : f[y] = g[y]
  PROVE  SumOver(g, D) = SumOver(f, D) - f[x] + g[x]
<1> DEFINE E == D \ {x}
<1>1. E \in SUBSET D /\ x \in D \ E /\ E \cup {x} = D /\ \A y \in E : f[y] = g[y]
  OBVIOUS
<1> HIDE DEF E
<1>2. SumOver(g, E) = SumOver(f, E)
  <2>1. {{y} \X (1 .. f[y]) : y \in E} = {{y} \X (1 .. g[y]) : y \in E}
    BY <1>1
  <2>2. QED
    BY <2>1 DEF SumOver
<1>3. SumOver(f, E) \in Nat /\ SumOver(f, E \cup {x}) = SumOver(f, E) + f[x]
  BY <1>1, SumProperties
<1>4. SumOver(g, E \cup {x}) = SumOver(g, E) + g[x]
  BY <1>1, SumProperties
<1>5. f[x] \in Nat /\ g[x] \in Nat
  OBVIOUS
<1>6. SumOver(f, D) = SumOver(f, E) + f[x] /\ SumOver(g, D) = SumOver(f, E) + g[x]
  BY <1>1, <1>2, <1>3, <1>4
<1>7. QED
  BY <1>3, <1>5, <1>6

LEMMA CacheNext ==
  ASSUME TypeOK, Roles, CacheSound, Next
  PROVE  CacheSound'
<1>n. \A w \in Workers : w \in Actors
  BY Numbers
<1>t. /\ rs \in [Actors -> [Files -> Handles]] /\ cache \in [Files -> 0 .. MaxVersion]
      /\ used \in Nat
  BY DEF TypeOK
<1>s. /\ used = SumOver(Kept, Files)
      /\ used <= Budget
      /\ \A a \in Actors, f \in Files : rs[a][f].index = rs[a][f].version
  BY DEF CacheSound
<1>h. NoHandle.index = NoHandle.version
  BY DEF NoHandle
<1> DEFINE Same == \A a \in Actors, f \in Files : rs'[a][f].index = rs'[a][f].version
<1>1. CASE UNCHANGED <<cache, used>> /\ Same
  <2>1. Kept' = Kept
    BY <1>1 DEF Kept
  <2>2. QED
    BY <1>1, <1>s, <2>1 DEF CacheSound
<1>2. ASSUME NEW a \in Actors, OpenWithIndex(a) \/ StoreIndex(a) PROVE Same
  <2>1. PICK h : h.index = h.version /\ rs' = [rs EXCEPT ![a][target[a]] = h]
    BY <1>2, OpensHandle
  <2>2. QED
    BY <2>1, <1>s, <1>t
<1>3. ASSUME NEW a \in Actors, OpenWithIndex(a) PROVE CacheSound'
  BY <1>1, <1>2, <1>3 DEF OpenWithIndex, files
<1>4. ASSUME NEW a \in Actors, StoreIndex(a) PROVE CacheSound'
  <2>1. CASE UNCHANGED <<cache, used>>
    BY <1>1, <1>2, <1>4, <2>1
  <2>2. CASE ~ UNCHANGED <<cache, used>>
    <3>1. PICK f \in Files, v \in 1 .. MaxVersion : f = target[a] /\ v = handle[a].index
      BY <1>4 DEF StoreIndex, Roles, Targets
    <3>2. PICK b \in Nat : b = Size[f][v]
      BY <3>1, ConstantsAssumption
    <3>3. /\ cache' = [cache EXCEPT ![f] = v] /\ used' = used + b
          /\ used + b <= Budget /\ cache[f] = NoVersion
      BY <1>4, <2>2, <3>1, <3>2 DEF StoreIndex, Room
    <3>4. Kept \in [Files -> Nat] /\ Kept[f] = 0
      <4>1. \A g \in Files : cache[g] # 0 => Size[g][cache[g]] \in Nat
        BY <1>t, ConstantsAssumption
      <4>2. QED
        BY <3>3, <4>1 DEF Kept, NoVersion
    <3>5. Kept' \in [Files -> Nat] /\ Kept'[f] = b /\ \A g \in Files \ {f} : Kept[g] = Kept'[g]
      <4>1. cache'[f] = v /\ \A g \in Files \ {f} : cache'[g] = cache[g]
        BY <3>3, <1>t
      <4>2. Kept'[f] = b
        BY <3>2, <4>1 DEF Kept, NoVersion
      <4>3. \A g \in Files \ {f} : Kept[g] = Kept'[g]
        BY <4>1 DEF Kept
      <4>4. DOMAIN Kept' = Files
        BY DEF Kept
      <4>5. \A g \in Files : Kept'[g] \in Nat
        BY <3>2, <3>4, <4>2, <4>3
      <4>6. Kept' = [g \in Files |-> Kept'[g]]
        BY DEF Kept
      <4>7. QED
        BY <4>2, <4>3, <4>5, <4>6
    <3>6. SumOver(Kept', Files) = SumOver(Kept, Files) - Kept[f] + Kept'[f]
      BY <3>4, <3>5, Numbers, SumChange
    <3>7. used' = SumOver(Kept', Files)
      BY <1>s, <3>2, <3>3, <3>4, <3>5, <3>6, <1>t
    <3>8. used' <= Budget /\ Same
      BY <3>3, <1>2, <1>4
    <3>9. QED
      BY <3>7, <3>8 DEF CacheSound
  <2>3. QED
    BY <2>1, <2>2
<1>5. ASSUME NEW a \in Actors, Fails(a) PROVE CacheSound'
  <2>1. Same
    BY <1>5, <1>s, <1>t, <1>h DEF Fails
  <2>2. QED
    BY <1>1, <1>5, <2>1 DEF Fails, files
<1>6. CASE \/ ScanFile \/ \E f \in Files : ChangeFile(f)
           \/ \E a \in Actors : OpenAndParse(a)
           \/ \E w \in Workers : \/ TakeUnit(w) \/ Consume(w) \/ UnitDone(w)
                                 \/ \E i \in DOMAIN str[w] :
                                      GetFile(w, i) \/ LoadIndex(w, i) \/ LoadNext(w, i)
  <2>1. UNCHANGED <<cache, used, rs>>
    BY <1>6 DEF ScanFile, ChangeFile, OpenAndParse, TakeUnit, Consume, UnitDone, GetFile,
       LoadIndex, LoadNext, LookUp, files
  <2>2. QED
    BY <1>1, <1>s, <2>1
<1>7. CASE ScanClose
  <2>1. Same
    BY <1>7, <1>s, <1>t, <1>h, Numbers DEF ScanClose
  <2>2. QED
    BY <1>1, <1>7, <2>1 DEF ScanClose, files
<1>8. ASSUME NEW w \in Workers, NEW i \in DOMAIN str[w], EndStream(w, i) PROVE CacheSound'
  <2>1. rs' = rs \/ rs' = [rs EXCEPT ![w][FileOf(w, i)] = NoHandle]
    BY <1>8 DEF EndStream
  <2>2. Same
    BY <2>1, <1>s, <1>t, <1>h, <1>n
  <2>3. QED
    BY <1>1, <1>8, <2>2 DEF EndStream, files
<1>9. QED
  BY <1>3, <1>4, <1>5, <1>6, <1>7, <1>8, <1>n
  DEF Next, OpenWithIndexFails, OpenAndParseFails, ReadFails
-----------------------------------------------------------------------------
(* The invariant holds.                                                    *)

LEMMA InvInit ==
  ASSUME Init
  PROVE  IInv
<1>1. TypeOK
  BY TypeInit
<1>2. /\ \A a \in Actors : pc[a] = "idle"
      /\ \A a \in Actors, f \in Files : rs[a][f] = NoHandle
      /\ \A w \in Workers : unit[w] = << >> /\ str[w] = << >>
      /\ \A w \in Workers, f \in Files : refs[w][f] = 0
      /\ Scanner \in Actors /\ \A w \in Workers : w \in Actors
  BY Numbers DEF Init
<1>3. \A w \in Workers : Begun(w) = {} /\ Needed(w) = {} /\ \A f : Users(w, f) = {}
  BY <1>2, NoStreams
<1>4. Roles
  BY <1>2 DEF Roles, ScannerRole, Targets, WorkerRole, Opening, IsOpen
<1>5. RefsCounted
  BY <1>2, <1>3, FS_EmptySet DEF RefsCounted
<1>6. HeldOpen
  BY <1>2, <1>3 DEF HeldOpen, IsOpen
<1>7. FdsCounted
  <2>1. OpenFiles = {} /\ Storing = {}
    BY <1>2 DEF OpenFiles, Storing, IsOpen
  <2>2. fds = 0
    BY DEF Init
  <2>3. QED
    BY <2>1, <2>2, FS_EmptySet DEF FdsCounted
<1>8. CacheSound
  <2>1. used = 0 /\ used <= Budget
    BY Numbers DEF Init
  <2>2. Kept = [f \in Files |-> 0]
    BY DEF Init, Kept
  <2>3. SumOver(Kept, Files) = 0
    <3>1. UNION {{f} \X (1 .. Kept[f]) : f \in Files} = {}
      BY <2>2
    <3>2. QED
      BY <3>1, FS_EmptySet DEF SumOver
  <2>4. \A a \in Actors, f \in Files : rs[a][f].index = rs[a][f].version
    BY <1>2 DEF NoHandle
  <2>5. QED
    BY <2>1, <2>3, <2>4 DEF CacheSound
<1>9. QED
  BY <1>1, <1>4, <1>5, <1>6, <1>7, <1>8 DEF IInv

LEMMA InvNext ==
  ASSUME IInv, Next
  PROVE  IInv'
<1>1. TypeOK /\ Roles /\ RefsCounted /\ HeldOpen /\ FdsCounted /\ CacheSound
  BY DEF IInv
<1>2. ScannerRole' /\ Targets' /\ WorkerRole'
  BY <1>1, ScannerNext, TargetsNext, WorkerNext
<1>3. TypeOK' /\ RefsCounted' /\ HeldOpen' /\ FdsCounted' /\ CacheSound'
  BY <1>1, TypeNext, RefsNext, HeldNext, FdsNext, CacheNext
<1>4. QED
  BY <1>2, <1>3 DEF IInv, Roles

LEMMA InvStutter ==
  ASSUME IInv, UNCHANGED vars
  PROVE  IInv'
<1>1. /\ version' = version /\ cache' = cache /\ used' = used /\ fds' = fds
      /\ split' = split /\ scan' = scan /\ plan' = plan /\ pc' = pc /\ target' = target
      /\ handle' = handle /\ rs' = rs /\ refs' = refs /\ unit' = unit /\ str' = str
      /\ failed' = failed
  BY DEF vars
<1>2. TypeOK' /\ Roles'
  BY <1>1 DEF IInv, TypeOK, Roles, ScannerRole, Targets, WorkerRole, Opening, IsOpen, Needed,
     FileOf
<1>3. RefsCounted' /\ HeldOpen'
  BY <1>1 DEF IInv, RefsCounted, HeldOpen, Users, Begun, Needed, FileOf, IsOpen
<1>4. FdsCounted' /\ CacheSound'
  BY <1>1 DEF IInv, FdsCounted, OpenFiles, Storing, IsOpen, CacheSound, Kept
<1>5. QED
  BY <1>2, <1>3, <1>4 DEF IInv

LEMMA Invariance == Spec => []IInv
<1>1. IInv /\ [Next]_vars => IInv'
  BY InvNext, InvStutter
<1>2. QED
  BY InvInit, <1>1, PTL DEF Spec

LEMMA InvHolds ==
  ASSUME IInv
  PROVE  HeldWhileNeeded
<1>1. ASSUME NEW w \in Workers
      PROVE  LET held == {f \in Files : IsOpen(w, f)} IN
             Begun(w) \cap Needed(w) \subseteq held /\ held \subseteq Needed(w)
  <2>1. Needed(w) \subseteq Files
    BY StreamTypes DEF IInv, Needed
  <2>2. QED
    BY <2>1 DEF IInv, HeldOpen
<1>2. fds = Cardinality({x \in Actors \X Files : IsOpen(x[1], x[2])})
              + Cardinality({a \in Actors : pc[a] = "store"})
  BY DEF IInv, FdsCounted, OpenFiles, Storing
<1>3. QED
  BY <1>1, <1>2 DEF HeldWhileNeeded

(* Every state is well typed.                                              *)
THEOREM HandlesTypeCorrect == Spec => []TypeOK
<1>1. IInv => TypeOK
  BY DEF IInv
<1>2. QED
  BY Invariance, <1>1, PTL

(* A file stays open from its first read by a unit to the end of the last  *)
(* of the unit's streams on it, and no descriptor is left to nobody: what  *)
(* fileSet and blockStream promise, for every shard and number of workers, *)
(* whatever fails and whichever file changes.                              *)
THEOREM FilesHeld == Spec => []HeldWhileNeeded
  BY Invariance, InvHolds, PTL

(* The index cache's total is the size of what it holds, within its        *)
(* budget, and an index is used on the version of the file that it was     *)
(* parsed at only (indexCache.open, OpenWithIndex).                        *)
THEOREM CacheIsSound == Spec => []CacheSound
<1>1. IInv => CacheSound
  BY DEF IInv
<1>2. QED
  BY Invariance, <1>1, PTL

-----------------------------------------------------------------------------
(* Concatenation of a sequence of sequences, piece by piece.               *)

Regroups(s, t, u) == s \o (t \o u) = (s \o t) \o u

LEMMA Associative ==
  ASSUME NEW S, NEW s \in Seq(S), NEW t \in Seq(S), NEW u \in Seq(S)
  PROVE  Regroups(s, t, u)
  BY DEF Regroups

(* g has the concatenations of the first n elements of s.                  *)
GluesTo(g, s, S, n) ==
  /\ g \in [0 .. n -> Seq(S)]
  /\ g[0] = <<>>
  /\ \A i \in 1 .. n : g[i] = g[i - 1] \o s[i]

Glued(s, S, n) == \E g : GluesTo(g, s, S, n)

Glues(g, s, S) == GluesTo(g, s, S, Len(s))

LEMMA GluedNone ==
  ASSUME NEW S, NEW s
  PROVE  Glued(s, S, 0)
<1> DEFINE g == [i \in 0 .. 0 |-> <<>>]
<1>1. g \in [0 .. 0 -> Seq(S)] /\ g[0] = <<>> /\ \A i \in 1 .. 0 : g[i] = g[i - 1] \o s[i]
  <2>1. <<>> \in Seq(S)
    BY EmptySeq
  <2>2. QED
    BY <2>1
<1> HIDE DEF g
<1>2. QED
  BY <1>1 DEF Glued, GluesTo

LEMMA GluedNext ==
  ASSUME NEW S, NEW s, NEW n \in Nat, s[n + 1] \in Seq(S), Glued(s, S, n)
  PROVE  Glued(s, S, n + 1)
<1>1. PICK g : GluesTo(g, s, S, n)
  BY DEF Glued
<1>2. g \in [0 .. n -> Seq(S)] /\ g[0] = <<>> /\ \A i \in 1 .. n : g[i] = g[i - 1] \o s[i]
  BY <1>1 DEF GluesTo
<1> DEFINE last == g[n] \o s[n + 1]
           h == [i \in 0 .. n + 1 |-> IF i = n + 1 THEN last ELSE g[i]]
<1>3. last \in Seq(S)
  <2>1. g[n] \in Seq(S)
    BY <1>2
  <2>2. QED
    BY <2>1, ConcatProperties
<1>4. h[n + 1] = last /\ \A i \in 0 .. n : h[i] = g[i]
  <2> HIDE DEF last
  <2>1. n + 1 \in 0 .. n + 1 /\ \A i \in 0 .. n : i \in 0 .. n + 1 /\ i # n + 1
    OBVIOUS
  <2>2. QED
    BY <2>1
<1>5. h \in [0 .. n + 1 -> Seq(S)]
  <2> HIDE DEF last
  <2>1. \A i \in 0 .. n + 1 : i # n + 1 => i \in 0 .. n
    OBVIOUS
  <2>2. QED
    BY <1>2, <1>3, <2>1
<1> HIDE DEF h
<1>6. ASSUME NEW i \in 1 .. n + 1 PROVE h[i] = h[i - 1] \o s[i]
  <2>1. CASE i = n + 1
    <3>1. i - 1 = n /\ n \in 0 .. n
      BY <2>1
    <3>2. QED
      BY <1>4, <2>1, <3>1
  <2>2. CASE i # n + 1
    <3>1. i \in 1 .. n /\ i \in 0 .. n /\ i - 1 \in 0 .. n
      BY <2>2
    <3>2. QED
      BY <1>2, <1>4, <3>1
  <2>3. QED
    BY <2>1, <2>2
<1>7. h[0] = <<>>
  BY <1>2, <1>4
<1>8. QED
  BY <1>5, <1>6, <1>7 DEF Glued, GluesTo

LEMMA GluesExists ==
  ASSUME NEW S, NEW s \in Seq(Seq(S))
  PROVE  \E g : Glues(g, s, S)
<1> DEFINE L == Len(s)
           P == {n \in Nat : n <= L => Glued(s, S, n)}
<1>1. L \in Nat /\ \A n \in Nat : n + 1 <= L => s[n + 1] \in Seq(S)
  <2>1. L \in Nat
    OBVIOUS
  <2>2. ASSUME NEW n \in Nat, n + 1 <= L PROVE s[n + 1] \in Seq(S)
    <3>1. n + 1 \in 1 .. Len(s)
      BY <2>1, <2>2
    <3>2. QED
      BY <3>1, ElementOfSeq
  <2>3. QED
    BY <2>1, <2>2
<1> HIDE DEF L
<1>2. 0 \in P
  BY GluedNone
<1>3. ASSUME NEW n \in P \cap Nat PROVE n + 1 \in P
  BY <1>1, <1>3, GluedNext
<1>4. Nat \subseteq P
  <2> HIDE DEF P
  <2> QED BY <1>2, <1>3, SetInduction
<1>5. Glued(s, S, L)
  BY <1>1, <1>4
<1>6. QED
  BY <1>5 DEF Glued, Glues, L

(* There is only one such function.                                        *)
Follows(g, s, n) == \A i \in 1 .. n : g[i] = g[i - 1] \o s[i]

LEMMA GluesSame ==
  ASSUME NEW s, NEW n \in Nat, NEW g, NEW h, g[0] = h[0],
         Follows(g, s, n), Follows(h, s, n)
  PROVE  g[n] = h[n]
<1> DEFINE P == {k \in Nat : k <= n => g[k] = h[k]}
<1>1. 0 \in P
  OBVIOUS
<1>2. ASSUME NEW k \in P \cap Nat PROVE k + 1 \in P
  <2>1. SUFFICES ASSUME k + 1 <= n PROVE g[k + 1] = h[k + 1]
    OBVIOUS
  <2>2. k + 1 \in 1 .. n /\ (k + 1) - 1 = k /\ g[k] = h[k]
    BY <2>1
  <2>3. g[k + 1] = g[k] \o s[k + 1] /\ h[k + 1] = h[k] \o s[k + 1]
    BY <2>2 DEF Follows
  <2>4. QED
    BY <2>2, <2>3
<1>3. Nat \subseteq P
  <2> HIDE DEF P
  <2> QED BY <1>1, <1>2, SetInduction
<1>4. QED
  BY <1>3

LEMMA FlattenGlues ==
  ASSUME NEW S, NEW s \in Seq(Seq(S)), NEW g, Glues(g, s, S)
  PROVE  FlattenSeq(s) = g[Len(s)]
<1>1. /\ g \in [0 .. Len(s) -> Seq(S)] /\ g[0] = <<>>
      /\ \A i \in 1 .. Len(s) : g[i] = g[i - 1] \o s[i]
  BY DEF Glues, GluesTo
<1>2. Len(s) \in Nat /\ \A i \in 1 .. Len(s) : s[i] \in Seq(S)
  BY ElementOfSeq
<1>3. CASE Len(s) = 0
  <2>1. s = <<>>
    BY <1>3, EmptySeq
  <2>2. QED
    BY <1>1, <1>3, <2>1 DEF FlattenSeq
<1>4. CASE Len(s) # 0
  <2> DEFINE F(f) == [i \in 1 .. Len(s) |-> IF i = 1 THEN s[i] ELSE f[i - 1] \o s[i]]
             h == [i \in 1 .. Len(s) |-> g[i]]
             flatten == CHOOSE f : f = F(f)
  <2>1. FlattenSeq(s) = flatten[Len(s)]
    BY <1>4 DEF FlattenSeq
  <2>2. h = F(h)
    <3>1. ASSUME NEW i \in 1 .. Len(s)
          PROVE  g[i] = IF i = 1 THEN s[i] ELSE h[i - 1] \o s[i]
      <4>1. g[i] = g[i - 1] \o s[i] /\ s[i] \in Seq(S)
        BY <1>1, <1>2
      <4>2. CASE i = 1
        <5>1. g[i - 1] = <<>>
          BY <1>1, <4>2
        <5>2. <<>> \o s[i] = s[i]
          BY <4>1, ConcatEmptySeq
        <5>3. QED
          BY <4>1, <4>2, <5>1, <5>2
      <4>3. CASE i # 1
        <5>1. h[i - 1] = g[i - 1]
          BY <1>2, <4>3
        <5>2. QED
          BY <4>1, <4>3, <5>1
      <4>4. QED
        BY <4>2, <4>3
    <3>2. QED
      BY <3>1
  <2>3. flatten = F(flatten)
    <3> HIDE DEF h, F
    <3> QED BY <2>2, Zenon
  <2> DEFINE k == [i \in 0 .. Len(s) |-> IF i = 0 THEN <<>> ELSE flatten[i]]
  <2> HIDE DEF flatten, h
  <2>4. k[0] = <<>> /\ \A i \in 1 .. Len(s) : k[i] = flatten[i]
    BY <1>2
  <2>5. ASSUME NEW i \in 1 .. Len(s) PROVE k[i] = k[i - 1] \o s[i]
    <3>1. flatten[i] = IF i = 1 THEN s[i] ELSE flatten[i - 1] \o s[i]
      BY <2>3
    <3>2. CASE i = 1
      <4>1. k[i - 1] = <<>>
        BY <2>4, <3>2
      <4>2. <<>> \o s[i] = s[i]
        BY <1>2, ConcatEmptySeq
      <4>3. QED
        BY <2>4, <3>1, <3>2, <4>1, <4>2
    <3>3. CASE i # 1
      <4>1. i - 1 \in 1 .. Len(s)
        BY <1>2, <3>3
      <4>2. QED
        BY <2>4, <3>1, <3>3, <4>1
    <3>4. QED
      BY <3>2, <3>3
  <2>6. k[Len(s)] = flatten[Len(s)]
    BY <1>2, <1>4, <2>4
  <2> HIDE DEF k, F
  <2>7. k[Len(s)] = g[Len(s)]
    <3>1. Follows(g, s, Len(s)) /\ Follows(k, s, Len(s)) /\ k[0] = g[0]
      BY <1>1, <2>4, <2>5 DEF Follows
    <3>2. Len(s) \in Nat
      BY <1>2
    <3>3. QED
      BY <3>1, <3>2, GluesSame
  <2>8. QED
    BY <2>1, <2>6, <2>7
<1>5. QED
  BY <1>3, <1>4

LEMMA FlattenEmpty ==
  FlattenSeq(<<>>) = <<>>
  BY DEF FlattenSeq

LEMMA FlattenOne ==
  ASSUME NEW S, NEW x \in Seq(S)
  PROVE  FlattenSeq(<<x>>) = x
<1>1. <<x>> \in Seq(Seq(S)) /\ Len(<<x>>) = 1 /\ <<x>>[1] = x
  OBVIOUS
<1>2. PICK g : Glues(g, <<x>>, S)
  BY <1>1, GluesExists
<1>3. g[1] = g[1 - 1] \o x /\ g[1 - 1] = <<>>
  <2>1. 1 \in 1 .. Len(<<x>>) /\ 1 - 1 = 0
    BY <1>1
  <2>2. g[1] = g[1 - 1] \o <<x>>[1] /\ g[0] = <<>>
    BY <1>2, <2>1 DEF Glues, GluesTo
  <2>3. QED
    BY <1>1, <2>1, <2>2
<1>4. FlattenSeq(<<x>>) = g[1]
  BY <1>1, <1>2, FlattenGlues
<1>5. <<>> \o x = x
  BY ConcatEmptySeq
<1>6. QED
  BY <1>3, <1>4, <1>5

LEMMA FlattenConcat ==
  ASSUME NEW S, NEW a \in Seq(Seq(S)), NEW b \in Seq(Seq(S))
  PROVE  FlattenSeq(a \o b) = FlattenSeq(a) \o FlattenSeq(b)
<1> DEFINE c == a \o b
           A == Len(a)
           B == Len(b)
<1>1. c \in Seq(Seq(S)) /\ Len(c) = A + B /\ A \in Nat /\ B \in Nat
  OBVIOUS
<1>2. /\ \A i \in 1 .. A : c[i] = a[i]
      /\ \A i \in 1 .. B : c[A + i] = b[i]
      /\ \A i \in 1 .. B : b[i] \in Seq(S)
  BY ElementOfSeq
<1>3. PICK f : Glues(f, a, S)
  BY GluesExists
<1>4. PICK g : Glues(g, b, S)
  BY GluesExists
<1>5. PICK h : Glues(h, c, S)
  BY <1>1, GluesExists
<1>6. FlattenSeq(a) = f[A] /\ FlattenSeq(b) = g[B] /\ FlattenSeq(c) = h[A + B]
  BY <1>1, <1>3, <1>4, <1>5, FlattenGlues
<1>7. /\ f \in [0 .. A -> Seq(S)] /\ f[0] = <<>> /\ \A i \in 1 .. A : f[i] = f[i - 1] \o a[i]
      /\ g \in [0 .. B -> Seq(S)] /\ g[0] = <<>> /\ \A i \in 1 .. B : g[i] = g[i - 1] \o b[i]
      /\ h[0] = <<>> /\ \A i \in 1 .. A + B : h[i] = h[i - 1] \o c[i]
  BY <1>1, <1>3, <1>4, <1>5 DEF Glues, GluesTo
<1> HIDE DEF A, B, c
<1>8. h[A] = f[A] /\ f[A] \in Seq(S)
  <2>1. ASSUME NEW i \in 1 .. A PROVE h[i] = h[i - 1] \o a[i]
    <3>1. i \in 1 .. A + B
      BY <1>1
    <3>2. QED
      BY <1>2, <1>7, <3>1
  <2>2. h[0] = f[0] /\ Follows(f, a, A) /\ Follows(h, a, A)
    BY <1>7, <2>1 DEF Follows
  <2>3. h[A] = f[A]
    BY <1>1, <2>2, GluesSame
  <2>4. QED
    BY <1>1, <1>7, <2>3
<1> DEFINE k == [i \in 0 .. B |-> h[A + i]]
           l == [i \in 0 .. B |-> f[A] \o g[i]]
<1>9. ASSUME NEW i \in 1 .. B PROVE k[i] = k[i - 1] \o b[i] /\ l[i] = l[i - 1] \o b[i]
  <2>1. i - 1 \in 0 .. B /\ i \in 0 .. B /\ A + i \in 1 .. A + B /\ (A + i) - 1 = A + (i - 1)
    BY <1>1
  <2>2. h[A + i] = h[A + (i - 1)] \o b[i]
    BY <1>2, <1>7, <2>1
  <2>3. f[A] \o g[i] = (f[A] \o g[i - 1]) \o b[i]
    <3>1. g[i] = g[i - 1] \o b[i] /\ g[i - 1] \in Seq(S) /\ b[i] \in Seq(S)
      BY <1>2, <1>7, <2>1
    <3>2. f[A] \o (g[i - 1] \o b[i]) = (f[A] \o g[i - 1]) \o b[i]
      <4>1. f[A] \in Seq(S) /\ g[i - 1] \in Seq(S) /\ b[i] \in Seq(S)
        BY <1>8, <3>1
      <4> DEFINE x == f[A]
                 y == g[i - 1]
                 z == b[i]
      <4> HIDE DEF x, y, z
      <4>2. x \in Seq(S) /\ y \in Seq(S) /\ z \in Seq(S)
        BY <4>1 DEF x, y, z
      <4>3. x \o (y \o z) = (x \o y) \o z
        BY <4>2, Associative DEF Regroups
      <4>4. QED
        BY <4>3 DEF x, y, z
    <3>3. QED
      BY <3>1, <3>2
  <2>4. QED
    BY <2>1, <2>2, <2>3
<1>10. k[0] = l[0]
  <2>1. f[A] \o <<>> = f[A]
    BY <1>8, ConcatEmptySeq
  <2>2. A + 0 = A /\ 0 \in 0 .. B
    BY <1>1
  <2>3. QED
    BY <1>7, <1>8, <2>1, <2>2
<1>11. k[B] = h[A + B] /\ l[B] = f[A] \o g[B]
  <2>1. B \in 0 .. B
    BY <1>1
  <2>2. QED
    BY <2>1
<1> HIDE DEF k, l
<1>12. k[B] = l[B]
  <2>1. Follows(k, b, B) /\ Follows(l, b, B)
    BY <1>9 DEF Follows
  <2>2. QED
    BY <1>1, <1>10, <2>1, GluesSame
<1>13. QED
  BY <1>6, <1>11, <1>12 DEF c

-----------------------------------------------------------------------------
(* Sorted by rank.                                                         *)

(* R puts the elements of S in an order.                                   *)
Ordered(R, S) ==
  /\ \A x \in S : <<x, x>> \notin R
  /\ \A x, y, z \in S : <<x, y>> \in R /\ <<y, z>> \in R => <<x, z>> \in R
  /\ \A x, y \in S : x = y \/ <<x, y>> \in R \/ <<y, x>> \in R

Below(R, S, x) == {y \in S : <<y, x>> \in R}

RankOf(R, S, x) == Cardinality(Below(R, S, x))

LEMMA RankRange ==
  ASSUME NEW S, IsFiniteSet(S), NEW R, Ordered(R, S), NEW x \in S
  PROVE  RankOf(R, S, x) \in 0 .. Cardinality(S) - 1 /\ IsFiniteSet(Below(R, S, x))
<1>1. Below(R, S, x) \in SUBSET S /\ Below(R, S, x) # S
  BY DEF Below, Ordered
<1>2. /\ IsFiniteSet(Below(R, S, x)) /\ Cardinality(Below(R, S, x)) <= Cardinality(S)
      /\ Cardinality(S) # Cardinality(Below(R, S, x))
  BY <1>1, FS_Subset
<1>3. Cardinality(S) \in Nat /\ Cardinality(Below(R, S, x)) \in Nat
  BY <1>2, FS_CardinalityType
<1>4. QED
  BY <1>2, <1>3 DEF RankOf

LEMMA RankRises ==
  ASSUME NEW S, IsFiniteSet(S), NEW R, Ordered(R, S), NEW x \in S, NEW y \in S, <<x, y>> \in R
  PROVE  RankOf(R, S, x) < RankOf(R, S, y)
<1>1. /\ Below(R, S, x) \in SUBSET Below(R, S, y) /\ x \in Below(R, S, y)
      /\ x \notin Below(R, S, x)
  BY DEF Below, Ordered
<1>2. IsFiniteSet(Below(R, S, y)) /\ RankOf(R, S, x) \in Nat /\ RankOf(R, S, y) \in Nat
  BY RankRange
<1>3. /\ Cardinality(Below(R, S, x)) <= Cardinality(Below(R, S, y))
      /\ Cardinality(Below(R, S, x)) # Cardinality(Below(R, S, y))
  BY <1>1, <1>2, FS_Subset
<1>4. QED
  BY <1>2, <1>3 DEF RankOf

LEMMA RankOnto ==
  ASSUME NEW S, IsFiniteSet(S), NEW R, Ordered(R, S), NEW k \in 0 .. Cardinality(S) - 1
  PROVE  \E x \in S : RankOf(R, S, x) = k
<1> DEFINE T == 0 .. Cardinality(S) - 1
           f == [x \in S |-> RankOf(R, S, x)]
<1>1. Cardinality(S) \in Nat
  BY FS_CardinalityType
<1>2. f \in [S -> T]
  BY RankRange
<1>3. \A x, y \in S : f[x] = f[y] => x = y
  <2>1. SUFFICES ASSUME NEW x \in S, NEW y \in S, f[x] = f[y], x # y PROVE FALSE
    OBVIOUS
  <2>2. RankOf(R, S, x) = RankOf(R, S, y) /\ RankOf(R, S, x) \in T
    BY <2>1, RankRange
  <2>3. RankOf(R, S, x) < RankOf(R, S, y) \/ RankOf(R, S, y) < RankOf(R, S, x)
    BY <2>1, RankRises DEF Ordered
  <2>4. QED
    BY <2>2, <2>3
<1>4. f \in Injection(S, T)
  <2>1. DOMAIN f = S
    OBVIOUS
  <2> HIDE DEF f
  <2>2. QED
    BY <1>2, <1>3, <2>1 DEF Injection, IsInjective
<1>5. IsFiniteSet(T) /\ Cardinality(T) = Cardinality(S)
  <2>1. IsFiniteSet(T) /\ Cardinality(T) =
          IF 0 > Cardinality(S) - 1 THEN 0 ELSE Cardinality(S) - 1 - 0 + 1
    <3>1. 0 \in Int /\ Cardinality(S) - 1 \in Int
      BY <1>1
    <3>2. QED
      BY <3>1, FS_Interval, Zenon
  <2>2. QED
    BY <1>1, <2>1
<1> HIDE DEF f, T
<1>6. f \in Surjection(S, T)
  BY <1>4, <1>5, FS_Injection
<1>7. PICK x \in S : f[x] = k
  BY <1>6 DEF Surjection, T
<1>8. QED
  BY <1>7 DEF f

(* q has the elements of S in the order R.                                 *)
Lists(q, R, S) ==
  /\ q \in Seq(S) /\ Len(q) = Cardinality(S)
  /\ \A i, j \in 1 .. Len(q) : <<q[i], q[j]>> \in R <=> i < j
  /\ \A x \in S : \E i \in 1 .. Len(q) : q[i] = x

\* Entry i of q has i - 1 elements of S below it, if an element has.
Ranks(q, R, S) ==
  /\ q = [i \in 1 .. Cardinality(S) |-> q[i]]
  /\ \A i \in 1 .. Cardinality(S) :
       (\E x \in S : RankOf(R, S, x) = i - 1) => q[i] \in S /\ RankOf(R, S, q[i]) = i - 1

LEMMA ListsByRank ==
  ASSUME NEW S, IsFiniteSet(S), NEW R, Ordered(R, S),
         NEW q, Ranks(q, R, S)
  PROVE  Lists(q, R, S) /\ \A i \in 1 .. Len(q) : RankOf(R, S, q[i]) = i - 1
<1>1. Cardinality(S) \in Nat
  BY FS_CardinalityType
<1>2. ASSUME NEW i \in 1 .. Cardinality(S) PROVE q[i] \in S /\ RankOf(R, S, q[i]) = i - 1
  <2>1. i - 1 \in 0 .. Cardinality(S) - 1
    BY <1>1
  <2>2. \E x \in S : RankOf(R, S, x) = i - 1
    BY <2>1, RankOnto
  <2>3. QED
    BY <2>2, Zenon DEF Ranks
<1>3. q \in [1 .. Cardinality(S) -> S]
  <2>1. q = [i \in 1 .. Cardinality(S) |-> q[i]]
    BY Zenon DEF Ranks
  <2>2. QED
    BY <1>2, <2>1
<1>4. q \in Seq(S) /\ Len(q) = Cardinality(S)
  BY <1>1, <1>3
<1>5. ASSUME NEW i \in 1 .. Len(q), NEW j \in 1 .. Len(q)
      PROVE  <<q[i], q[j]>> \in R <=> i < j
  <2>1. /\ q[i] \in S /\ RankOf(R, S, q[i]) = i - 1 /\ i \in Nat
        /\ q[j] \in S /\ RankOf(R, S, q[j]) = j - 1 /\ j \in Nat
    BY <1>1, <1>2, <1>4
  <2>2. CASE <<q[i], q[j]>> \in R
    <3>1. RankOf(R, S, q[i]) < RankOf(R, S, q[j])
      BY <2>1, <2>2, RankRises
    <3>2. QED
      BY <2>1, <2>2, <3>1
  <2>3. CASE q[i] = q[j]
    <3>1. \A x \in S : <<x, x>> \notin R
      BY Zenon DEF Ordered
    <3>2. <<q[i], q[j]>> \notin R
      BY <2>1, <2>3, <3>1, Zenon
    <3>3. i - 1 = j - 1
      BY <2>1, <2>3, Zenon
    <3>4. QED
      BY <2>1, <3>2, <3>3
  <2>4. CASE <<q[j], q[i]>> \in R
    <3>1. RankOf(R, S, q[j]) < RankOf(R, S, q[i])
      BY <2>1, <2>4, RankRises
    <3>2. <<q[i], q[j]>> \notin R
      BY <2>1, <2>4 DEF Ordered
    <3>3. QED
      BY <2>1, <3>1, <3>2
  <2>5. QED
    BY <2>1, <2>2, <2>3, <2>4 DEF Ordered
<1>6. ASSUME NEW x \in S PROVE \E i \in 1 .. Len(q) : q[i] = x
  <2> DEFINE k == RankOf(R, S, x)
  <2>1. k \in 0 .. Cardinality(S) - 1
    BY RankRange
  <2> HIDE DEF k
  <2>2. k + 1 \in 1 .. Cardinality(S) /\ (k + 1) - 1 = k
    BY <1>1, <2>1
  <2>3. q[k + 1] \in S /\ RankOf(R, S, q[k + 1]) = k
    BY <1>2, <2>2
  <2>4. q[k + 1] = x
    <3>1. SUFFICES ASSUME q[k + 1] # x PROVE FALSE
      OBVIOUS
    <3>2. RankOf(R, S, q[k + 1]) < RankOf(R, S, x) \/ RankOf(R, S, x) < RankOf(R, S, q[k + 1])
      <4>1. <<q[k + 1], x>> \in R \/ <<x, q[k + 1]>> \in R
        <5>1. \A u, v \in S : u = v \/ <<u, v>> \in R \/ <<v, u>> \in R
          BY Zenon DEF Ordered
        <5>2. QED
          BY <2>3, <3>1, <5>1, Zenon
      <4>2. QED
        BY <2>3, <4>1, RankRises
    <3>3. QED
      BY <2>1, <2>3, <3>2 DEF k
  <2>5. QED
    BY <1>4, <2>2, <2>4
<1>7. QED
  BY <1>2, <1>4, <1>5, <1>6 DEF Lists

(* The order of numbers.                                                   *)
LessOn(S) == {p \in S \X S : p[1] < p[2]}

LEMMA AscendingNumbers ==
  ASSUME NEW S \in SUBSET Int, IsFiniteSet(S)
  PROVE  /\ Ascending(S, <) \in Seq(S) /\ Len(Ascending(S, <)) = Cardinality(S)
         /\ \A i, j \in 1 .. Cardinality(S) : Ascending(S, <)[i] < Ascending(S, <)[j] <=> i < j
         /\ \A x \in S : \E i \in 1 .. Cardinality(S) : Ascending(S, <)[i] = x
<1> DEFINE R == LessOn(S)
           q == Ascending(S, <)
<1>1. \A x, y \in S : <<x, y>> \in R <=> x < y
  BY DEF LessOn
<1>2. Ordered(R, S)
  <2> HIDE DEF R
  <2>1. \A x, y \in S : x \in Int /\ y \in Int
    OBVIOUS
  <2>2. QED
    BY <1>1, <2>1 DEF Ordered
<1>3. \A x \in S : {y \in S : y < x} = Below(R, S, x)
  BY <1>1 DEF Below
<1>4. q = [i \in 1 .. Cardinality(S) |-> CHOOSE x \in S : Cardinality({y \in S : y < x}) = i - 1]
  BY DEF Ascending
<1> HIDE DEF R, q
<1>5. q = [i \in 1 .. Cardinality(S) |-> q[i]]
  <2> DEFINE pick(i) == CHOOSE x \in S : Cardinality({y \in S : y < x}) = i - 1
  <2>1. q = [i \in 1 .. Cardinality(S) |-> pick(i)]
    BY <1>4
  <2> HIDE DEF pick
  <2>2. QED
    BY <2>1
<1>6. ASSUME NEW i \in 1 .. Cardinality(S), \E x \in S : RankOf(R, S, x) = i - 1
      PROVE  q[i] \in S /\ RankOf(R, S, q[i]) = i - 1
  <2>1. q[i] = CHOOSE x \in S : Cardinality({y \in S : y < x}) = i - 1
    BY <1>4
  <2>2. \E x \in S : Cardinality({y \in S : y < x}) = i - 1
    BY <1>3, <1>6 DEF RankOf
  <2>3. q[i] \in S /\ Cardinality({y \in S : y < q[i]}) = i - 1
    BY <2>1, <2>2, Zenon
  <2>4. QED
    BY <1>3, <2>3 DEF RankOf
<1>7. Lists(q, R, S)
  <2>1. Ranks(q, R, S)
    BY <1>5, <1>6 DEF Ranks
  <2>2. QED
    BY <1>2, <2>1, ListsByRank
<1>8. \A i \in 1 .. Len(q) : q[i] \in S
  BY <1>7 DEF Lists
<1>9. QED
  BY Zenon, <1>1, <1>7, <1>8 DEF Lists, q

-----------------------------------------------------------------------------
(* The library's operators as the instance SM has them.                    *)

LEMMA SMCardinality ==
  ASSUME NEW S
  PROVE  SM!Cardinality(S) = Cardinality(S)
BY DEF SM!Cardinality, Cardinality, SM!IsFiniteSet, IsFiniteSet

LEMMA SMToSet ==
  ASSUME NEW s
  PROVE  SM!ToSet(s) = ToSet(s)
BY DEF SM!ToSet, ToSet

LEMMA SMFlatten ==
  ASSUME NEW s
  PROVE  SM!FlattenSeq(s) = FlattenSeq(s)
BY DEF SM!FlattenSeq, FlattenSeq

LEMMA SMPicked ==
  ASSUME NEW s, NEW I
  PROVE  SM!Picked(s, I) = Picked(s, I)
BY Zenon DEF SM!Picked, Picked, SM!Ascending, Ascending, SM!Cardinality, Cardinality, SM!IsFiniteSet, IsFiniteSet

LEMMA SMAscending ==
  ASSUME NEW I
  PROVE  SM!Ascending(I, <) = Ascending(I, <)
BY Zenon DEF SM!Ascending, Ascending, SM!Cardinality, Cardinality, SM!IsFiniteSet, IsFiniteSet

-----------------------------------------------------------------------------
(* Where the elements of a concatenation come from.                        *)

(* Element k of q is element I[k] of part B[k], of the first n parts of p. *)
PlacedIn(B, I, p, q, n) ==
  /\ \A k \in 1 .. Len(q) :
       B[k] \in 1 .. n /\ I[k] \in 1 .. Len(p[B[k]]) /\ q[k] = p[B[k]][I[k]]
  /\ \A j, k \in 1 .. Len(q) : j < k => B[j] < B[k] \/ (B[j] = B[k] /\ I[j] < I[k])
  /\ \A b \in 1 .. n : \A i \in 1 .. Len(p[b]) : \E k \in 1 .. Len(q) : B[k] = b /\ I[k] = i

HasPlaces(p, q, n) == \E B, I : PlacedIn(B, I, p, q, n)

LEMMA PlacesNext ==
  ASSUME NEW S, NEW p, NEW n \in Nat, NEW q \in Seq(S), p[n + 1] \in Seq(S), HasPlaces(p, q, n)
  PROVE  HasPlaces(p, q \o p[n + 1], n + 1)
<1>1. PICK B, I : PlacedIn(B, I, p, q, n)
  BY DEF HasPlaces
<1> DEFINE L == Len(q)
           r == p[n + 1]
           M == Len(r)
           t == q \o r
           C == [k \in 1 .. L + M |-> IF k <= L THEN B[k] ELSE n + 1]
           J == [k \in 1 .. L + M |-> IF k <= L THEN I[k] ELSE k - L]
<1>2. /\ L \in Nat /\ M \in Nat /\ Len(t) = L + M /\ r \in Seq(S)
      /\ \A k \in 1 .. L : t[k] = q[k]
      /\ \A k \in L + 1 .. L + M : t[k] = r[k - L]
  BY ConcatProperties
<1> HIDE DEF L, M, t, r
<1>3. /\ \A k \in 1 .. L : C[k] = B[k] /\ J[k] = I[k]
      /\ \A k \in L + 1 .. L + M : C[k] = n + 1 /\ J[k] = k - L
  BY <1>2
<1> HIDE DEF C, J
<1>4. /\ \A k \in 1 .. L : B[k] \in 1 .. n /\ I[k] \in 1 .. Len(p[B[k]]) /\ q[k] = p[B[k]][I[k]]
      /\ \A j, k \in 1 .. L : j < k => B[j] < B[k] \/ (B[j] = B[k] /\ I[j] < I[k])
      /\ \A b \in 1 .. n : \A i \in 1 .. Len(p[b]) : \E k \in 1 .. L : B[k] = b /\ I[k] = i
  BY <1>1 DEF PlacedIn, L
<1>5. ASSUME NEW k \in 1 .. L + M
      PROVE  C[k] \in 1 .. n + 1 /\ J[k] \in 1 .. Len(p[C[k]]) /\ t[k] = p[C[k]][J[k]]
  <2>1. CASE k <= L
    <3>1. k \in 1 .. L
      BY <1>2, <2>1
    <3>2. C[k] = B[k] /\ J[k] = I[k] /\ t[k] = q[k] /\ B[k] \in 1 .. n
          /\ I[k] \in 1 .. Len(p[B[k]]) /\ q[k] = p[B[k]][I[k]]
      BY <1>2, <1>3, <1>4, <3>1
    <3>3. QED
      BY <3>2
  <2>2. CASE ~ (k <= L)
    <3>1. k \in L + 1 .. L + M /\ k - L \in 1 .. M
      BY <1>2, <2>2
    <3>2. C[k] = n + 1 /\ J[k] = k - L /\ t[k] = r[k - L]
      BY <1>2, <1>3, <3>1
    <3>3. p[C[k]] = r /\ Len(r) = M
      BY <3>2 DEF r, M
    <3>4. QED
      BY <3>1, <3>2, <3>3
  <2>3. QED
    BY <2>1, <2>2
<1>6. ASSUME NEW j \in 1 .. L + M, NEW k \in 1 .. L + M, j < k
      PROVE  C[j] < C[k] \/ (C[j] = C[k] /\ J[j] < J[k])
  <2>1. CASE k <= L
    <3>1. j \in 1 .. L /\ k \in 1 .. L
      BY <1>2, <1>6, <2>1
    <3>2. QED
      BY <1>3, <1>4, <1>6, <3>1
  <2>2. CASE j <= L /\ ~ (k <= L)
    <3>1. j \in 1 .. L /\ k \in L + 1 .. L + M
      BY <1>2, <2>2
    <3>2. C[j] \in 1 .. n /\ C[k] = n + 1
      BY <1>3, <1>4, <3>1
    <3>3. QED
      BY <3>2
  <2>3. CASE ~ (j <= L)
    <3>1. j \in L + 1 .. L + M /\ k \in L + 1 .. L + M
      BY <1>2, <1>6, <2>3
    <3>2. C[j] = n + 1 /\ C[k] = n + 1 /\ J[j] = j - L /\ J[k] = k - L
      BY <1>3, <3>1
    <3>3. QED
      BY <1>2, <1>6, <3>2
  <2>4. QED
    BY <2>1, <2>2, <2>3
<1>7. ASSUME NEW b \in 1 .. n + 1, NEW i \in 1 .. Len(p[b])
      PROVE  \E k \in 1 .. L + M : C[k] = b /\ J[k] = i
  <2>1. CASE b # n + 1
    <3>1. b \in 1 .. n
      BY <2>1
    <3>2. PICK k \in 1 .. L : B[k] = b /\ I[k] = i
      BY <1>4, <3>1
    <3>3. k \in 1 .. L + M /\ C[k] = b /\ J[k] = i
      BY <1>2, <1>3, <3>2
    <3>4. QED
      BY <3>3
  <2>2. CASE b = n + 1
    <3>1. i \in 1 .. M
      BY <2>2 DEF M, r
    <3>2. L + i \in L + 1 .. L + M /\ L + i \in 1 .. L + M /\ (L + i) - L = i
      BY <1>2, <3>1
    <3>3. C[L + i] = n + 1 /\ J[L + i] = i
      BY <1>3, <3>2
    <3>4. QED
      BY <2>2, <3>2, <3>3
  <2>3. QED
    BY <2>1, <2>2
<1>8. PlacedIn(C, J, p, t, n + 1)
  BY <1>2, <1>5, <1>6, <1>7 DEF PlacedIn
<1>9. HasPlaces(p, t, n + 1)
  BY <1>8 DEF HasPlaces
<1>10. QED
  BY <1>9 DEF t, r

LEMMA FlattenPlaces ==
  ASSUME NEW S, NEW p \in Seq(Seq(S))
  PROVE  HasPlaces(p, FlattenSeq(p), Len(p)) /\ FlattenSeq(p) \in Seq(S)
<1>1. PICK g : Glues(g, p, S)
  BY GluesExists
<1>2. /\ g \in [0 .. Len(p) -> Seq(S)] /\ g[0] = <<>>
      /\ \A i \in 1 .. Len(p) : g[i] = g[i - 1] \o p[i]
  BY <1>1 DEF Glues, GluesTo
<1>3. Len(p) \in Nat /\ \A i \in 1 .. Len(p) : p[i] \in Seq(S)
  BY ElementOfSeq
<1> DEFINE P == {n \in Nat : n <= Len(p) => HasPlaces(p, g[n], n)}
<1>4. 0 \in P
  <2>1. HasPlaces(p, <<>>, 0)
    BY DEF HasPlaces, PlacedIn
  <2>2. QED
    BY <1>2, <2>1
<1>5. ASSUME NEW n \in P \cap Nat PROVE n + 1 \in P
  <2>1. SUFFICES ASSUME n + 1 <= Len(p) PROVE HasPlaces(p, g[n + 1], n + 1)
    OBVIOUS
  <2>2. n \in 0 .. Len(p) /\ n + 1 \in 1 .. Len(p) /\ (n + 1) - 1 = n /\ HasPlaces(p, g[n], n)
    BY <1>3, <2>1
  <2>3. g[n] \in Seq(S) /\ p[n + 1] \in Seq(S) /\ g[n + 1] = g[n] \o p[n + 1]
    BY <1>2, <1>3, <2>2
  <2>4. QED
    BY <2>2, <2>3, PlacesNext
<1>6. Nat \subseteq P
  <2> HIDE DEF P
  <2> QED BY <1>4, <1>5, SetInduction
<1>7. HasPlaces(p, g[Len(p)], Len(p))
  BY <1>3, <1>6
<1>8. QED
  BY <1>1, <1>7, FlattenGlues, FlattenType

-----------------------------------------------------------------------------
(* Elements picked from a sequence.                                        *)

(* at are the places in I, in order.                                       *)
PickedAt(at, s, I, q) ==
  /\ \A k \in 1 .. Len(q) : at[k] \in I /\ q[k] = s[at[k]]
  /\ \A j, k \in 1 .. Len(q) : at[j] < at[k] <=> j < k
  /\ \A i \in I : \E k \in 1 .. Len(q) : at[k] = i

LEMMA PickedFacts ==
  ASSUME NEW S, NEW s \in Seq(S), NEW I \in SUBSET (1 .. Len(s))
  PROVE  /\ Picked(s, I) \in Seq(S) /\ Len(Picked(s, I)) \in Nat
         /\ \E at : PickedAt(at, s, I, Picked(s, I))
<1> DEFINE at == Ascending(I, <)
           q == [k \in 1 .. Cardinality(I) |-> s[at[k]]]
<1>1. IsFiniteSet(I) /\ I \in SUBSET Int
  <2>1. IsFiniteSet(1 .. Len(s)) /\ Len(s) \in Nat
    BY FS_Interval
  <2>2. IsFiniteSet(I)
    BY <2>1, FS_Subset, Zenon
  <2>3. I \in SUBSET Int
    BY <2>1
  <2>4. QED
    BY <2>2, <2>3
<1>2. /\ at \in Seq(I) /\ Len(at) = Cardinality(I)
      /\ \A i, j \in 1 .. Cardinality(I) : at[i] < at[j] <=> i < j
      /\ \A x \in I : \E i \in 1 .. Cardinality(I) : at[i] = x
  BY Zenon, <1>1, AscendingNumbers
<1>3. Cardinality(I) \in Nat
  BY <1>1, FS_CardinalityType
<1>4. Picked(s, I) = q
  BY DEF Picked
<1> HIDE DEF at
<1>5. \A k \in 1 .. Cardinality(I) : at[k] \in I /\ s[at[k]] \in S
  BY <1>2, ElementOfSeq
<1>6. q \in Seq(S) /\ Len(q) = Cardinality(I) /\ \A k \in 1 .. Cardinality(I) : q[k] = s[at[k]]
  BY <1>3, <1>5
<1> HIDE DEF q
<1>7. PickedAt(at, s, I, q)
  BY <1>2, <1>5, <1>6 DEF PickedAt
<1>8. QED
  BY <1>3, <1>4, <1>6, <1>7

-----------------------------------------------------------------------------
(* Sequences of values.                                                    *)

Value == [ts : Int, src : Nat, at : Nat \X Nat]

\* The places of a stream's values differ.
PlacesDiffer(V) == \A x, y \in V : x.at = y.at => x = y

ValuesOn(V) == {p \in V \X V : SM!ValueBefore(p[1], p[2])}

\* q is in order of time, and of place within a time.
Rises(q) == \A i, j \in 1 .. Len(q) : i < j => SM!ValueBefore(q[i], q[j])

LEMMA ToSetFinite ==
  ASSUME NEW S, NEW s \in Seq(S)
  PROVE  IsFiniteSet(ToSet(s)) /\ ToSet(s) = {s[i] : i \in 1 .. Len(s)} /\ ToSet(s) \in SUBSET S
<1>1. ToSet(s) = {s[i] : i \in 1 .. Len(s)} /\ ToSet(s) \in SUBSET S
  BY ElementOfSeq DEF ToSet
<1>2. IsFiniteSet(1 .. Len(s)) /\ Len(s) \in Nat
  BY FS_Interval
<1>3. IsFiniteSet({s[i] : i \in 1 .. Len(s)})
  BY <1>2, ImageFinite, Zenon
<1>4. QED
  BY <1>1, <1>3

LEMMA ValuesOrdered ==
  ASSUME NEW V \in SUBSET Value, PlacesDiffer(V)
  PROVE  Ordered(ValuesOn(V), V)
<1>1. \A x \in V : x.ts \in Int /\ x.at[1] \in Nat /\ x.at[2] \in Nat /\ x.at = <<x.at[1], x.at[2]>>
  BY DEF Value
<1>2. \A x, y \in V : <<x, y>> \in ValuesOn(V) <=>
        x.ts < y.ts \/ (x.ts = y.ts /\ (x.at[1] < y.at[1] \/ (x.at[1] = y.at[1] /\ x.at[2] < y.at[2])))
  BY DEF ValuesOn, SM!ValueBefore, SM!Earlier
<1>3. \A x, y \in V : x.at[1] = y.at[1] /\ x.at[2] = y.at[2] => x = y
  <2>1. SUFFICES ASSUME NEW x \in V, NEW y \in V, x.at[1] = y.at[1], x.at[2] = y.at[2] PROVE x = y
    OBVIOUS
  <2>2. x.at = y.at
    BY <1>1, <2>1
  <2>3. QED
    BY <2>2 DEF PlacesDiffer
<1>4. \A x \in V : <<x, x>> \notin ValuesOn(V)
  BY <1>1, <1>2
<1>5. \A x, y, z \in V : <<x, y>> \in ValuesOn(V) /\ <<y, z>> \in ValuesOn(V) => <<x, z>> \in ValuesOn(V)
  BY <1>1, <1>2
<1>6. ASSUME NEW x \in V, NEW y \in V
      PROVE  x = y \/ <<x, y>> \in ValuesOn(V) \/ <<y, x>> \in ValuesOn(V)
  <2>1. /\ x.ts < y.ts \/ y.ts < x.ts \/ x.ts = y.ts
        /\ x.at[1] < y.at[1] \/ y.at[1] < x.at[1] \/ x.at[1] = y.at[1]
        /\ x.at[2] < y.at[2] \/ y.at[2] < x.at[2] \/ x.at[2] = y.at[2]
    BY <1>1
  <2>2. x.ts = y.ts => y.ts = x.ts
    OBVIOUS
  <2>3. QED
    BY <1>2, <1>3, <2>1, <2>2, Zenon
<1>7. QED
  BY <1>4, <1>5, <1>6 DEF Ordered

LEMMA SortedFacts ==
  ASSUME NEW vals \in Seq(Value), PlacesDiffer(ToSet(vals))
  PROVE  /\ SM!SortedByTime(vals) \in Seq(ToSet(vals)) /\ SM!SortedByTime(vals) \in Seq(Value)
         /\ Rises(SM!SortedByTime(vals)) /\ ToSet(SM!SortedByTime(vals)) = ToSet(vals)
<1> DEFINE V == ToSet(vals)
           R == ValuesOn(V)
           q == SM!SortedByTime(vals)
<1>1. V \in SUBSET Value /\ IsFiniteSet(V) /\ PlacesDiffer(V)
  BY ToSetFinite
<1>2. Ordered(R, V)
  BY <1>1, ValuesOrdered
<1>3. \A x \in V : {y \in V : SM!ValueBefore(y, x)} = Below(R, V, x)
  BY DEF Below, ValuesOn
<1> DEFINE pick(i) == CHOOSE x \in V : Cardinality({y \in V : SM!ValueBefore(y, x)}) = i - 1
<1>4. q = [i \in 1 .. Cardinality(V) |-> pick(i)]
  BY Zenon DEF SM!SortedByTime, SM!Ascending, SM!ToSet, ToSet, SM!Cardinality, Cardinality, SM!IsFiniteSet, IsFiniteSet
<1> HIDE DEF R, q, V
<1>5. q = [i \in 1 .. Cardinality(V) |-> q[i]]
  <2> HIDE DEF pick
  <2> QED BY <1>4
<1>6. ASSUME NEW i \in 1 .. Cardinality(V), \E x \in V : RankOf(R, V, x) = i - 1
      PROVE  q[i] \in V /\ RankOf(R, V, q[i]) = i - 1
  <2>1. q[i] = pick(i)
    BY <1>4
  <2>2. \E x \in V : Cardinality({y \in V : SM!ValueBefore(y, x)}) = i - 1
    BY <1>3, <1>6 DEF RankOf
  <2>3. q[i] \in V /\ Cardinality({y \in V : SM!ValueBefore(y, q[i])}) = i - 1
    BY <2>1, <2>2, Zenon
  <2>4. QED
    BY <1>3, <2>3 DEF RankOf
<1>7. Lists(q, R, V)
  <2>1. Ranks(q, R, V)
    BY <1>5, <1>6 DEF Ranks
  <2>2. QED
    BY <1>1, <1>2, <2>1, ListsByRank
<1>8. q \in Seq(V) /\ \A i, j \in 1 .. Len(q) : <<q[i], q[j]>> \in R <=> i < j
  BY <1>7 DEF Lists
<1>9. q \in Seq(Value)
  <2>1. \A i \in 1 .. Len(q) : q[i] \in Value
    BY <1>1, <1>8, ElementOfSeq
  <2>2. QED
    BY <1>8, <2>1
<1>10. Rises(q)
  <2>1. \A x, y \in V : <<x, y>> \in R => SM!ValueBefore(x, y)
    BY DEF R, ValuesOn
  <2>2. QED
    BY <1>8, <2>1, ElementOfSeq DEF Rises
<1>11. ToSet(q) = V
  <2>1. ToSet(q) = {q[i] : i \in 1 .. Len(q)} /\ ToSet(q) \in SUBSET V
    BY <1>8, ToSetFinite
  <2>2. \A x \in V : \E i \in 1 .. Len(q) : q[i] = x
    BY <1>7 DEF Lists
  <2>3. QED
    BY <2>1, <2>2
<1>12. QED
  BY <1>8, <1>9, <1>10, <1>11 DEF q, V

(* A window of such a sequence.                                            *)
LEMMA WindowFacts ==
  ASSUME NEW vals \in Seq(Value), Rises(vals), NEW w, w[1] \in Int, w[2] \in Int
  PROVE  LET q == SM!InWindow(vals, w) IN
         /\ q \in Seq(Value) /\ Rises(q)
         /\ ToSet(q) = {v \in ToSet(vals) : v.ts \in w[1] .. w[2]}
<1> DEFINE asked == {i \in 1 .. Len(vals) : vals[i].ts >= w[1]}
           beyond == {i \in asked : vals[i].ts > w[2]}
           I == {i \in asked : \A j \in beyond : i < j}
           q == SM!InWindow(vals, w)
<1>1. I \in SUBSET (1 .. Len(vals)) /\ Len(vals) \in Nat
  OBVIOUS
<1>2. q = Picked(vals, I)
  BY SMPicked DEF SM!InWindow
<1>3. \A i \in 1 .. Len(vals) : vals[i] \in Value /\ vals[i].ts \in Int
  <2>1. \A i \in 1 .. Len(vals) : vals[i] \in Value
    BY ElementOfSeq
  <2>2. \A v \in Value : v.ts \in Int
    BY DEF Value
  <2>3. QED
    BY <2>1, <2>2
<1>4. \A i, j \in 1 .. Len(vals) : i < j => vals[i].ts <= vals[j].ts
  <2>1. \A i, j \in 1 .. Len(vals) : i < j => vals[i].ts < vals[j].ts \/ vals[i].ts = vals[j].ts
    BY DEF Rises, SM!ValueBefore
  <2>2. QED
    BY <1>3, <2>1
<1>5. \A i \in 1 .. Len(vals) : i \in I <=> vals[i].ts \in w[1] .. w[2]
  <2>1. ASSUME NEW i \in 1 .. Len(vals), i \in I PROVE vals[i].ts \in w[1] .. w[2]
    <3>1. vals[i].ts >= w[1] /\ i \notin beyond
      BY <2>1
    <3>2. QED
      BY <1>3, <2>1, <3>1
  <2>2. ASSUME NEW i \in 1 .. Len(vals), vals[i].ts \in w[1] .. w[2] PROVE i \in I
    <3>1. i \in asked
      BY <1>3, <2>2
    <3>2. ASSUME NEW j \in beyond PROVE i < j
      <4>1. j \in 1 .. Len(vals) /\ vals[j].ts > w[2] /\ vals[j].ts \in Int
        BY <1>3
      <4>2. vals[i].ts <= w[2] /\ i # j
        BY <2>2, <4>1
      <4>3. ~ (j < i)
        BY <1>3, <1>4, <2>2, <4>1, <4>2
      <4>4. QED
        BY <4>1, <4>2, <4>3
    <3>3. QED
      BY <3>1, <3>2
  <2>3. QED
    BY <2>1, <2>2
<1> HIDE DEF I, q
<1>6. Picked(vals, I) \in Seq(Value) /\ \E at : PickedAt(at, vals, I, Picked(vals, I))
  BY <1>1, PickedFacts
<1>7. q \in Seq(Value) /\ \E at : PickedAt(at, vals, I, q)
  BY <1>2, <1>6
<1>8. PICK at : PickedAt(at, vals, I, q)
  BY <1>7
<1>9. /\ \A k \in 1 .. Len(q) : at[k] \in I /\ q[k] = vals[at[k]]
      /\ \A j, k \in 1 .. Len(q) : at[j] < at[k] <=> j < k
      /\ \A i \in I : \E k \in 1 .. Len(q) : at[k] = i
  BY <1>8 DEF PickedAt
<1>10. Rises(q)
  <2>1. ASSUME NEW j \in 1 .. Len(q), NEW k \in 1 .. Len(q), j < k
        PROVE  SM!ValueBefore(q[j], q[k])
    <3>1. at[j] \in 1 .. Len(vals) /\ at[k] \in 1 .. Len(vals) /\ at[j] < at[k]
          /\ q[j] = vals[at[j]] /\ q[k] = vals[at[k]]
      BY <1>1, <1>9, <2>1
    <3>2. QED
      BY <3>1 DEF Rises
  <2>2. QED
    BY <2>1 DEF Rises
<1>11. ToSet(q) = {v \in ToSet(vals) : v.ts \in w[1] .. w[2]}
  <2>1. ToSet(q) = {q[k] : k \in 1 .. Len(q)} /\ ToSet(vals) = {vals[i] : i \in 1 .. Len(vals)}
    BY <1>7, ToSetFinite
  <2>2. \A k \in 1 .. Len(q) : q[k] \in ToSet(vals) /\ q[k].ts \in w[1] .. w[2]
    BY <1>1, <1>5, <1>9, <2>1
  <2>3. ASSUME NEW v \in ToSet(vals), v.ts \in w[1] .. w[2] PROVE v \in ToSet(q)
    <3>1. PICK i \in 1 .. Len(vals) : v = vals[i]
      BY <2>1
    <3>2. i \in I
      BY <1>5, <2>3, <3>1
    <3>3. PICK k \in 1 .. Len(q) : at[k] = i
      BY <1>9, <3>2
    <3>4. QED
      BY <1>9, <2>1, <3>1, <3>3
  <2>4. QED
    BY <2>1, <2>2, <2>3
<1>12. QED
  BY <1>7, <1>10, <1>11 DEF q

(* A concatenation of such sequences, each before the next.                *)
LEMMA FlattenRises ==
  ASSUME NEW p \in Seq(Seq(Value)),
         \A b \in 1 .. Len(p) : Rises(p[b]),
         \A b, c \in 1 .. Len(p) : b < c =>
           \A i \in 1 .. Len(p[b]), j \in 1 .. Len(p[c]) : SM!ValueBefore(p[b][i], p[c][j])
  PROVE  /\ FlattenSeq(p) \in Seq(Value) /\ Rises(FlattenSeq(p))
         /\ ToSet(FlattenSeq(p)) = UNION {ToSet(p[b]) : b \in 1 .. Len(p)}
<1> DEFINE q == FlattenSeq(p)
<1>1. q \in Seq(Value) /\ HasPlaces(p, q, Len(p))
  BY FlattenPlaces
<1> HIDE DEF q
<1>2. PICK B, I : PlacedIn(B, I, p, q, Len(p))
  BY <1>1 DEF HasPlaces
<1>3. /\ \A k \in 1 .. Len(q) : B[k] \in 1 .. Len(p) /\ I[k] \in 1 .. Len(p[B[k]]) /\ q[k] = p[B[k]][I[k]]
      /\ \A j, k \in 1 .. Len(q) : j < k => B[j] < B[k] \/ (B[j] = B[k] /\ I[j] < I[k])
      /\ \A b \in 1 .. Len(p) : \A i \in 1 .. Len(p[b]) : \E k \in 1 .. Len(q) : B[k] = b /\ I[k] = i
  BY <1>2 DEF PlacedIn
<1>4. Rises(q)
  <2>1. ASSUME NEW j \in 1 .. Len(q), NEW k \in 1 .. Len(q), j < k
        PROVE  SM!ValueBefore(q[j], q[k])
    <3>1. /\ B[j] \in 1 .. Len(p) /\ I[j] \in 1 .. Len(p[B[j]]) /\ q[j] = p[B[j]][I[j]]
          /\ B[k] \in 1 .. Len(p) /\ I[k] \in 1 .. Len(p[B[k]]) /\ q[k] = p[B[k]][I[k]]
      BY <1>3
    <3>2. CASE B[j] < B[k]
      BY <3>1, <3>2
    <3>3. CASE B[j] = B[k] /\ I[j] < I[k]
      <4>1. Rises(p[B[j]])
        BY <3>1
      <4>2. QED
        BY <3>1, <3>3, <4>1 DEF Rises
    <3>4. QED
      BY <1>3, <2>1, <3>2, <3>3
  <2>2. QED
    BY <2>1 DEF Rises
<1>5. ToSet(q) = UNION {ToSet(p[b]) : b \in 1 .. Len(p)}
  <2>1. ToSet(q) = {q[k] : k \in 1 .. Len(q)}
    BY <1>1, ToSetFinite
  <2>2. \A b \in 1 .. Len(p) : ToSet(p[b]) = {p[b][i] : i \in 1 .. Len(p[b])}
    <3>1. \A b \in 1 .. Len(p) : p[b] \in Seq(Value)
      BY ElementOfSeq
    <3>2. QED
      BY <3>1, ToSetFinite
  <2>3. ASSUME NEW k \in 1 .. Len(q) PROVE q[k] \in UNION {ToSet(p[b]) : b \in 1 .. Len(p)}
    <3>1. B[k] \in 1 .. Len(p) /\ I[k] \in 1 .. Len(p[B[k]]) /\ q[k] = p[B[k]][I[k]]
      BY <1>3
    <3>2. q[k] \in ToSet(p[B[k]])
      BY <2>2, <3>1
    <3>3. QED
      BY <3>1, <3>2
  <2>4. ASSUME NEW b \in 1 .. Len(p), NEW v \in ToSet(p[b]) PROVE v \in ToSet(q)
    <3>1. PICK i \in 1 .. Len(p[b]) : v = p[b][i]
      BY <2>2
    <3>2. PICK k \in 1 .. Len(q) : B[k] = b /\ I[k] = i
      BY <1>3
    <3>3. q[k] = v
      BY <1>3, <3>1, <3>2
    <3>4. QED
      BY <2>1, <3>3
  <2>5. QED
    BY <2>1, <2>3, <2>4
<1>6. QED
  BY <1>1, <1>4, <1>5 DEF q

-----------------------------------------------------------------------------
(* Streams: the values of a key in a file, and of a write in the log.      *)

LEMMA LeastOf ==
  ASSUME NEW n \in Nat, NEW T \in SUBSET (0 .. n), T # {}
  PROVE  SM!Min(T) \in T /\ \A x \in T : SM!Min(T) <= x
<1>1. T \in SUBSET Nat
  OBVIOUS
<1>2. PICK m \in T : \A x \in T : m <= x
  BY <1>1, LeastElement
<1>3. QED
  BY <1>2, Zenon DEF SM!Min

LEMMA GreatestOf ==
  ASSUME NEW n \in Nat, NEW T \in SUBSET (0 .. n), T # {}
  PROVE  SM!Max(T) \in T /\ \A x \in T : SM!Max(T) >= x
<1> DEFINE D == {n - x : x \in T}
<1>1. D \in SUBSET Nat /\ D # {}
  <2>1. \A x \in T : n - x \in Nat
    OBVIOUS
  <2>2. D # {}
    OBVIOUS
  <2>3. QED
    BY <2>1, <2>2
<1>2. PICK d \in D : \A e \in D : d <= e
  BY <1>1, LeastElement
<1>3. PICK m \in T : d = n - m
  BY <1>2
<1>4. ASSUME NEW x \in T PROVE m >= x
  <2>1. n - x \in D /\ d <= n - x
    BY <1>2
  <2>2. m \in 0 .. n /\ x \in 0 .. n
    OBVIOUS
  <2>3. QED
    BY <1>3, <2>1, <2>2
<1>5. \E u \in T : \A x \in T : u >= x
  BY <1>4
<1>6. QED
  BY <1>5, Zenon DEF SM!Max

LEMMA TimesAre ==
  SM!Times = 0 .. LastTime /\ LastTime \in Nat
  BY PointsAssumption DEF SM!Times

\* A block, and the blocks of a key.
Block == Seq(SM!Times) \ {<<>>}

ValueAt(src, b, i, ts) == [ts |-> ts, src |-> src, at |-> <<b, i>>]
BlockSet(src, block, b) == {ValueAt(src, b, i, block[i]) : i \in 1 .. Len(block)}
KeySet(src, blocks) == UNION {BlockSet(src, blocks[b], b) : b \in 1 .. Len(blocks)}

LEMMA BlockFacts ==
  ASSUME NEW src \in Nat, NEW block \in Seq(SM!Times), NEW b \in Nat
  PROVE  LET q == SM!BlockValues(src, block, b) IN
         /\ q \in Seq(Value) /\ ToSet(q) = BlockSet(src, block, b)
         /\ PlacesDiffer(ToSet(q))
<1> DEFINE q == SM!BlockValues(src, block, b)
<1>1. Len(block) \in Nat /\ \A i \in 1 .. Len(block) : block[i] \in Int
  <2>1. \A i \in 1 .. Len(block) : block[i] \in SM!Times
    BY ElementOfSeq
  <2>2. QED
    BY <2>1, TimesAre
<1>2. q = [i \in 1 .. Len(block) |-> ValueAt(src, b, i, block[i])]
  BY DEF SM!BlockValues, ValueAt
<1>3. \A i \in 1 .. Len(block) : ValueAt(src, b, i, block[i]) \in Value
  BY <1>1 DEF ValueAt, Value
<1> HIDE DEF q
<1>4. q \in Seq(Value) /\ Len(q) = Len(block) /\ \A i \in 1 .. Len(block) : q[i] = ValueAt(src, b, i, block[i])
  BY <1>1, <1>2, <1>3
<1>5. ToSet(q) = BlockSet(src, block, b)
  BY <1>4, ToSetFinite DEF BlockSet
<1>6. PlacesDiffer(BlockSet(src, block, b))
  BY DEF PlacesDiffer, BlockSet, ValueAt
<1>7. QED
  BY <1>4, <1>5, <1>6 DEF q

LEMMA SortedBlock ==
  ASSUME NEW src \in Nat, NEW block \in Seq(SM!Times), NEW b \in Nat
  PROVE  LET q == SM!SortedByTime(SM!BlockValues(src, block, b)) IN
         q \in Seq(Value) /\ Rises(q) /\ ToSet(q) = BlockSet(src, block, b)
  BY BlockFacts, SortedFacts

(* The write of a log: a stream of its own.                                *)
LEMMA SliceFacts ==
  ASSUME NEW src \in Nat, NEW times \in Seq(SM!Times), NEW w, w[1] \in Int, w[2] \in Int
  PROVE  LET q == SM!SliceStream(src, times, w) IN
         /\ q \in Seq(Value) /\ Rises(q)
         /\ ToSet(q) = {v \in BlockSet(src, times, 0) : v.ts \in w[1] .. w[2]}
<1> DEFINE r == SM!SortedByTime(SM!BlockValues(src, times, 0))
<1>1. r \in Seq(Value) /\ Rises(r) /\ ToSet(r) = BlockSet(src, times, 0)
  BY SortedBlock
<1>2. SM!SliceStream(src, times, w) = SM!InWindow(r, w)
  BY DEF SM!SliceStream
<1> HIDE DEF r
<1>3. QED
  BY <1>1, <1>2, WindowFacts

LEMMA BlockRange ==
  ASSUME NEW block \in Block
  PROVE  /\ SM!MinTime(block) \in ToSet(block) /\ SM!MaxTime(block) \in ToSet(block)
         /\ ToSet(block) \in SUBSET SM!Times /\ SM!MinTime(block) \in Nat /\ SM!MaxTime(block) \in Nat
         /\ \A t \in ToSet(block) : t \in SM!MinTime(block) .. SM!MaxTime(block)
         /\ \A src, b : \A v \in BlockSet(src, block, b) :
              v.ts \in ToSet(block) /\ v.ts \in SM!MinTime(block) .. SM!MaxTime(block)
<1>1. block \in Seq(SM!Times) /\ Len(block) \in Nat /\ Len(block) # 0
  BY EmptySeq DEF Block
<1>2. ToSet(block) = {block[i] : i \in 1 .. Len(block)} /\ ToSet(block) \in SUBSET (0 .. LastTime)
  BY <1>1, ToSetFinite, TimesAre
<1>3. block[1] \in ToSet(block)
  BY <1>1, <1>2
<1>4. /\ SM!MinTime(block) \in ToSet(block) /\ SM!MaxTime(block) \in ToSet(block)
      /\ \A t \in ToSet(block) : SM!MinTime(block) <= t /\ SM!MaxTime(block) >= t
  BY <1>2, <1>3, SMToSet, TimesAre, LeastOf, GreatestOf DEF SM!MinTime, SM!MaxTime
<1>5. \A t \in ToSet(block) : t \in Nat
  BY <1>2
<1>6. \A t \in ToSet(block) : t \in SM!MinTime(block) .. SM!MaxTime(block)
  BY <1>4, <1>5
<1>7. \A src, b : \A v \in BlockSet(src, block, b) : v.ts \in ToSet(block)
  BY <1>2 DEF BlockSet, ValueAt
<1>8. QED
  BY <1>2, <1>4, <1>5, <1>6, <1>7, TimesAre

(* Ascending blocks are in order of time.                                  *)
LEMMA AscendingBlocks ==
  ASSUME NEW blocks \in Seq(Block), SM!EntriesAscending(blocks),
         NEW a \in 1 .. Len(blocks), NEW b \in 1 .. Len(blocks), a < b
  PROVE  SM!MaxTime(blocks[a]) <= SM!MinTime(blocks[b])
<1> DEFINE P == {n \in Nat : a + 1 + n <= Len(blocks) =>
                              SM!MaxTime(blocks[a]) <= SM!MinTime(blocks[a + 1 + n])}
<1>1. Len(blocks) \in Nat /\ \A c \in 1 .. Len(blocks) : blocks[c] \in Block
  BY ElementOfSeq
<1>2. \A c \in 1 .. Len(blocks) : /\ SM!MinTime(blocks[c]) \in Nat /\ SM!MaxTime(blocks[c]) \in Nat
                                  /\ SM!MinTime(blocks[c]) <= SM!MaxTime(blocks[c])
  <2>1. ASSUME NEW c \in 1 .. Len(blocks)
        PROVE  /\ SM!MinTime(blocks[c]) \in Nat /\ SM!MaxTime(blocks[c]) \in Nat
               /\ SM!MinTime(blocks[c]) <= SM!MaxTime(blocks[c])
    <3>1. blocks[c] \in Block
      BY <1>1
    <3>2. /\ SM!MinTime(blocks[c]) \in ToSet(blocks[c])
          /\ SM!MinTime(blocks[c]) \in Nat /\ SM!MaxTime(blocks[c]) \in Nat
          /\ \A t \in ToSet(blocks[c]) : t \in SM!MinTime(blocks[c]) .. SM!MaxTime(blocks[c])
      BY <3>1, BlockRange
    <3>3. QED
      BY <3>2
  <2>2. QED
    BY <2>1
<1>3. \A c \in 2 .. Len(blocks) : SM!MinTime(blocks[c]) >= SM!MaxTime(blocks[c - 1])
  BY DEF SM!EntriesAscending
<1>4. 0 \in P
  <2>1. SUFFICES ASSUME a + 1 + 0 <= Len(blocks)
                 PROVE  SM!MaxTime(blocks[a]) <= SM!MinTime(blocks[a + 1 + 0])
    OBVIOUS
  <2>2. a + 1 \in 2 .. Len(blocks) /\ (a + 1) - 1 = a /\ a + 1 + 0 = a + 1 /\ a + 1 \in 1 .. Len(blocks)
    BY <1>1, <2>1
  <2>3. SM!MinTime(blocks[a + 1]) >= SM!MaxTime(blocks[a])
    BY <1>3, <2>2
  <2>4. QED
    BY <1>2, <2>2, <2>3
<1>5. ASSUME NEW n \in P \cap Nat PROVE n + 1 \in P
  <2>1. SUFFICES ASSUME a + 1 + (n + 1) <= Len(blocks)
                 PROVE  SM!MaxTime(blocks[a]) <= SM!MinTime(blocks[a + 1 + (n + 1)])
    OBVIOUS
  <2> DEFINE c == a + 1 + n
  <2>2. /\ c \in 1 .. Len(blocks) /\ c + 1 \in 2 .. Len(blocks) /\ c + 1 \in 1 .. Len(blocks)
        /\ (c + 1) - 1 = c /\ c + 1 = a + 1 + (n + 1) /\ c <= Len(blocks)
    BY <1>1, <2>1
  <2>3. SM!MaxTime(blocks[a]) <= SM!MinTime(blocks[c])
    BY <1>5, <2>2
  <2> HIDE DEF c
  <2>4. SM!MinTime(blocks[c + 1]) >= SM!MaxTime(blocks[c])
    BY <1>3, <2>2
  <2>5. SM!MaxTime(blocks[a]) <= SM!MinTime(blocks[c + 1])
    BY <1>2, <2>2, <2>3, <2>4
  <2>6. QED
    BY <2>2, <2>5
<1>6. Nat \subseteq P
  <2> HIDE DEF P
  <2> QED BY <1>4, <1>5, SetInduction
<1>7. b - a - 1 \in Nat /\ a + 1 + (b - a - 1) = b
  OBVIOUS
<1>8. b - a - 1 \in P
  BY <1>6, <1>7
<1>9. QED
  BY <1>1, <1>7, <1>8

(* A stream has exactly the key's values in the window, in order.          *)
LEMMA StreamFacts ==
  ASSUME NEW src \in Nat, NEW blocks \in Seq(Block), NEW w, w[1] \in Int, w[2] \in Int
  PROVE  LET q == SM!BlockStream(src, blocks, w) IN
         /\ q \in Seq(Value) /\ Rises(q)
         /\ ToSet(q) = {v \in KeySet(src, blocks) : v.ts \in w[1] .. w[2]}
<1> DEFINE n == Len(blocks)
           values(b) == SM!BlockValues(src, blocks[b], b)
           every == [b \in 1 .. n |-> values(b)]
           some == [b \in 1 .. n |-> IF b \in SM!Pruned(blocks, w)
                                     THEN SM!SortedByTime(values(b)) ELSE <<>>]
           all == FlattenSeq(every)
           few == FlattenSeq(some)
           set(b) == BlockSet(src, blocks[b], b)
<1>1. n \in Nat /\ \A b \in 1 .. n : blocks[b] \in Block /\ blocks[b] \in Seq(SM!Times)
  BY ElementOfSeq DEF Block
<1>2. \A b \in 1 .. n : values(b) \in Seq(Value) /\ ToSet(values(b)) = set(b)
  BY <1>1, BlockFacts
<1>3. SM!BlockStream(src, blocks, w) =
        SM!InWindow(IF SM!EntriesAscending(blocks) THEN few ELSE SM!SortedByTime(all), w)
  BY SMFlatten DEF SM!BlockStream
<1>4. \A b \in 1 .. n : \A v \in set(b) :
        /\ v \in Value /\ v.at[1] = b /\ v.ts \in SM!MinTime(blocks[b]) .. SM!MaxTime(blocks[b])
        /\ SM!MinTime(blocks[b]) \in Nat /\ SM!MaxTime(blocks[b]) \in Nat
  <2>1. SUFFICES ASSUME NEW b \in 1 .. n, NEW v \in set(b)
                 PROVE  /\ v \in Value /\ v.at[1] = b
                        /\ v.ts \in SM!MinTime(blocks[b]) .. SM!MaxTime(blocks[b])
                        /\ SM!MinTime(blocks[b]) \in Nat /\ SM!MaxTime(blocks[b]) \in Nat
    OBVIOUS
  <2>2. v \in ToSet(values(b)) /\ ToSet(values(b)) \in SUBSET Value
    BY <1>2, ToSetFinite
  <2>3. v.at[1] = b
    BY DEF BlockSet, ValueAt
  <2>4. blocks[b] \in Block
    BY <1>1
  <2>5. QED
    BY <2>2, <2>3, <2>4, BlockRange
<1>5. CASE ~ SM!EntriesAscending(blocks)
  <2>1. every \in Seq(Seq(Value)) /\ Len(every) = n /\ \A b \in 1 .. n : every[b] = values(b)
    BY <1>1, <1>2
  <2>2. all \in Seq(Value) /\ ToSet(all) = KeySet(src, blocks)
    <3>1. HasPlaces(every, all, Len(every)) /\ all \in Seq(Value)
      BY <2>1, FlattenPlaces
    <3> HIDE DEF every, all
    <3>2. PICK B, I : PlacedIn(B, I, every, all, n)
      BY <2>1, <3>1 DEF HasPlaces
    <3>3. /\ \A k \in 1 .. Len(all) : B[k] \in 1 .. n /\ I[k] \in 1 .. Len(values(B[k])) /\ all[k] = values(B[k])[I[k]]
          /\ \A b \in 1 .. n : \A i \in 1 .. Len(values(b)) : \E k \in 1 .. Len(all) : B[k] = b /\ I[k] = i
      <4>1. /\ \A k \in 1 .. Len(all) : B[k] \in 1 .. n /\ I[k] \in 1 .. Len(every[B[k]]) /\ all[k] = every[B[k]][I[k]]
            /\ \A b \in 1 .. n : \A i \in 1 .. Len(every[b]) : \E k \in 1 .. Len(all) : B[k] = b /\ I[k] = i
        BY <3>2 DEF PlacedIn
      <4> HIDE DEF values
      <4>2. QED
        BY <2>1, <4>1
    <3>4. ToSet(all) = {all[k] : k \in 1 .. Len(all)}
      BY <3>1, ToSetFinite
    <3>5. \A b \in 1 .. n : set(b) = {values(b)[i] : i \in 1 .. Len(values(b))}
      BY <1>2, ToSetFinite
    <3>6. KeySet(src, blocks) = UNION {set(b) : b \in 1 .. n}
      BY DEF KeySet
    <3> HIDE DEF values, set
    <3>7. ASSUME NEW k \in 1 .. Len(all) PROVE all[k] \in UNION {set(b) : b \in 1 .. n}
      <4>1. B[k] \in 1 .. n /\ I[k] \in 1 .. Len(values(B[k])) /\ all[k] = values(B[k])[I[k]]
        BY <3>3
      <4>2. all[k] \in set(B[k])
        BY <3>5, <4>1
      <4>3. QED
        BY <4>1, <4>2
    <3>8. ASSUME NEW b \in 1 .. n, NEW v \in set(b) PROVE v \in ToSet(all)
      <4>1. PICK i \in 1 .. Len(values(b)) : v = values(b)[i]
        BY <3>5
      <4>2. PICK k \in 1 .. Len(all) : B[k] = b /\ I[k] = i
        BY <3>3
      <4>3. all[k] = v
        BY <3>3, <4>1, <4>2
      <4>4. QED
        BY <3>4, <4>3
    <3>9. QED
      BY <3>1, <3>4, <3>6, <3>7, <3>8
  <2>3. PlacesDiffer(KeySet(src, blocks))
    BY DEF PlacesDiffer, KeySet, BlockSet, ValueAt
  <2> HIDE DEF all
  <2>4. SM!SortedByTime(all) \in Seq(Value) /\ Rises(SM!SortedByTime(all))
        /\ ToSet(SM!SortedByTime(all)) = KeySet(src, blocks)
    BY <2>2, <2>3, SortedFacts
  <2>5. QED
    BY <1>3, <1>5, <2>4, WindowFacts
<1>6. CASE SM!EntriesAscending(blocks)
  <2>1. \A b \in 1 .. n : LET q == SM!SortedByTime(values(b)) IN
          q \in Seq(Value) /\ Rises(q) /\ ToSet(q) = set(b)
    BY <1>1, SortedBlock
  <2> DEFINE P == SM!Pruned(blocks, w)
             sorted(b) == SM!SortedByTime(values(b))
  <2>2. some = [b \in 1 .. n |-> IF b \in P THEN sorted(b) ELSE <<>>]
    OBVIOUS
  <2> HIDE DEF some, values, sorted, P, set
  <2>3. \A b \in 1 .. n : sorted(b) \in Seq(Value) /\ Rises(sorted(b)) /\ ToSet(sorted(b)) = set(b)
    BY <2>1 DEF sorted
  <2>4. /\ some \in Seq(Seq(Value)) /\ Len(some) = n
        /\ \A b \in 1 .. n : some[b] = IF b \in P THEN sorted(b) ELSE <<>>
    <3>1. <<>> \in Seq(Value)
      BY EmptySeq
    <3>2. QED
      BY <1>1, <2>2, <2>3, <3>1
  <2>5. \A b \in 1 .. n : Rises(some[b])
    <3>1. Rises(<<>>)
      BY DEF Rises
    <3>2. QED
      BY <2>3, <2>4, <3>1
  <2>6. \A b \in 1 .. n : \A i \in 1 .. Len(some[b]) : some[b][i] \in set(b)
    <3>1. SUFFICES ASSUME NEW b \in 1 .. n, NEW i \in 1 .. Len(some[b]) PROVE some[b][i] \in set(b)
      OBVIOUS
    <3>2. b \in P
      <4>1. SUFFICES ASSUME b \notin P PROVE FALSE
        OBVIOUS
      <4>2. some[b] = <<>> /\ Len(<<>>) = 0
        BY <2>4, <4>1, EmptySeq
      <4>3. QED
        BY <3>1, <4>2
    <3>3. some[b] = sorted(b)
      BY <2>4, <3>2
    <3>4. some[b][i] \in ToSet(sorted(b))
      BY <2>3, <3>1, <3>3, ToSetFinite
    <3>5. QED
      BY <2>3, <3>4
  <2>7. ASSUME NEW b \in 1 .. n, NEW c \in 1 .. n, b < c,
               NEW i \in 1 .. Len(some[b]), NEW j \in 1 .. Len(some[c])
        PROVE  SM!ValueBefore(some[b][i], some[c][j])
    <3> DEFINE u == some[b][i]
               v == some[c][j]
    <3>1. u \in set(b) /\ v \in set(c)
      BY <2>6, <2>7
    <3> HIDE DEF u, v
    <3>2. SM!MaxTime(blocks[b]) <= SM!MinTime(blocks[c])
      BY <1>6, <2>7, AscendingBlocks
    <3>3. /\ u.at[1] = b /\ u.ts \in SM!MinTime(blocks[b]) .. SM!MaxTime(blocks[b])
          /\ v.at[1] = c /\ v.ts \in SM!MinTime(blocks[c]) .. SM!MaxTime(blocks[c])
          /\ SM!MinTime(blocks[b]) \in Nat /\ SM!MaxTime(blocks[b]) \in Nat
          /\ SM!MinTime(blocks[c]) \in Nat /\ SM!MaxTime(blocks[c]) \in Nat
      BY <1>4, <3>1
    <3>4. u.ts < v.ts \/ u.ts = v.ts
      BY SMTT(30), <3>2, <3>3
    <3>5. SM!Earlier(u.at, v.at)
      BY <2>7, <3>3 DEF SM!Earlier
    <3>6. SM!ValueBefore(u, v)
      BY <3>4, <3>5 DEF SM!ValueBefore
    <3>7. QED
      BY <3>6 DEF u, v
  <2>8. few \in Seq(Value) /\ Rises(few) /\ ToSet(few) = UNION {ToSet(some[b]) : b \in 1 .. n}
    <3>1. \A b, c \in 1 .. n : b < c => \A i \in 1 .. Len(some[b]), j \in 1 .. Len(some[c]) :
            SM!ValueBefore(some[b][i], some[c][j])
      BY <2>7
    <3>2. QED
      BY <2>4, <2>5, <3>1, FlattenRises
  <2> HIDE DEF few
  <2>9. {v \in ToSet(few) : v.ts \in w[1] .. w[2]} = {v \in KeySet(src, blocks) : v.ts \in w[1] .. w[2]}
    <3>1. KeySet(src, blocks) = UNION {set(b) : b \in 1 .. n}
      BY DEF KeySet, set
    <3>2. ASSUME NEW v \in ToSet(few) PROVE v \in KeySet(src, blocks)
      <4>1. PICK b \in 1 .. n : v \in ToSet(some[b])
        BY <2>8
      <4>2. some[b] \in Seq(Value)
        BY <2>4, ElementOfSeq
      <4>3. PICK i \in 1 .. Len(some[b]) : v = some[b][i]
        BY <4>1, <4>2, ToSetFinite
      <4>4. v \in set(b)
        BY <2>6, <4>3
      <4>5. QED
        BY <3>1, <4>4
    <3>3. ASSUME NEW v \in KeySet(src, blocks), v.ts \in w[1] .. w[2] PROVE v \in ToSet(few)
      <4>1. PICK b \in 1 .. n : v \in set(b)
        BY <3>1
      <4>2. v.ts \in SM!MinTime(blocks[b]) .. SM!MaxTime(blocks[b])
            /\ SM!MinTime(blocks[b]) \in Nat /\ SM!MaxTime(blocks[b]) \in Nat
        BY <1>4, <4>1
      <4>3. SM!MaxTime(blocks[b]) >= w[1] /\ SM!MinTime(blocks[b]) <= w[2]
        BY <3>3, <4>2
      <4>4. b \in P
        BY <4>3 DEF P, SM!Pruned
      <4>5. some[b] = sorted(b) /\ ToSet(sorted(b)) = set(b)
        BY <2>3, <2>4, <4>4
      <4>6. QED
        BY <2>8, <4>1, <4>5
    <3>4. QED
      BY <3>2, <3>3
  <2>10. QED
    BY <1>3, <1>6, <2>8, <2>9, WindowFacts
<1>7. QED
  BY <1>5, <1>6

-----------------------------------------------------------------------------
(* The streams of a unit.                                                  *)

FileKeys == [Fields -> Seq(Block)]
LogWrites == [field : Fields, times : Seq(SM!Times)]
StreamRecords == [field : Fields, vals : Seq(Value)]

\* sr is what is known of a series: its files, and its writes in the log.
IsKnown(sr) == sr.files \in Seq(FileKeys) /\ sr.wal \in Seq(LogWrites)

\* The sources of values: the files, then the writes in the log.
FileSources(sr) == 1 .. Len(sr.files)
LogSources(sr) == Len(sr.files) + 1 .. Len(sr.files) + Len(sr.wal)

\* What a source holds of a field.
Stored(sr, src, f) ==
  IF src <= Len(sr.files) THEN KeySet(src, sr.files[src][f])
  ELSE LET write == sr.wal[src - Len(sr.files)] IN
       IF write.field = f THEN BlockSet(src, write.times, 0) ELSE {}

\* The streams are those of the sources Q in the window, G[i] the source of
\* stream i; of one field, they are in the order of the sources.
Streamed(G, streams, sr, Q, w) ==
  /\ streams \in Seq(StreamRecords)
  /\ \A i \in 1 .. Len(streams) :
       /\ G[i] \in Q /\ Rises(streams[i].vals)
       /\ ToSet(streams[i].vals) = {v \in Stored(sr, G[i], streams[i].field) : v.ts \in w[1] .. w[2]}
  /\ \A i, j \in 1 .. Len(streams) : i < j /\ streams[i].field = streams[j].field => G[i] < G[j]
  /\ \A src \in Q, f \in Fields : \A v \in Stored(sr, src, f) : v.ts \in w[1] .. w[2] =>
       \E i \in 1 .. Len(streams) : G[i] = src /\ streams[i].field = f

\* run has the numbers in R, in order.
Counts(run, R) ==
  /\ run \in Seq(R)
  /\ \A i, j \in 1 .. Len(run) : run[i] < run[j] <=> i < j
  /\ \A x \in R : \E i \in 1 .. Len(run) : run[i] = x

LEMMA AscendingCounts ==
  ASSUME NEW S \in SUBSET Int, IsFiniteSet(S)
  PROVE  Counts(Ascending(S, <), S) /\ Len(Ascending(S, <)) = Cardinality(S)
  BY Zenon, AscendingNumbers DEF Counts

LEMMA FieldsFacts ==
  Fields \in SUBSET Nat /\ Fields \in SUBSET Int /\ IsFiniteSet(Fields) /\ Fields # {}
  BY PointsAssumption

LEMMA FileStreamsFacts ==
  ASSUME NEW sr, IsKnown(sr), NEW R \in SUBSET FileSources(sr), NEW run, Counts(run, R),
         NEW w, w[1] \in Int, w[2] \in Int, NEW whole \in BOOLEAN
  PROVE  \E G : Streamed(G, SM!FileStreams(sr, run, w, whole), sr, R, w)
<1> DEFINE byName == Ascending(Fields, <)
           row(i) == [k \in 1 .. Len(byName) |-> <<run[i], byName[k]>>]
           rows == [i \in 1 .. Len(run) |-> row(i)]
           keys == FlattenSeq(rows)
           blocks(n) == sr.files[keys[n][1]][keys[n][2]]
           K == {n \in 1 .. Len(keys) : blocks(n) # <<>> /\ (whole \/ SM!Pruned(blocks(n), w) # {})}
           kept == Picked(keys, K)
           st == SM!FileStreams(sr, run, w, whole)
<1>1. st = [i \in 1 .. Len(kept) |->
              [field |-> kept[i][2],
               vals |-> SM!BlockStream(kept[i][1], sr.files[kept[i][1]][kept[i][2]], w)]]
  BY Zenon DEF SM!FileStreams, SM!FlattenSeq, FlattenSeq, SM!Picked, Picked, SM!Ascending, Ascending, SM!Cardinality, Cardinality, SM!IsFiniteSet, IsFiniteSet
<1>2. Counts(byName, Fields)
  BY Zenon, FieldsFacts, AscendingCounts
<1>3. /\ run \in Seq(R) /\ Len(run) \in Nat /\ \A i \in 1 .. Len(run) : run[i] \in R
      /\ byName \in Seq(Fields) /\ Len(byName) \in Nat
      /\ \A k \in 1 .. Len(byName) : byName[k] \in Fields
  <2> HIDE DEF byName
  <2>1. run \in Seq(R) /\ byName \in Seq(Fields)
    BY <1>2 DEF Counts
  <2>2. QED
    BY <2>1, ElementOfSeq
<1> HIDE DEF byName
<1>4. /\ rows \in Seq(Seq(R \X Fields)) /\ Len(rows) = Len(run)
      /\ \A i \in 1 .. Len(run) : /\ rows[i] = row(i) /\ Len(row(i)) = Len(byName)
                                  /\ \A k \in 1 .. Len(byName) : row(i)[k] = <<run[i], byName[k]>>
  <2>1. \A i \in 1 .. Len(run) : \A k \in 1 .. Len(byName) : <<run[i], byName[k]>> \in R \X Fields
    BY <1>3
  <2>2. ASSUME NEW i \in 1 .. Len(run)
        PROVE  /\ row(i) \in Seq(R \X Fields) /\ Len(row(i)) = Len(byName)
               /\ \A k \in 1 .. Len(byName) : row(i)[k] = <<run[i], byName[k]>>
    BY <1>3, <2>1
  <2> HIDE DEF row
  <2>3. rows \in Seq(Seq(R \X Fields)) /\ Len(rows) = Len(run)
    BY <1>3, <2>2
  <2>4. QED
    BY <1>3, <2>2, <2>3
<1>5. keys \in Seq(R \X Fields) /\ HasPlaces(rows, keys, Len(rows))
  BY <1>4, FlattenPlaces
<1> HIDE DEF keys, rows
<1>6. PICK B, I : PlacedIn(B, I, rows, keys, Len(run))
  BY <1>4, <1>5 DEF HasPlaces
<1>7. /\ \A n \in 1 .. Len(keys) : /\ B[n] \in 1 .. Len(run) /\ I[n] \in 1 .. Len(byName)
                                   /\ keys[n] = <<run[B[n]], byName[I[n]]>>
      /\ \A m, n \in 1 .. Len(keys) : m < n => B[m] < B[n] \/ (B[m] = B[n] /\ I[m] < I[n])
      /\ \A b \in 1 .. Len(run), i \in 1 .. Len(byName) :
           \E n \in 1 .. Len(keys) : B[n] = b /\ I[n] = i
  <2>1. /\ \A n \in 1 .. Len(keys) : /\ B[n] \in 1 .. Len(run) /\ I[n] \in 1 .. Len(rows[B[n]])
                                     /\ keys[n] = rows[B[n]][I[n]]
        /\ \A m, n \in 1 .. Len(keys) : m < n => B[m] < B[n] \/ (B[m] = B[n] /\ I[m] < I[n])
        /\ \A b \in 1 .. Len(run) : \A i \in 1 .. Len(rows[b]) :
             \E n \in 1 .. Len(keys) : B[n] = b /\ I[n] = i
    BY <1>6 DEF PlacedIn
  <2> HIDE DEF row
  <2>2. \A b \in 1 .. Len(run) : /\ Len(rows[b]) = Len(byName)
                                 /\ \A k \in 1 .. Len(byName) : rows[b][k] = <<run[b], byName[k]>>
    BY <1>4, Zenon
  <2>3. ASSUME NEW n \in 1 .. Len(keys)
        PROVE  /\ B[n] \in 1 .. Len(run) /\ I[n] \in 1 .. Len(byName)
               /\ keys[n] = <<run[B[n]], byName[I[n]]>>
    <3>1. /\ B[n] \in 1 .. Len(run) /\ I[n] \in 1 .. Len(rows[B[n]])
          /\ keys[n] = rows[B[n]][I[n]]
      BY <2>1, Zenon
    <3>2. /\ Len(rows[B[n]]) = Len(byName)
          /\ \A k \in 1 .. Len(byName) : rows[B[n]][k] = <<run[B[n]], byName[k]>>
      BY <2>2, <3>1, Zenon
    <3>3. QED
      BY <3>1, <3>2, Zenon
  <2>4. \A m, n \in 1 .. Len(keys) : m < n => B[m] < B[n] \/ (B[m] = B[n] /\ I[m] < I[n])
    BY <2>1
  <2>5. ASSUME NEW b \in 1 .. Len(run), NEW i \in 1 .. Len(byName)
        PROVE  \E n \in 1 .. Len(keys) : B[n] = b /\ I[n] = i
    <3>1. i \in 1 .. Len(rows[b])
      BY <2>2
    <3>2. QED
      BY <2>1, <3>1
  <2>6. QED
    BY <2>3, <2>4, <2>5
<1>8. /\ kept \in Seq(R \X Fields) /\ Len(kept) \in Nat
      /\ \E at : PickedAt(at, keys, K, kept)
  BY <1>5, PickedFacts
<1> HIDE DEF kept, K
<1>9. PICK at : PickedAt(at, keys, K, kept)
  BY <1>8
<1>10. /\ \A k \in 1 .. Len(kept) : at[k] \in K /\ kept[k] = keys[at[k]]
       /\ \A j, k \in 1 .. Len(kept) : at[j] < at[k] <=> j < k
       /\ \A n \in K : \E k \in 1 .. Len(kept) : at[k] = n
  BY <1>9 DEF PickedAt
<1> DEFINE G == [i \in 1 .. Len(kept) |-> kept[i][1]]
<1>11. \A i \in 1 .. Len(kept) :
         /\ kept[i] \in R \X Fields /\ G[i] = kept[i][1] /\ G[i] \in R /\ kept[i][2] \in Fields
         /\ G[i] \in Nat /\ G[i] <= Len(sr.files) /\ sr.files[G[i]][kept[i][2]] \in Seq(Block)
  <2>1. SUFFICES ASSUME NEW i \in 1 .. Len(kept)
                 PROVE  /\ kept[i] \in R \X Fields /\ G[i] = kept[i][1] /\ G[i] \in R /\ kept[i][2] \in Fields
                        /\ G[i] \in Nat /\ G[i] <= Len(sr.files) /\ sr.files[G[i]][kept[i][2]] \in Seq(Block)
    OBVIOUS
  <2>2. kept[i] \in R \X Fields
    BY <1>8, ElementOfSeq
  <2>3. G[i] = kept[i][1] /\ G[i] \in R /\ kept[i][2] \in Fields
    BY <2>2
  <2>4. G[i] \in 1 .. Len(sr.files) /\ Len(sr.files) \in Nat
    <3>1. sr.files \in Seq(FileKeys)
      BY DEF IsKnown
    <3>2. Len(sr.files) \in Nat
      BY <3>1
    <3>3. QED
      BY <2>3, <3>2 DEF FileSources
  <2>5. sr.files[G[i]] \in FileKeys
    BY <2>4, ElementOfSeq DEF IsKnown
  <2>6. QED
    BY <2>2, <2>3, <2>4, <2>5 DEF FileKeys
<1> HIDE DEF G
<1> DEFINE vals(i) == SM!BlockStream(G[i], sr.files[G[i]][kept[i][2]], w)
<1>12. \A i \in 1 .. Len(kept) :
         /\ vals(i) \in Seq(Value) /\ Rises(vals(i))
         /\ ToSet(vals(i)) = {v \in Stored(sr, G[i], kept[i][2]) : v.ts \in w[1] .. w[2]}
  BY ZenonT(40), <1>11, StreamFacts DEF Stored
<1>13. /\ st \in Seq(StreamRecords) /\ Len(st) = Len(kept)
       /\ \A i \in 1 .. Len(kept) : st[i].field = kept[i][2] /\ st[i].vals = vals(i)
  <2>1. st = [i \in 1 .. Len(kept) |-> [field |-> kept[i][2], vals |-> vals(i)]]
    <3>1. \A i \in 1 .. Len(kept) :
            [field |-> kept[i][2],
             vals |-> SM!BlockStream(kept[i][1], sr.files[kept[i][1]][kept[i][2]], w)]
            = [field |-> kept[i][2], vals |-> vals(i)]
      BY <1>11
    <3>2. QED
      BY <1>1, <3>1
  <2>2. \A i \in 1 .. Len(kept) : [field |-> kept[i][2], vals |-> vals(i)] \in StreamRecords
    BY <1>11, <1>12 DEF StreamRecords
  <2> HIDE DEF st, vals
  <2>3. QED
    BY <1>8, <2>1, <2>2
<1> HIDE DEF st, vals
<1>14. ASSUME NEW i \in 1 .. Len(st), NEW j \in 1 .. Len(st), i < j, st[i].field = st[j].field
       PROVE  G[i] < G[j]
  <2>1. /\ i \in 1 .. Len(kept) /\ j \in 1 .. Len(kept) /\ at[i] < at[j]
        /\ at[i] \in 1 .. Len(keys) /\ at[j] \in 1 .. Len(keys)
    BY <1>10, <1>13, <1>14 DEF K
  <2>2. /\ kept[i] = <<run[B[at[i]]], byName[I[at[i]]]>> /\ kept[j] = <<run[B[at[j]]], byName[I[at[j]]]>>
        /\ B[at[i]] \in 1 .. Len(run) /\ B[at[j]] \in 1 .. Len(run)
        /\ I[at[i]] \in 1 .. Len(byName) /\ I[at[j]] \in 1 .. Len(byName)
    BY <1>7, <1>10, <2>1
  <2>3. byName[I[at[i]]] = byName[I[at[j]]]
    BY <1>13, <1>14, <2>1, <2>2
  <2>4. ~ (I[at[i]] < I[at[j]])
    <3>1. \A k, m \in 1 .. Len(byName) : byName[k] < byName[m] <=> k < m
      BY <1>2 DEF Counts
    <3>2. byName[I[at[i]]] \in Int
      BY <1>3, <2>2, FieldsFacts
    <3>3. ~ (byName[I[at[i]]] < byName[I[at[j]]])
      BY <2>3, <3>2
    <3>4. QED
      BY <2>2, <3>1, <3>3
  <2>5. B[at[i]] < B[at[j]]
    BY <1>7, <2>1, <2>4
  <2>6. run[B[at[i]]] < run[B[at[j]]]
    BY <2>2, <2>5 DEF Counts
  <2>7. G[i] = run[B[at[i]]] /\ G[j] = run[B[at[j]]]
    <3>1. kept[i][1] = run[B[at[i]]] /\ kept[j][1] = run[B[at[j]]]
      BY <2>2
    <3>2. QED
      BY <1>11, <2>1, <3>1
  <2>8. QED
    BY <2>6, <2>7
<1>15. ASSUME NEW src \in R, NEW f \in Fields, NEW v \in Stored(sr, src, f), v.ts \in w[1] .. w[2]
       PROVE  \E i \in 1 .. Len(st) : G[i] = src /\ st[i].field = f
  <2>1. PICK b \in 1 .. Len(run) : run[b] = src
    BY DEF Counts
  <2>2. PICK k \in 1 .. Len(byName) : byName[k] = f
    BY <1>2 DEF Counts
  <2>3. PICK n \in 1 .. Len(keys) : B[n] = b /\ I[n] = k
    BY <1>7
  <2>4. keys[n] = <<src, f>> /\ blocks(n) = sr.files[src][f]
    BY SMTT(30), <1>7, <2>1, <2>2, <2>3
  <2>5. src \in 1 .. Len(sr.files) /\ Len(sr.files) \in Nat /\ sr.files[src][f] \in Seq(Block)
    <3>1. src \in 1 .. Len(sr.files) /\ Len(sr.files) \in Nat
      BY DEF FileSources, IsKnown
    <3>2. sr.files[src] \in FileKeys
      BY <3>1, ElementOfSeq DEF IsKnown
    <3>3. QED
      BY <3>1, <3>2 DEF FileKeys
  <2>6. v \in KeySet(src, sr.files[src][f])
    BY <1>15, <2>5 DEF Stored
  <2>7. PICK c \in 1 .. Len(sr.files[src][f]) : v \in BlockSet(src, sr.files[src][f][c], c)
    BY <2>6 DEF KeySet
  <2> DEFINE key == sr.files[src][f]
  <2>8. key[c] \in Block /\ Len(key) \in Nat /\ key # <<>>
    BY <2>5, <2>7, ElementOfSeq, EmptySeq
  <2>9. v.ts \in SM!MinTime(key[c]) .. SM!MaxTime(key[c])
        /\ SM!MinTime(key[c]) \in Nat /\ SM!MaxTime(key[c]) \in Nat
    BY <2>7, <2>8, BlockRange
  <2>10. c \in SM!Pruned(key, w)
    <3>1. SM!MaxTime(key[c]) >= w[1] /\ SM!MinTime(key[c]) <= w[2]
      BY <1>15, <2>9
    <3>2. QED
      BY <2>7, <3>1 DEF SM!Pruned
  <2>11. n \in K
    BY <2>4, <2>8, <2>10 DEF K
  <2>12. PICK i \in 1 .. Len(kept) : at[i] = n
    BY <1>10, <2>11
  <2>13. kept[i] = <<src, f>>
    BY <1>10, <2>4, <2>12
  <2>14. QED
    BY SMTT(30), <1>11, <1>13, <2>12, <2>13
<1>16. Streamed(G, st, sr, R, w)
  <2>1. \A i \in 1 .. Len(st) :
          /\ G[i] \in R /\ Rises(st[i].vals)
          /\ ToSet(st[i].vals) = {v \in Stored(sr, G[i], st[i].field) : v.ts \in w[1] .. w[2]}
    BY <1>11, <1>12, <1>13
  <2>2. QED
    BY <1>13, <1>14, <1>15, <2>1 DEF Streamed
<1>17. QED
  BY <1>16 DEF st

-----------------------------------------------------------------------------
(* Lists of numbers in order.                                              *)

LEMMA CountsAgree ==
  ASSUME NEW S \in SUBSET Int, NEW p, Counts(p, S), NEW q, Counts(q, S), NEW n \in Nat
  PROVE  n <= Len(p) => n <= Len(q) /\ \A i \in 1 .. n : p[i] = q[i]
<1>1. /\ p \in Seq(S) /\ \A i, j \in 1 .. Len(p) : p[i] < p[j] <=> i < j
      /\ q \in Seq(S) /\ \A i, j \in 1 .. Len(q) : q[i] < q[j] <=> i < j
      /\ \A x \in S : (\E i \in 1 .. Len(p) : p[i] = x) /\ (\E i \in 1 .. Len(q) : q[i] = x)
  BY DEF Counts
<1>2. /\ Len(p) \in Nat /\ \A i \in 1 .. Len(p) : p[i] \in S /\ p[i] \in Int
      /\ Len(q) \in Nat /\ \A i \in 1 .. Len(q) : q[i] \in S /\ q[i] \in Int
  <2>1. Len(p) \in Nat /\ (\A i \in 1 .. Len(p) : p[i] \in S) /\ Len(q) \in Nat /\ \A i \in 1 .. Len(q) : q[i] \in S
    BY <1>1, ElementOfSeq
  <2>2. QED
    BY <2>1
<1> DEFINE P == {m \in Nat : m <= Len(p) => m <= Len(q) /\ \A i \in 1 .. m : p[i] = q[i]}
<1>3. 0 \in P
  BY <1>2
<1>4. ASSUME NEW m \in P \cap Nat PROVE m + 1 \in P
  <2>1. SUFFICES ASSUME m + 1 <= Len(p)
                 PROVE  m + 1 <= Len(q) /\ \A i \in 1 .. m + 1 : p[i] = q[i]
    OBVIOUS
  <2>2. m \in Nat /\ m <= Len(p) /\ m + 1 \in 1 .. Len(p) /\ m <= Len(q) /\ \A i \in 1 .. m : p[i] = q[i]
    BY <1>2, <2>1
  <2>3. p[m + 1] \in S
    BY <1>2, <2>2
  <2>4. PICK j \in 1 .. Len(q) : q[j] = p[m + 1]
    BY <1>1, <2>3
  <2>5. ~ (j <= m)
    <3>1. SUFFICES ASSUME j <= m PROVE FALSE
      OBVIOUS
    <3>2. j \in 1 .. m /\ j \in 1 .. Len(p) /\ j < m + 1
      BY <2>2, <3>1
    <3>3. p[j] = p[m + 1] /\ p[j] < p[m + 1]
      BY <1>1, <2>2, <2>4, <3>2
    <3>4. QED
      BY <1>2, <2>2, <3>3
  <2>6. m + 1 \in 1 .. Len(q) /\ m + 1 <= j
    BY <1>2, <2>2, <2>5
  <2>7. PICK k \in 1 .. Len(p) : p[k] = q[m + 1]
    BY <1>1, <1>2, <2>6
  <2>8. ~ (k <= m)
    <3>1. SUFFICES ASSUME k <= m PROVE FALSE
      OBVIOUS
    <3>2. k \in 1 .. m /\ k \in 1 .. Len(q) /\ k < m + 1
      BY <2>2, <3>1
    <3>3. q[k] = q[m + 1] /\ q[k] < q[m + 1]
      BY <1>1, <2>2, <2>6, <2>7, <3>2
    <3>4. QED
      BY <1>2, <2>6, <3>3
  <2>9. ~ (q[j] < q[m + 1]) /\ ~ (p[k] < p[m + 1])
    <3>1. ~ (j < m + 1) /\ ~ (k < m + 1)
      BY <2>2, <2>6, <2>8
    <3>2. QED
      BY <1>1, <2>2, <2>6, <3>1
  <2>10. p[m + 1] = q[m + 1]
    BY <1>2, <2>2, <2>4, <2>6, <2>7, <2>9
  <2>11. \A i \in 1 .. m + 1 : i \in 1 .. m \/ i = m + 1
    BY <2>2
  <2>12. QED
    BY <1>2, <2>2, <2>6, <2>10, <2>11
<1>5. Nat \subseteq P
  <2> HIDE DEF P
  <2> QED BY <1>3, <1>4, SetInduction
<1>6. QED
  BY <1>5

LEMMA CountsUnique ==
  ASSUME NEW S \in SUBSET Int, IsFiniteSet(S), NEW q, Counts(q, S)
  PROVE  q = Ascending(S, <)
<1> DEFINE p == Ascending(S, <)
<1>1. Counts(p, S)
  BY Zenon, AscendingCounts
<1>2. p \in Seq(S) /\ q \in Seq(S)
  BY Zenon, <1>1 DEF Counts
<1> HIDE DEF p
<1>3. Len(p) \in Nat /\ Len(q) \in Nat /\ p = [i \in 1 .. Len(p) |-> p[i]] /\ q = [i \in 1 .. Len(q) |-> q[i]]
  BY <1>2
<1>4. Len(p) <= Len(q) /\ \A i \in 1 .. Len(p) : p[i] = q[i]
  <2>1. Len(p) <= Len(p) => Len(p) <= Len(q) /\ \A i \in 1 .. Len(p) : p[i] = q[i]
    BY <1>1, <1>3, CountsAgree, Zenon
  <2>2. QED
    BY <1>3, <2>1
<1>5. Len(q) <= Len(p)
  <2>1. Len(q) <= Len(q) => Len(q) <= Len(p) /\ \A i \in 1 .. Len(q) : q[i] = p[i]
    BY <1>1, <1>3, CountsAgree, Zenon
  <2>2. QED
    BY <1>3, <2>1
<1>6. Len(p) = Len(q)
  <2>1. Len(p) <= Len(q) /\ Len(q) <= Len(p) /\ Len(p) \in Int /\ Len(q) \in Int
    BY <1>3, <1>4, <1>5
  <2>2. QED
    BY <2>1
<1>7. QED
  BY Zenon, <1>3, <1>4, <1>6 DEF p

LEMMA AscendingJoin ==
  ASSUME NEW A \in SUBSET Int, IsFiniteSet(A), NEW B \in SUBSET Int, IsFiniteSet(B),
         \A a \in A, b \in B : a < b
  PROVE  Ascending(A \cup B, <) = Ascending(A, <) \o Ascending(B, <)
<1> DEFINE p == Ascending(A, <)
           q == Ascending(B, <)
           t == p \o q
           L == Len(p)
           M == Len(q)
<1>1. Counts(p, A) /\ Counts(q, B)
  BY Zenon, AscendingCounts
<1> HIDE DEF p, q
<1>2. /\ p \in Seq(A) /\ q \in Seq(B)
      /\ \A i, j \in 1 .. L : p[i] < p[j] <=> i < j
      /\ \A i, j \in 1 .. M : q[i] < q[j] <=> i < j
      /\ \A x \in A : \E i \in 1 .. L : p[i] = x
      /\ \A x \in B : \E i \in 1 .. M : q[i] = x
  BY <1>1 DEF Counts
<1>3. p \in Seq(A \cup B) /\ q \in Seq(A \cup B)
  BY <1>2
<1>4. /\ L \in Nat /\ M \in Nat /\ Len(t) = L + M /\ t \in Seq(A \cup B)
      /\ \A i \in 1 .. L : t[i] = p[i] /\ p[i] \in A
      /\ \A i \in L + 1 .. L + M : t[i] = q[i - L] /\ q[i - L] \in B
  <2>1. /\ L \in Nat /\ M \in Nat
        /\ \A i \in 1 .. L : p[i] \in A
        /\ \A i \in 1 .. M : q[i] \in B
    BY <1>2, ElementOfSeq
  <2>2. \A i \in L + 1 .. L + M : i - L \in 1 .. M
    BY <2>1
  <2>3. Len(t) = L + M /\ t \in Seq(A \cup B)
        /\ (\A i \in 1 .. L : t[i] = p[i]) /\ \A i \in L + 1 .. L + M : t[i] = q[i - L]
    BY <1>3, ConcatProperties
  <2>4. QED
    BY <2>1, <2>2, <2>3
<1> HIDE DEF t, L, M
<1>5. ASSUME NEW i \in 1 .. L + M, NEW j \in 1 .. L + M PROVE t[i] < t[j] <=> i < j
  <2>1. CASE i <= L /\ j <= L
    <3>1. i \in 1 .. L /\ j \in 1 .. L
      BY <1>4, <2>1
    <3>2. QED
      BY <1>2, <1>4, <3>1
  <2>2. CASE i <= L /\ ~ (j <= L)
    <3>1. i \in 1 .. L /\ j \in L + 1 .. L + M
      BY <1>4, <2>2
    <3>2. t[i] = p[i] /\ p[i] \in A /\ t[j] = q[j - L] /\ q[j - L] \in B
      BY <1>4, <3>1
    <3>3. p[i] < q[j - L] /\ i < j
      <4>1. p[i] < q[j - L]
        BY <3>2
      <4>2. QED
        BY <1>4, <3>1, <4>1
    <3>4. QED
      BY <3>2, <3>3
  <2>3. CASE ~ (i <= L) /\ j <= L
    <3>1. j \in 1 .. L /\ i \in L + 1 .. L + M
      BY <1>4, <2>3
    <3>2. t[j] = p[j] /\ p[j] \in A /\ t[i] = q[i - L] /\ q[i - L] \in B
      BY <1>4, <3>1
    <3>3. p[j] < q[i - L] /\ j < i /\ p[j] \in Int /\ q[i - L] \in Int
      <4>1. p[j] < q[i - L] /\ p[j] \in Int /\ q[i - L] \in Int
        BY <3>2
      <4>2. QED
        BY <1>4, <3>1, <4>1
    <3>4. QED
      BY <3>2, <3>3
  <2>4. CASE ~ (i <= L) /\ ~ (j <= L)
    <3>1. i \in L + 1 .. L + M /\ j \in L + 1 .. L + M /\ i - L \in 1 .. M /\ j - L \in 1 .. M
      BY <1>4, <2>4
    <3>2. t[i] = q[i - L] /\ t[j] = q[j - L] /\ (q[i - L] < q[j - L] <=> i - L < j - L)
      BY <1>2, <1>4, <3>1
    <3>3. QED
      BY <1>4, <3>2
  <2>5. QED
    BY <2>1, <2>2, <2>3, <2>4
<1>6. ASSUME NEW x \in A \cup B PROVE \E i \in 1 .. L + M : t[i] = x
  <2>1. CASE x \in A
    <3>1. PICK i \in 1 .. L : p[i] = x
      BY <1>2, <2>1
    <3>2. i \in 1 .. L + M /\ t[i] = x
      BY <1>4, <3>1
    <3>3. QED
      BY <3>2
  <2>2. CASE x \in B
    <3>1. PICK i \in 1 .. M : q[i] = x
      BY <1>2, <2>2
    <3>2. L + i \in L + 1 .. L + M /\ L + i \in 1 .. L + M /\ (L + i) - L = i
      BY <1>4, <3>1
    <3>3. t[L + i] = x
      BY <1>4, <3>1, <3>2
    <3>4. QED
      BY <3>2, <3>3
  <2>3. QED
    BY <2>1, <2>2
<1>7. Counts(t, A \cup B)
  BY <1>4, <1>5, <1>6 DEF Counts
<1>8. IsFiniteSet(A \cup B) /\ A \cup B \in SUBSET Int
  BY FS_Union
<1>9. t = Ascending(A \cup B, <)
  BY Zenon, <1>7, <1>8, CountsUnique
<1>10. QED
  BY Zenon, <1>9 DEF t, p, q

-----------------------------------------------------------------------------
(* The points made of a set of stored values.                              *)

\* A value with its field.
Full(f, v) == [field |-> f, ts |-> v.ts, src |-> v.src, at |-> v.at]
FullValue == [field : Fields, ts : SM!Times, src : Nat, at : Nat \X Nat]

PointOf(s, ts, vs) ==
  [series |-> s, ts |-> ts,
   fields |-> [f \in {v.field : v \in vs} |->
                 LET v == SM!Newest({x \in vs : x.field = f}) IN <<v.src, v.at>>]]

PointIn(s, H, ts) == PointOf(s, ts, {v \in H : v.ts = ts})

HeldTimes(H) == {v.ts : v \in H}

Points(s, H) ==
  LET times == Ascending(HeldTimes(H), <)
  IN  [i \in 1 .. Len(times) |-> PointIn(s, H, times[i])]

Point == {PointOf(s, ts, vs) : s \in Nat, ts \in SM!Times, vs \in SUBSET FullValue}

\* The values of A are all before those of B.
AllBefore(A, B) == \A v \in A, x \in B : v.ts < x.ts

LEMMA HeldFacts ==
  ASSUME NEW H \in SUBSET FullValue
  PROVE  /\ IsFiniteSet(HeldTimes(H)) /\ HeldTimes(H) \in SUBSET (0 .. LastTime)
         /\ HeldTimes(H) \in SUBSET SM!Times /\ HeldTimes(H) \in SUBSET Int
         /\ \A v \in H : v.ts \in Int
<1>1. HeldTimes(H) \in SUBSET SM!Times /\ \A v \in H : v.ts \in SM!Times
  BY DEF HeldTimes, FullValue
<1>2. SM!Times = 0 .. LastTime /\ LastTime \in Nat
  BY TimesAre
<1>3. HeldTimes(H) \in SUBSET (0 .. LastTime) /\ HeldTimes(H) \in SUBSET Int /\ \A v \in H : v.ts \in Int
  BY <1>1, <1>2
<1>4. IsFiniteSet(0 .. LastTime)
  BY <1>2, FS_Interval
<1>5. IsFiniteSet(HeldTimes(H))
  BY <1>3, <1>4, FS_Subset, Zenon
<1>6. QED
  BY <1>1, <1>3, <1>5

LEMMA PointMember ==
  ASSUME NEW s \in Nat, NEW ts \in SM!Times, NEW vs \in SUBSET FullValue
  PROVE  PointOf(s, ts, vs) \in Point
<1> DEFINE p == PointOf(s, ts, vs)
<1>1. \E a \in Nat, b \in SM!Times, c \in SUBSET FullValue : p = PointOf(a, b, c)
  OBVIOUS
<1> HIDE DEF p
<1>2. p \in {PointOf(a, b, c) : a \in Nat, b \in SM!Times, c \in SUBSET FullValue}
  BY <1>1
<1>3. QED
  BY <1>2 DEF Point, p

LEMMA PointsType ==
  ASSUME NEW s \in Nat, NEW H \in SUBSET FullValue
  PROVE  /\ Points(s, H) \in Seq(Point)
         /\ Len(Points(s, H)) = Len(Ascending(HeldTimes(H), <))
         /\ Len(Points(s, H)) \in Nat
         /\ \A i \in 1 .. Len(Points(s, H)) : Points(s, H)[i] = PointIn(s, H, Ascending(HeldTimes(H), <)[i])
<1> DEFINE T == HeldTimes(H)
           times == Ascending(T, <)
<1>1. T \in SUBSET Int /\ IsFiniteSet(T) /\ T \in SUBSET SM!Times
  BY HeldFacts
<1>2. Counts(times, T)
  BY Zenon, <1>1, AscendingCounts
<1>3. Points(s, H) = [i \in 1 .. Len(times) |-> PointIn(s, H, times[i])]
  BY DEF Points
<1>4. times \in Seq(T)
  BY Zenon, <1>2 DEF Counts
<1> HIDE DEF times, T
<1>5. Len(times) \in Nat /\ \A i \in 1 .. Len(times) : times[i] \in T
  BY <1>4, ElementOfSeq
<1>6. ASSUME NEW i \in 1 .. Len(times) PROVE PointIn(s, H, times[i]) \in Point
  <2> DEFINE vs == {v \in H : v.ts = times[i]}
  <2>1. times[i] \in SM!Times /\ vs \in SUBSET FullValue
    BY <1>1, <1>5
  <2>2. PointIn(s, H, times[i]) = PointOf(s, times[i], vs)
    BY DEF PointIn
  <2> HIDE DEF vs
  <2>3. PointOf(s, times[i], vs) \in Point
    BY <2>1, PointMember
  <2>4. QED
    BY <2>2, <2>3
<1> DEFINE q == Points(s, H)
<1>7. q = [i \in 1 .. Len(times) |-> PointIn(s, H, times[i])]
  BY <1>3
<1> HIDE DEF q
<1>8. q \in Seq(Point) /\ Len(q) = Len(times) /\ \A i \in 1 .. Len(q) : q[i] = PointIn(s, H, times[i])
  BY <1>5, <1>6, <1>7
<1>9. QED
  BY <1>5, <1>8, Zenon DEF times, T, q

LEMMA PointsNone ==
  ASSUME NEW s
  PROVE  Points(s, {}) = <<>>
<1>1. HeldTimes({}) = {}
  BY DEF HeldTimes
<1>2. IsFiniteSet({}) /\ Cardinality({}) = 0 /\ {} \in SUBSET Int
  BY FS_EmptySet
<1> DEFINE times == Ascending(HeldTimes({}), <)
<1>3. Len(times) = 0
  <2>1. Len(Ascending({}, <)) = 0
    BY <1>2, AscendingCounts, Zenon
  <2>2. QED
    BY <1>1, <2>1, Zenon
<1>4. Points(s, {}) = [i \in 1 .. Len(times) |-> PointIn(s, {}, times[i])]
  BY Zenon DEF Points
<1> HIDE DEF times
<1>5. QED
  BY <1>3, <1>4

LEMMA JoinFacts ==
  ASSUME NEW S, NEW p \in Seq(S), NEW q \in Seq(S)
  PROVE  /\ p \o q \in Seq(S) /\ Len(p \o q) = Len(p) + Len(q) /\ Len(p) \in Nat /\ Len(q) \in Nat
         /\ \A i \in 1 .. Len(p) : (p \o q)[i] = p[i]
         /\ \A i \in Len(p) + 1 .. Len(p) + Len(q) : (p \o q)[i] = q[i - Len(p)]
         /\ p \o q = [i \in 1 .. Len(p) + Len(q) |-> (p \o q)[i]]
<1> DEFINE t == p \o q
<1>1. t \in Seq(S) /\ Len(t) = Len(p) + Len(q) /\ Len(p) \in Nat /\ Len(q) \in Nat
  OBVIOUS
<1>2. \A i \in 1 .. Len(p) : t[i] = p[i]
  OBVIOUS
<1>3. \A i \in Len(p) + 1 .. Len(p) + Len(q) : t[i] = q[i - Len(p)]
  OBVIOUS
<1> HIDE DEF t
<1>4. t = [i \in 1 .. Len(p) + Len(q) |-> t[i]]
  BY <1>1
<1>5. QED
  BY <1>1, <1>2, <1>3, <1>4 DEF t

LEMMA PointsJoin ==
  ASSUME NEW s \in Nat, NEW A \in SUBSET FullValue, NEW B \in SUBSET FullValue, AllBefore(A, B)
  PROVE  Points(s, A \cup B) = Points(s, A) \o Points(s, B)
<1> DEFINE H == A \cup B
           a == Ascending(HeldTimes(A), <)
           b == Ascending(HeldTimes(B), <)
           h == Ascending(HeldTimes(H), <)
<1>1. /\ HeldTimes(A) \in SUBSET Int /\ IsFiniteSet(HeldTimes(A))
      /\ HeldTimes(B) \in SUBSET Int /\ IsFiniteSet(HeldTimes(B))
      /\ H \in SUBSET FullValue
  BY HeldFacts
<1>2. HeldTimes(H) = HeldTimes(A) \cup HeldTimes(B)
  BY DEF HeldTimes
<1>3. \A t \in HeldTimes(A), u \in HeldTimes(B) : t < u
  BY DEF AllBefore, HeldTimes
<1>4. h = a \o b
  BY Zenon, <1>1, <1>2, <1>3, AscendingJoin
<1>5. Counts(a, HeldTimes(A)) /\ Counts(b, HeldTimes(B))
  BY Zenon, <1>1, AscendingCounts
<1>6. a \in Seq(HeldTimes(A)) /\ b \in Seq(HeldTimes(B))
  BY Zenon, <1>5 DEF Counts
<1> HIDE DEF H
<1>7. /\ Points(s, A) \in Seq(Point) /\ Len(Points(s, A)) = Len(a)
      /\ \A i \in 1 .. Len(a) : Points(s, A)[i] = PointIn(s, A, a[i])
      /\ Points(s, B) \in Seq(Point) /\ Len(Points(s, B)) = Len(b)
      /\ \A i \in 1 .. Len(b) : Points(s, B)[i] = PointIn(s, B, b[i])
      /\ Points(s, H) \in Seq(Point) /\ Len(Points(s, H)) = Len(h)
      /\ \A i \in 1 .. Len(h) : Points(s, H)[i] = PointIn(s, H, h[i])
  BY Zenon, <1>1, PointsType
<1> HIDE DEF a, b, h
<1>8. /\ Len(a) \in Nat /\ \A i \in 1 .. Len(a) : a[i] \in HeldTimes(A)
      /\ Len(b) \in Nat /\ \A i \in 1 .. Len(b) : b[i] \in HeldTimes(B)
  BY <1>6, ElementOfSeq
<1>9. /\ Len(h) = Len(a) + Len(b)
      /\ \A i \in 1 .. Len(a) : h[i] = a[i]
      /\ \A i \in Len(a) + 1 .. Len(a) + Len(b) : h[i] = b[i - Len(a)]
  <2>1. a \in Seq(Int) /\ b \in Seq(Int)
    BY <1>1, <1>6
  <2>2. QED
    BY <1>4, <2>1, ConcatProperties
<1>10. \A t \in HeldTimes(A) : PointIn(s, H, t) = PointIn(s, A, t)
  <2>1. SUFFICES ASSUME NEW t \in HeldTimes(A) PROVE PointIn(s, H, t) = PointIn(s, A, t)
    OBVIOUS
  <2>2. \A x \in B : x.ts # t
    <3>1. \A x \in B : x.ts \in HeldTimes(B)
      BY DEF HeldTimes
    <3>2. \A x \in B : t < x.ts /\ t \in Int /\ x.ts \in Int
      BY <1>1, <1>3, <2>1, <3>1
    <3>3. QED
      BY <3>2
  <2>3. {v \in H : v.ts = t} = {v \in A : v.ts = t}
    BY <2>2 DEF H
  <2>4. QED
    BY <2>3 DEF PointIn
<1>11. \A t \in HeldTimes(B) : PointIn(s, H, t) = PointIn(s, B, t)
  <2>1. SUFFICES ASSUME NEW t \in HeldTimes(B) PROVE PointIn(s, H, t) = PointIn(s, B, t)
    OBVIOUS
  <2>2. \A x \in A : x.ts # t
    <3>1. \A x \in A : x.ts \in HeldTimes(A)
      BY DEF HeldTimes
    <3>2. \A x \in A : x.ts < t /\ t \in Int /\ x.ts \in Int
      BY <1>1, <1>3, <2>1, <3>1
    <3>3. QED
      BY <3>2
  <2>3. {v \in H : v.ts = t} = {v \in B : v.ts = t}
    BY <2>2 DEF H
  <2>4. QED
    BY <2>3 DEF PointIn
<1> DEFINE pa == Points(s, A)
           pb == Points(s, B)
           ph == Points(s, H)
<1> HIDE DEF pa, pb, ph
<1> DEFINE j == pa \o pb
<1>12. /\ Len(j) = Len(a) + Len(b) /\ j \in Seq(Point)
       /\ \A i \in 1 .. Len(a) : j[i] = pa[i]
       /\ \A i \in Len(a) + 1 .. Len(a) + Len(b) : j[i] = pb[i - Len(a)]
  <2>1. pa \in Seq(Point) /\ pb \in Seq(Point) /\ Len(pa) = Len(a) /\ Len(pb) = Len(b)
    BY <1>7 DEF pa, pb
  <2> HIDE DEF a, b
  <2>2. Len(j) = Len(pa) + Len(pb) /\ j \in Seq(Point) /\ (\A i \in 1 .. Len(pa) : j[i] = pa[i])
        /\ \A i \in Len(pa) + 1 .. Len(pa) + Len(pb) : j[i] = pb[i - Len(pa)]
    <3>1. pa \in Seq(Point) /\ pb \in Seq(Point)
      BY <2>1
    <3>2. QED
      BY <3>1, JoinFacts
  <2> HIDE DEF j
  <2>3. QED
    BY <2>1, <2>2
<1> HIDE DEF j
<1>13. ASSUME NEW i \in 1 .. Len(a) + Len(b) PROVE ph[i] = j[i]
  <2>1. ph[i] = PointIn(s, H, h[i])
    BY <1>7, <1>9 DEF ph
  <2>2. CASE i <= Len(a)
    <3>1. i \in 1 .. Len(a)
      BY <1>8, <2>2
    <3>2. h[i] = a[i] /\ j[i] = PointIn(s, A, a[i]) /\ a[i] \in HeldTimes(A)
      BY <1>7, <1>8, <1>9, <1>12, <3>1 DEF pa
    <3>3. QED
      BY <1>10, <2>1, <3>2
  <2>3. CASE ~ (i <= Len(a))
    <3>1. i \in Len(a) + 1 .. Len(a) + Len(b) /\ i - Len(a) \in 1 .. Len(b)
      BY <1>8, <2>3
    <3>2. h[i] = b[i - Len(a)] /\ j[i] = PointIn(s, B, b[i - Len(a)]) /\ b[i - Len(a)] \in HeldTimes(B)
      BY <1>7, <1>8, <1>9, <1>12, <3>1 DEF pb
    <3>3. QED
      BY <1>11, <2>1, <3>2
  <2>4. QED
    BY <2>2, <2>3
<1>14. ph \in Seq(Point) /\ Len(ph) = Len(a) + Len(b)
  BY <1>7, <1>9 DEF ph
<1>15. ph = j
  <2>1. ph = [i \in 1 .. Len(ph) |-> ph[i]] /\ j = [i \in 1 .. Len(j) |-> j[i]]
    BY <1>12, <1>14
  <2>2. QED
    BY <1>12, <1>13, <1>14, <2>1
<1>16. QED
  BY <1>15 DEF ph, j, pa, pb, H

\* The values of the first n parts.
PartsTo(parts, n) == UNION {parts[i] : i \in 1 .. n}

LEMMA PointsSpread ==
  ASSUME NEW s \in Nat, NEW parts \in Seq(SUBSET FullValue),
         \A b, c \in 1 .. Len(parts) : b < c => AllBefore(parts[b], parts[c])
  PROVE  FlattenSeq([i \in 1 .. Len(parts) |-> Points(s, parts[i])])
           = Points(s, PartsTo(parts, Len(parts)))
<1> DEFINE p == [i \in 1 .. Len(parts) |-> Points(s, parts[i])]
<1>1. Len(parts) \in Nat /\ \A i \in 1 .. Len(parts) : parts[i] \in SUBSET FullValue
  BY ElementOfSeq
<1>2. \A i \in 1 .. Len(parts) : Points(s, parts[i]) \in Seq(Point)
  BY <1>1, PointsType
<1>3. p \in Seq(Seq(Point)) /\ Len(p) = Len(parts) /\ \A i \in 1 .. Len(parts) : p[i] = Points(s, parts[i])
  BY <1>1, <1>2
<1> HIDE DEF p
<1>4. PICK g : Glues(g, p, Point)
  BY <1>3, GluesExists
<1>5. /\ g[0] = <<>> /\ \A i \in 1 .. Len(parts) : g[i] = g[i - 1] \o p[i]
  BY <1>3, <1>4 DEF Glues, GluesTo
<1>6. FlattenSeq(p) = g[Len(parts)]
  BY <1>3, <1>4, FlattenGlues
<1> DEFINE P == {n \in Nat : n <= Len(parts) => g[n] = Points(s, PartsTo(parts, n))}
<1>7. 0 \in P
  <2>1. PartsTo(parts, 0) = {}
    BY DEF PartsTo
  <2>2. QED
    BY <1>5, <2>1, PointsNone
<1>8. ASSUME NEW n \in P \cap Nat PROVE n + 1 \in P
  <2>1. SUFFICES ASSUME n + 1 <= Len(parts)
                 PROVE  g[n + 1] = Points(s, PartsTo(parts, n + 1))
    OBVIOUS
  <2>2. n \in Nat /\ n + 1 \in 1 .. Len(parts) /\ (n + 1) - 1 = n /\ g[n] = Points(s, PartsTo(parts, n))
    BY <1>1, <2>1
  <2> DEFINE A == PartsTo(parts, n)
             B == parts[n + 1]
  <2>3. PartsTo(parts, n + 1) = A \cup B
    <3>1. 1 .. n + 1 = (1 .. n) \cup {n + 1}
      BY <2>2
    <3>2. QED
      BY <3>1 DEF PartsTo
  <2>4. A \in SUBSET FullValue /\ B \in SUBSET FullValue
    <3>1. \A i \in 1 .. n : i \in 1 .. Len(parts)
      BY <1>1, <2>2
    <3>2. QED
      BY <1>1, <2>2, <3>1 DEF PartsTo
  <2>5. AllBefore(A, B)
    <3>1. \A i \in 1 .. n : i \in 1 .. Len(parts) /\ i < n + 1
      BY <1>1, <2>2
    <3>2. \A i \in 1 .. n : AllBefore(parts[i], B)
      BY <2>2, <3>1
    <3>3. QED
      BY <3>2 DEF AllBefore, PartsTo
  <2>6. g[n + 1] = g[n] \o p[n + 1] /\ p[n + 1] = Points(s, B)
    BY <1>3, <1>5, <2>2
  <2> HIDE DEF A, B
  <2>7. Points(s, A \cup B) = Points(s, A) \o Points(s, B)
    BY <2>4, <2>5, PointsJoin
  <2>8. QED
    BY <2>2, <2>3, <2>6, <2>7 DEF A
<1>9. Nat \subseteq P
  <2> HIDE DEF P
  <2> QED BY <1>7, <1>8, SetInduction
<1>10. g[Len(parts)] = Points(s, PartsTo(parts, Len(parts)))
  BY <1>1, <1>9
<1>11. QED
  BY <1>6, <1>10 DEF p

(* The value of a field that counts is the one written last.               *)
LEMMA NewestIs ==
  ASSUME NEW vs \in SUBSET FullValue, NEW v \in vs,
         \A x \in vs \ {v} : x.src < v.src \/ (x.src = v.src /\ SM!Earlier(x.at, v.at))
  PROVE  SM!Newest(vs) = v
<1> DEFINE Top(w) == \A x \in vs \ {w} : x.src < w.src \/ (x.src = w.src /\ SM!Earlier(x.at, w.at))
<1>1. \A x \in vs : x.src \in Nat /\ x.at[1] \in Nat /\ x.at[2] \in Nat
  BY DEF FullValue
<1>2. ASSUME NEW w \in vs, Top(w), w # v PROVE FALSE
  <2>1. v.src < w.src \/ (v.src = w.src /\ SM!Earlier(v.at, w.at))
    BY <1>2
  <2>2. w.src < v.src \/ (w.src = v.src /\ SM!Earlier(w.at, v.at))
    BY <1>2
  <2>3. QED
    BY <1>1, <2>1, <2>2 DEF SM!Earlier
<1>3. Top(v)
  OBVIOUS
<1>4. SM!Newest(vs) = CHOOSE w \in vs : Top(w)
  BY DEF SM!Newest
<1> HIDE DEF Top
<1>5. QED
  BY <1>2, <1>3, <1>4

-----------------------------------------------------------------------------
(* One round of the merge.                                                 *)

\* A unit that can be merged: its streams are in order, each of one source, and
\* those of a field in the order of their sources.
IsUnit(u) ==
  /\ u.series \in Nat /\ u.streams \in Seq(StreamRecords)
  /\ \A i \in 1 .. Len(u.streams) :
       /\ Rises(u.streams[i].vals)
       /\ \A k \in 1 .. Len(u.streams[i].vals) : u.streams[i].vals[k].ts \in SM!Times
       /\ \A k, m \in 1 .. Len(u.streams[i].vals) :
            u.streams[i].vals[k].src = u.streams[i].vals[m].src
  /\ \A i, j \in 1 .. Len(u.streams) : i < j /\ u.streams[i].field = u.streams[j].field =>
       \A k \in 1 .. Len(u.streams[i].vals), m \in 1 .. Len(u.streams[j].vals) :
         u.streams[i].vals[k].src < u.streams[j].vals[m].src

\* What has been consumed of its streams.
IsPos(u, p) ==
  /\ p \in [1 .. Len(u.streams) -> Nat]
  /\ \A i \in 1 .. Len(u.streams) : p[i] <= Len(u.streams[i].vals)

\* What has not.
Left(u, p) ==
  {w \in FullValue : \E i \in 1 .. Len(u.streams) : \E k \in p[i] + 1 .. Len(u.streams[i].vals) :
                       w = Full(u.streams[i].field, u.streams[i].vals[k])}

LEMMA UnitFacts ==
  ASSUME NEW u, IsUnit(u), NEW i \in 1 .. Len(u.streams)
  PROVE  /\ Len(u.streams) \in Nat /\ u.streams[i].field \in Fields
         /\ u.streams[i].vals \in Seq(Value) /\ Len(u.streams[i].vals) \in Nat
         /\ \A k \in 1 .. Len(u.streams[i].vals) :
              LET v == u.streams[i].vals[k] IN
              /\ v.ts \in Int /\ v.src \in Nat /\ v.at \in Nat \X Nat
              /\ Full(u.streams[i].field, v) \in FullValue
         /\ \A k, m \in 1 .. Len(u.streams[i].vals) : k < m =>
              u.streams[i].vals[k].ts <= u.streams[i].vals[m].ts
<1>1. u.streams \in Seq(StreamRecords)
  BY DEF IsUnit
<1>2. Len(u.streams) \in Nat /\ u.streams[i] \in StreamRecords
  BY <1>1, ElementOfSeq
<1>3. u.streams[i].field \in Fields /\ u.streams[i].vals \in Seq(Value)
  BY <1>2 DEF StreamRecords
<1> DEFINE vals == u.streams[i].vals
<1>4. Len(vals) \in Nat /\ \A k \in 1 .. Len(vals) : vals[k] \in Value
  BY <1>3, ElementOfSeq
<1>5. Rises(vals) /\ \A k \in 1 .. Len(vals) : vals[k].ts \in SM!Times
  BY DEF IsUnit
<1> HIDE DEF vals
<1>6. \A k \in 1 .. Len(vals) : vals[k].ts \in Int /\ vals[k].src \in Nat /\ vals[k].at \in Nat \X Nat
  BY <1>4 DEF Value
<1>7. \A k \in 1 .. Len(vals) : Full(u.streams[i].field, vals[k]) \in FullValue
  BY <1>3, <1>5, <1>6 DEF Full, FullValue
<1>8. \A k, m \in 1 .. Len(vals) : k < m => vals[k].ts <= vals[m].ts
  <2>1. \A k, m \in 1 .. Len(vals) : k < m => vals[k].ts < vals[m].ts \/ vals[k].ts = vals[m].ts
    BY <1>5 DEF Rises, SM!ValueBefore
  <2>2. SUFFICES ASSUME NEW k \in 1 .. Len(vals), NEW m \in 1 .. Len(vals), k < m
                 PROVE  vals[k].ts <= vals[m].ts
    OBVIOUS
  <2>3. vals[k].ts \in Int /\ vals[m].ts \in Int
    BY <1>6
  <2>4. vals[k].ts < vals[m].ts \/ vals[k].ts = vals[m].ts
    BY <2>1, <2>2
  <2>5. QED
    BY <2>3, <2>4
<1>9. QED
  BY <1>2, <1>3, <1>4, <1>6, <1>7, <1>8 DEF vals

LEMMA DrainFacts ==
  ASSUME IsUnit(Head(units)), IsPos(Head(units), pos), NEW i \in SM!Open,
         NEW ts \in Int, ts <= SM!NextTs(i)
  PROVE  LET vals == Head(units).streams[i].vals
             d == SM!Drain(i, ts) IN
         /\ i \in 1 .. Len(Head(units).streams)
         /\ d \in Nat /\ pos[i] \in Nat /\ pos[i] < Len(vals) /\ pos[i] <= d /\ d <= Len(vals)
         /\ SM!NextTs(i) = vals[pos[i] + 1].ts
         /\ \A k \in pos[i] + 1 .. d : vals[k].ts = ts
         /\ \A k \in d + 1 .. Len(vals) : ts < vals[k].ts
         /\ SM!NextTs(i) = ts => pos[i] < d
<1> DEFINE u == Head(units)
           vals == u.streams[i].vals
           L == Len(vals)
           D == {j \in pos[i] .. L : j = L \/ vals[j + 1].ts # ts}
           d == SM!Min(D)
<1>1. i \in 1 .. Len(u.streams) /\ pos[i] < L
  BY DEF SM!Open, SM!Streams
<1>2. L \in Nat /\ (\A k \in 1 .. L : vals[k].ts \in Int)
      /\ \A k, m \in 1 .. L : k < m => vals[k].ts <= vals[m].ts
  BY <1>1, UnitFacts
<1>3. pos[i] \in Nat
  BY <1>1 DEF IsPos
<1>4. SM!Drain(i, ts) = d
  BY DEF SM!Drain, SM!Streams
<1>5. SM!NextTs(i) = vals[pos[i] + 1].ts
  BY DEF SM!NextTs, SM!Streams
<1> HIDE DEF vals, L, u
<1>6. D \in SUBSET (0 .. L) /\ L \in D
  BY <1>1, <1>2, <1>3
<1>7. d \in D /\ \A x \in D : d <= x
  <2> HIDE DEF D
  <2> QED BY <1>2, <1>6, LeastOf
<1>8. d \in Nat /\ pos[i] <= d /\ d <= L /\ (d = L \/ vals[d + 1].ts # ts)
  <2> HIDE DEF d
  <2> QED BY <1>2, <1>3, <1>7
<1> HIDE DEF d
<1>9. ASSUME NEW k \in pos[i] + 1 .. d PROVE vals[k].ts = ts
  <2>1. k - 1 \in pos[i] .. L /\ k - 1 # L /\ k - 1 < d /\ (k - 1) + 1 = k
    BY <1>2, <1>3, <1>8
  <2>2. k - 1 \notin D
    <3> HIDE DEF D
    <3> QED BY <1>2, <1>7, <1>8, <2>1
  <2>3. QED
    BY <2>1, <2>2
<1>10. ASSUME NEW k \in d + 1 .. L PROVE ts < vals[k].ts
  <2>1. d + 1 \in 1 .. L /\ k \in 1 .. L /\ pos[i] + 1 \in 1 .. L /\ pos[i] + 1 <= d + 1 /\ d + 1 <= k
    BY <1>1, <1>2, <1>3, <1>8
  <2>2. vals[pos[i] + 1].ts <= vals[d + 1].ts /\ vals[d + 1].ts <= vals[k].ts
    BY <1>2, <2>1
  <2>3. vals[d + 1].ts # ts
    BY <1>2, <1>8, <2>1
  <2>4. vals[d + 1].ts \in Int /\ vals[k].ts \in Int /\ vals[pos[i] + 1].ts \in Int
    BY <1>2, <2>1
  <2>5. QED
    BY <1>5, <2>2, <2>3, <2>4
<1>11. SM!NextTs(i) = ts => pos[i] < d
  <2>1. SUFFICES ASSUME SM!NextTs(i) = ts PROVE pos[i] # d
    BY <1>3, <1>8
  <2>2. vals[pos[i] + 1].ts = ts
    BY <1>5, <2>1
  <2>3. QED
    BY <1>1, <1>8, <2>2
<1>12. QED
  BY <1>1, <1>3, <1>4, <1>5, <1>8, <1>9, <1>10, <1>11 DEF vals, L, u

LEMMA PointsOfOne ==
  ASSUME NEW s, NEW H, H # {}, NEW ts \in Int, \A v \in H : v.ts = ts
  PROVE  Points(s, H) = <<PointOf(s, ts, H)>>
<1>1. HeldTimes(H) = {ts}
  BY DEF HeldTimes
<1>2. Counts(<<ts>>, {ts})
  BY DEF Counts
<1>3. IsFiniteSet({ts}) /\ {ts} \in SUBSET Int
  BY FS_Singleton
<1>4. Ascending({ts}, <) = <<ts>>
  BY Zenon, <1>2, <1>3, CountsUnique
<1> DEFINE times == Ascending(HeldTimes(H), <)
<1>5. times = <<ts>>
  BY <1>1, <1>4, Zenon
<1>6. Points(s, H) = [i \in 1 .. Len(times) |-> PointIn(s, H, times[i])]
  BY Zenon DEF Points
<1>7. PointIn(s, H, ts) = PointOf(s, ts, H)
  <2>1. {v \in H : v.ts = ts} = H
    OBVIOUS
  <2>2. QED
    BY <2>1 DEF PointIn
<1> HIDE DEF times
<1>8. QED
  BY <1>5, <1>6, <1>7

(* The point emitted takes the values of the least time left.              *)
LEMMA EmitFacts ==
  ASSUME IsUnit(Head(units)), IsPos(Head(units), pos), SM!EmitPoint
  PROVE  LET u == Head(units) IN
         /\ IsPos(u, pos') /\ units' = units
         /\ \E pt \in Point :
              /\ merged' = Append(merged, pt)
              /\ Points(u.series, Left(u, pos)) = <<pt>> \o Points(u.series, Left(u, pos'))
<1> DEFINE u == Head(units)
           st == u.streams
           L(i) == Len(st[i].vals)
           v(i, k) == st[i].vals[k]
           T == {SM!NextTs(i) : i \in SM!Open}
           ts == SM!Min(T)
           d(i) == SM!Drain(i, ts)
           has(f) == {i \in SM!Open : st[i].field = f /\ SM!NextTs(i) = ts}
           value(f) == st[SM!Max(has(f))].vals[d(SM!Max(has(f)))]
           fields == [f \in {g \in Fields : has(g) # {}} |-> <<value(f).src, value(f).at>>]
           pt == [series |-> u.series, ts |-> ts, fields |-> fields]
<1>1. /\ SM!Open # {} /\ merged' = Append(merged, pt) /\ units' = units
      /\ pos' = [i \in DOMAIN pos |-> IF i \in SM!Open THEN d(i) ELSE pos[i]]
  BY Zenon DEF SM!EmitPoint, SM!LastConsumed, SM!Streams
<1>2. SM!Open = {i \in 1 .. Len(st) : pos[i] < L(i)}
  BY DEF SM!Open, SM!Streams
<1>3. /\ Len(st) \in Nat
      /\ \A i \in 1 .. Len(st) :
           /\ pos[i] \in Nat /\ L(i) \in Nat /\ pos[i] <= L(i) /\ st[i].field \in Fields
           /\ \A k \in 1 .. L(i) :
                /\ v(i, k).ts \in Int /\ v(i, k).ts \in SM!Times /\ v(i, k).src \in Nat
                /\ v(i, k).at \in Nat \X Nat /\ Full(st[i].field, v(i, k)) \in FullValue
           /\ \A k, m \in 1 .. L(i) : k < m => v(i, k).ts <= v(i, m).ts
  <2>1. Len(st) \in Nat
    BY DEF IsUnit
  <2>2. SUFFICES ASSUME NEW i \in 1 .. Len(st)
                 PROVE  /\ pos[i] \in Nat /\ L(i) \in Nat /\ pos[i] <= L(i) /\ st[i].field \in Fields
                        /\ \A k \in 1 .. L(i) :
                             /\ v(i, k).ts \in Int /\ v(i, k).ts \in SM!Times /\ v(i, k).src \in Nat
                             /\ v(i, k).at \in Nat \X Nat /\ Full(st[i].field, v(i, k)) \in FullValue
                        /\ \A k, m \in 1 .. L(i) : k < m => v(i, k).ts <= v(i, m).ts
    BY <2>1
  <2>3. pos[i] \in Nat /\ pos[i] <= L(i)
    BY DEF IsPos
  <2>4. \A k \in 1 .. L(i) : v(i, k).ts \in SM!Times
    BY DEF IsUnit
  <2>5. QED
    BY <2>3, <2>4, UnitFacts
<1>4. \A i \in SM!Open : SM!NextTs(i) = v(i, pos[i] + 1).ts
  BY SMTT(30) DEF SM!NextTs, SM!Streams
<1> HIDE DEF st, L, v
<1>5. T \in SUBSET (0 .. LastTime) /\ LastTime \in Nat /\ T # {}
  <2>1. \A i \in SM!Open : pos[i] + 1 \in 1 .. L(i) /\ i \in 1 .. Len(st)
    BY <1>2, <1>3
  <2>2. \A i \in SM!Open : SM!NextTs(i) \in 0 .. LastTime
    BY <1>3, <1>4, <2>1, TimesAre
  <2>3. QED
    BY Zenon, <1>1, <2>2, TimesAre
<1>6. ts \in T /\ \A x \in T : ts <= x
  <2> HIDE DEF T
  <2> QED BY <1>5, LeastOf
<1>7. ts \in 0 .. LastTime /\ ts \in Int /\ ts \in SM!Times
  <2> HIDE DEF T, ts
  <2> QED BY <1>5, <1>6, TimesAre
<1>8. \A i \in SM!Open : ts <= SM!NextTs(i)
  <2>1. \A i \in SM!Open : SM!NextTs(i) \in T
    OBVIOUS
  <2> HIDE DEF T, ts
  <2>2. QED
    BY <1>6, <2>1
<1>9. PICK i0 \in SM!Open : SM!NextTs(i0) = ts
  <2> HIDE DEF ts
  <2> QED BY <1>6
<1> HIDE DEF T, ts
<1>10. \A i \in SM!Open :
         /\ i \in 1 .. Len(st) /\ d(i) \in Nat /\ pos[i] < L(i) /\ pos[i] <= d(i) /\ d(i) <= L(i)
         /\ \A k \in pos[i] + 1 .. d(i) : v(i, k).ts = ts
         /\ \A k \in d(i) + 1 .. L(i) : ts < v(i, k).ts
         /\ SM!NextTs(i) = ts => pos[i] < d(i)
  BY <1>7, <1>8, DrainFacts DEF st, L, v
<1> HIDE DEF d
<1>11. /\ pos' \in [1 .. Len(st) -> Nat]
       /\ \A i \in SM!Open : pos'[i] = d(i)
       /\ \A i \in 1 .. Len(st) : i \notin SM!Open => pos'[i] = pos[i] /\ pos[i] = L(i)
       /\ \A i \in 1 .. Len(st) : pos[i] <= pos'[i] /\ pos'[i] <= L(i) /\ pos'[i] \in Nat
  <2>1. DOMAIN pos = 1 .. Len(st)
    BY SMTT(30) DEF IsPos, st
  <2>2. \A i \in 1 .. Len(st) : pos'[i] = IF i \in SM!Open THEN d(i) ELSE pos[i]
    BY <1>1, <2>1
  <2>3. \A i \in 1 .. Len(st) : i \notin SM!Open => pos[i] = L(i)
    BY <1>2, <1>3
  <2>4. \A i \in SM!Open : i \in 1 .. Len(st)
    BY <1>2
  <2>5. \A i \in 1 .. Len(st) : pos[i] <= pos'[i] /\ pos'[i] <= L(i) /\ pos'[i] \in Nat
    BY SMTT(30), <1>3, <1>10, <2>2, <2>3
  <2>6. pos' = [i \in 1 .. Len(st) |-> pos'[i]]
    BY Zenon, <1>1, <2>1
  <2>7. QED
    BY <2>2, <2>3, <2>4, <2>5, <2>6
<1>12. IsPos(u, pos')
  BY <1>11 DEF IsPos, st, L
<1> DEFINE Held(p) == {w \in FullValue : \E i \in 1 .. Len(st) : \E k \in p[i] + 1 .. L(i) :
                          w = Full(st[i].field, v(i, k))}
           now == {w \in Held(pos) : w.ts = ts}
<1>13. Left(u, pos) = Held(pos) /\ Left(u, pos') = Held(pos')
  BY DEF Left, st, L, v
<1>14. \A w \in now : \E i \in SM!Open : \E k \in pos[i] + 1 .. d(i) :
         w = Full(st[i].field, v(i, k)) /\ i \in has(st[i].field)
  <2>1. SUFFICES ASSUME NEW w \in now
                 PROVE  \E i \in SM!Open : \E k \in pos[i] + 1 .. d(i) :
                          w = Full(st[i].field, v(i, k)) /\ i \in has(st[i].field)
    OBVIOUS
  <2>2a. PICK i \in 1 .. Len(st) : \E k \in pos[i] + 1 .. L(i) : w = Full(st[i].field, v(i, k))
    OBVIOUS
  <2>2. PICK k \in pos[i] + 1 .. L(i) : w = Full(st[i].field, v(i, k))
    BY <2>2a
  <2>3. i \in SM!Open /\ k \in 1 .. L(i) /\ pos[i] + 1 \in 1 .. L(i)
    BY SMTT(30), <1>2, <1>3
  <2>4. v(i, k).ts = ts
    BY <2>1, <2>2 DEF Full
  <2>5. k <= d(i)
    <3>1. ~ (k \in d(i) + 1 .. L(i))
      BY <1>7, <1>10, <2>3, <2>4
    <3>2. QED
      BY <1>10, <2>3, <3>1
  <2>6. v(i, pos[i] + 1).ts = ts
    <3>1. pos[i] + 1 \in pos[i] + 1 .. d(i)
      BY SMTT(30), <1>3, <1>10, <2>3, <2>5
    <3>2. QED
      BY <1>10, <2>3, <3>1
  <2>7. QED
    BY <1>3, <1>4, <1>10, <2>2, <2>3, <2>5, <2>6
<1>15. Held(pos) = now \cup Held(pos')
  <2>1. ASSUME NEW w \in Held(pos) PROVE w \in now \/ w \in Held(pos')
    <3>1a. PICK i \in 1 .. Len(st) : \E k \in pos[i] + 1 .. L(i) : w = Full(st[i].field, v(i, k))
      OBVIOUS
    <3>1. PICK k \in pos[i] + 1 .. L(i) : w = Full(st[i].field, v(i, k))
      BY <3>1a
    <3>2. i \in SM!Open
      BY <1>2, <1>3
    <3>3. CASE k <= d(i)
      <4>1. k \in pos[i] + 1 .. d(i)
        BY <1>3, <1>10, <3>2, <3>3
      <4>2. w.ts = ts
        BY <1>10, <3>1, <3>2, <4>1 DEF Full
      <4>3. QED
        BY <4>2
    <3>4. CASE ~ (k <= d(i))
      <4>1. k \in pos'[i] + 1 .. L(i)
        BY <1>3, <1>10, <1>11, <3>2, <3>4
      <4>2. QED
        BY <3>1, <4>1
    <3>5. QED
      BY <3>3, <3>4
  <2>2. ASSUME NEW w \in Held(pos') PROVE w \in Held(pos)
    <3>1a. PICK i \in 1 .. Len(st) : \E k \in pos'[i] + 1 .. L(i) : w = Full(st[i].field, v(i, k))
      OBVIOUS
    <3>1. PICK k \in pos'[i] + 1 .. L(i) : w = Full(st[i].field, v(i, k))
      BY <3>1a
    <3>2. k \in pos[i] + 1 .. L(i)
      <4>1. pos[i] \in Nat /\ pos'[i] \in Nat /\ L(i) \in Nat /\ pos[i] <= pos'[i]
        BY <1>3, <1>11
      <4>2. QED
        BY <4>1
    <3>3. QED
      BY <3>1, <3>2
  <2>3. now \in SUBSET Held(pos)
    OBVIOUS
  <2> HIDE DEF Held, now
  <2>4. QED
    BY <2>1, <2>2, <2>3
<1>16. AllBefore(now, Held(pos'))
  <2>1. SUFFICES ASSUME NEW w \in Held(pos') PROVE ts < w.ts
    BY DEF AllBefore
  <2>2a. PICK i \in 1 .. Len(st) : \E k \in pos'[i] + 1 .. L(i) : w = Full(st[i].field, v(i, k))
    OBVIOUS
  <2>2. PICK k \in pos'[i] + 1 .. L(i) : w = Full(st[i].field, v(i, k))
    BY <2>2a
  <2>3. i \in SM!Open
    <3>1a. pos'[i] \in Nat /\ L(i) \in Nat
      BY <1>3, <1>11, Zenon
    <3>1. pos'[i] \in Nat /\ L(i) \in Nat /\ pos'[i] + 1 <= k /\ k <= L(i)
      BY <3>1a
    <3>2. pos'[i] # L(i)
      BY <3>1
    <3>3. i \notin SM!Open => pos'[i] = pos[i] /\ pos[i] = L(i)
      BY <1>11, Zenon
    <3>4. QED
      BY <3>2, <3>3, Zenon
  <2>4. k \in d(i) + 1 .. L(i)
    BY <1>11, <2>3
  <2>5. QED
    BY <1>10, <2>2, <2>3, <2>4 DEF Full
<1>17. now \in SUBSET FullValue /\ Held(pos') \in SUBSET FullValue /\ u.series \in Nat
  BY DEF IsUnit
<1>18. Points(u.series, Held(pos)) = Points(u.series, now) \o Points(u.series, Held(pos'))
  <2> DEFINE rest == Held(pos')
             s == u.series
  <2>1. rest \in SUBSET FullValue /\ s \in Nat /\ AllBefore(now, rest) /\ now \in SUBSET FullValue
    BY <1>16, <1>17
  <2>2. Held(pos) = now \cup rest
    BY <1>15
  <2> HIDE DEF now, rest, s
  <2>3. Points(s, now \cup rest) = Points(s, now) \o Points(s, rest)
    BY <2>1, PointsJoin
  <2>4. QED
    BY <2>2, <2>3 DEF rest, s
<1>19. \A i \in SM!Open : SM!NextTs(i) = ts =>
         /\ d(i) \in pos[i] + 1 .. L(i) /\ d(i) \in 1 .. L(i) /\ v(i, d(i)).ts = ts
         /\ Full(st[i].field, v(i, d(i))) \in now
  <2>1. SUFFICES ASSUME NEW i \in SM!Open, SM!NextTs(i) = ts
                 PROVE  /\ d(i) \in pos[i] + 1 .. L(i) /\ d(i) \in 1 .. L(i) /\ v(i, d(i)).ts = ts
                        /\ Full(st[i].field, v(i, d(i))) \in now
    OBVIOUS
  <2>2. i \in 1 .. Len(st) /\ d(i) \in pos[i] + 1 .. L(i) /\ d(i) \in 1 .. L(i) /\ d(i) \in pos[i] + 1 .. d(i)
    BY <1>3, <1>10, <2>1
  <2>3. v(i, d(i)).ts = ts
    BY <1>10, <2>1, <2>2
  <2>4. Full(st[i].field, v(i, d(i))) \in FullValue
    BY <1>3, <2>2
  <2>5. Full(st[i].field, v(i, d(i))).ts = ts
    BY <2>3 DEF Full
  <2>6. QED
    BY <2>2, <2>3, <2>4, <2>5
<1>20. now # {}
  BY <1>9, <1>19
<1>21. Points(u.series, now) = <<PointOf(u.series, ts, now)>>
  <2>1. \A w \in now : w.ts = ts
    OBVIOUS
  <2> HIDE DEF now
  <2>2. QED
    BY <1>7, <1>20, <2>1, PointsOfOne
<1> HIDE DEF now
<1>22. {w.field : w \in now} = {g \in Fields : has(g) # {}}
  <2>1. ASSUME NEW w \in now PROVE w.field \in Fields /\ has(w.field) # {}
    <3>1a. PICK i \in SM!Open : \E k \in pos[i] + 1 .. d(i) :
            w = Full(st[i].field, v(i, k)) /\ i \in has(st[i].field)
      BY <1>14
    <3>1. PICK k \in pos[i] + 1 .. d(i) :
            w = Full(st[i].field, v(i, k)) /\ i \in has(st[i].field)
      BY <3>1a
    <3>2. w.field = st[i].field
      BY <3>1 DEF Full
    <3>3. QED
      BY <1>3, <1>10, <3>1, <3>2
  <2>2. ASSUME NEW g \in Fields, has(g) # {} PROVE \E w \in now : w.field = g
    <3>1. PICK i \in SM!Open : st[i].field = g /\ SM!NextTs(i) = ts
      BY <2>2
    <3>2. Full(st[i].field, v(i, d(i))) \in now /\ Full(st[i].field, v(i, d(i))).field = g
      BY <1>19, <3>1 DEF Full
    <3>3. QED
      BY <3>2
  <2> HIDE DEF has
  <2>3. QED
    BY <2>1, <2>2
<1>23. ASSUME NEW f \in Fields, has(f) # {}
       PROVE  LET w == SM!Newest({x \in now : x.field = f}) IN <<w.src, w.at>> = <<value(f).src, value(f).at>>
  <2> DEFINE i == SM!Max(has(f))
             w == Full(f, v(i, d(i)))
             ws == {x \in now : x.field = f}
  <2>1. has(f) \in SUBSET (0 .. Len(st)) /\ Len(st) \in Nat
    BY <1>2, <1>3
  <2>2. i \in has(f) /\ \A j \in has(f) : i >= j
    <3> HIDE DEF has
    <3> QED BY <1>23, <2>1, GreatestOf
  <2> HIDE DEF i
  <2>3. i \in SM!Open /\ i \in 1 .. Len(st) /\ st[i].field = f /\ SM!NextTs(i) = ts
    BY <1>10, <2>2
  <2>4. d(i) \in 1 .. L(i) /\ v(i, d(i)).ts = ts /\ w \in now /\ w.field = f
    BY <1>19, <2>3 DEF Full
  <2>5. ASSUME NEW x \in ws \ {w}
        PROVE  x.src < w.src \/ (x.src = w.src /\ SM!Earlier(x.at, w.at))
    <3>1a. PICK j \in SM!Open : \E k \in pos[j] + 1 .. d(j) :
            x = Full(st[j].field, v(j, k)) /\ j \in has(st[j].field)
      BY <1>14
    <3>1. PICK k \in pos[j] + 1 .. d(j) :
            x = Full(st[j].field, v(j, k)) /\ j \in has(st[j].field)
      BY <3>1a
    <3>2. st[j].field = f /\ j \in has(f)
      BY <3>1 DEF Full
    <3>3. j \in 1 .. Len(st) /\ j <= i /\ k \in 1 .. L(j) /\ v(j, k).ts = ts
      BY SMTT(30), <1>3, <1>10, <2>2, <2>3, <3>1, <3>2
    <3>4. x.src = v(j, k).src /\ x.at = v(j, k).at /\ w.src = v(i, d(i)).src /\ w.at = v(i, d(i)).at
      BY <3>1 DEF Full
    <3>5. CASE j < i
      <4>1. v(j, k).src < v(i, d(i)).src
        BY <2>3, <2>4, <3>2, <3>3, <3>5 DEF IsUnit, st, L, v
      <4>2. QED
        BY <3>4, <4>1
    <3>6. CASE j = i
      <4>1. k # d(i)
        <5>1. SUFFICES ASSUME k = d(i) PROVE FALSE
          OBVIOUS
        <5>2. x = w
          BY <3>1, <3>2, <3>6, <5>1
        <5>3. QED
          BY <5>2
      <4>2. k < d(i)
        BY <1>3, <1>10, <2>3, <3>6, <4>1
      <4>3. SM!ValueBefore(v(i, k), v(i, d(i)))
        BY <2>3, <2>4, <3>3, <3>6, <4>2 DEF IsUnit, Rises, st, L, v
      <4>4. v(i, k).ts = v(i, d(i)).ts /\ v(i, k).ts \in Int
        BY <1>7, <2>4, <3>3, <3>6
      <4>5. SM!Earlier(v(i, k).at, v(i, d(i)).at)
        BY <4>3, <4>4 DEF SM!ValueBefore
      <4>6. v(i, k).src = v(i, d(i)).src
        BY <2>3, <2>4, <3>3, <3>6 DEF IsUnit, st, L, v
      <4>7. QED
        BY <3>4, <3>6, <4>5, <4>6
    <3>7. QED
      BY <2>3, <3>3, <3>5, <3>6
  <2>6. w \in ws /\ ws \in SUBSET FullValue
    BY <1>17, <2>4
  <2> HIDE DEF w, ws
  <2>7. SM!Newest(ws) = w
    BY <2>5, <2>6, NewestIs
  <2>8. value(f) = v(i, d(i))
    BY DEF i, v
  <2>9. w.src = v(i, d(i)).src /\ w.at = v(i, d(i)).at
    BY DEF w, Full
  <2>10. QED
    BY <2>7, <2>8, <2>9 DEF ws
<1>24. PointOf(u.series, ts, now) = pt
  <2> DEFINE best(f) == SM!Newest({x \in now : x.field = f})
  <2>1. PointOf(u.series, ts, now)
          = [series |-> u.series, ts |-> ts,
             fields |-> [f \in {w.field : w \in now} |-> <<best(f).src, best(f).at>>]]
    BY Zenon DEF PointOf
  <2>2. \A f \in {g \in Fields : has(g) # {}} :
          <<best(f).src, best(f).at>> = <<value(f).src, value(f).at>>
    BY <1>23
  <2> HIDE DEF best, value, has
  <2>3. [f \in {w.field : w \in now} |-> <<best(f).src, best(f).at>>] = fields
    BY <1>22, <2>2
  <2>4. QED
    BY <2>1, <2>3
<1>25. pt \in Point
  <2> HIDE DEF pt
  <2> QED BY <1>7, <1>17, <1>24, PointMember
<1>26. Points(u.series, Left(u, pos)) = <<pt>> \o Points(u.series, Left(u, pos'))
  <2> HIDE DEF pt, Held
  <2> QED BY <1>13, <1>18, <1>21, <1>24
<1>27. QED
  <2> HIDE DEF pt
  <2> QED BY <1>1, <1>12, <1>25, <1>26

-----------------------------------------------------------------------------
(* MergeUnits of a series.                                                      *)

LEMMA StoredFacts ==
  ASSUME NEW sr, IsKnown(sr), NEW src \in FileSources(sr) \cup LogSources(sr), NEW f \in Fields
  PROVE  \A v \in Stored(sr, src, f) :
           v \in Value /\ v.ts \in SM!Times /\ v.src = src /\ Full(f, v) \in FullValue
<1> DEFINE n == Len(sr.files)
           m == Len(sr.wal)
<1>1. /\ sr.files \in Seq(FileKeys) /\ sr.wal \in Seq(LogWrites) /\ n \in Nat /\ m \in Nat
      /\ src \in (1 .. n) \cup (n + 1 .. n + m)
  <2>1. src \in (1 .. n) \cup (n + 1 .. n + m)
    BY Zenon DEF FileSources, LogSources
  <2>2. sr.files \in Seq(FileKeys) /\ sr.wal \in Seq(LogWrites)
    BY DEF IsKnown
  <2>3. n \in Nat /\ m \in Nat
    BY <2>2
  <2>4. QED
    BY <2>1, <2>2, <2>3
<1>2. \A t \in SM!Times : t \in Int
  BY TimesAre
<1>3. ASSUME NEW block \in Seq(SM!Times), NEW b \in Nat, NEW v \in BlockSet(src, block, b), src \in Nat
      PROVE  v \in Value /\ v.ts \in SM!Times /\ v.src = src /\ Full(f, v) \in FullValue
  <2>1. PICK i \in 1 .. Len(block) : v = ValueAt(src, b, i, block[i])
    BY DEF BlockSet
  <2>2. Len(block) \in Nat /\ block[i] \in SM!Times /\ i \in Nat
    BY <1>3, ElementOfSeq
  <2>3. v = [ts |-> block[i], src |-> src, at |-> <<b, i>>] /\ <<b, i>> \in Nat \X Nat
    BY <2>1, <2>2, <1>3 DEF ValueAt
  <2>4. QED
    BY <1>2, <1>3, <2>2, <2>3 DEF Value, Full, FullValue
<1>4. CASE src <= n
  <2>1. src \in 1 .. n /\ src \in Nat
    <3> HIDE DEF n, m
    <3> QED BY <1>1, <1>4
  <2> DEFINE blocks == sr.files[src][f]
  <2>2. blocks \in Seq(Block)
    <3>1. sr.files[src] \in FileKeys
      BY <1>1, <2>1, ElementOfSeq
    <3>2. QED
      BY <3>1 DEF FileKeys
  <2>3. \A b \in 1 .. Len(blocks) : blocks[b] \in Seq(SM!Times) /\ b \in Nat
    BY <2>2, ElementOfSeq DEF Block
  <2>4. Stored(sr, src, f) = KeySet(src, blocks)
    BY <1>4 DEF Stored
  <2> HIDE DEF blocks
  <2>5. \A v \in KeySet(src, blocks) : \E b \in 1 .. Len(blocks) : v \in BlockSet(src, blocks[b], b)
    BY DEF KeySet
  <2>6. QED
    BY <1>3, <2>1, <2>3, <2>4, <2>5
<1>5. CASE ~ (src <= n)
  <2> DEFINE k == src - n
             write == sr.wal[k]
  <2>1. k \in 1 .. m /\ src \in Nat
    <3> HIDE DEF n, m
    <3> QED BY <1>1, <1>5
  <2>2. write.times \in Seq(SM!Times)
    <3>1. write \in LogWrites
      BY <1>1, <2>1, ElementOfSeq
    <3>2. QED
      BY <3>1 DEF LogWrites
  <2>3. Stored(sr, src, f) = IF write.field = f THEN BlockSet(src, write.times, 0) ELSE {}
    BY <1>5 DEF Stored
  <2> HIDE DEF write
  <2>4. QED
    BY <1>3, <2>1, <2>2, <2>3
<1>6. QED
  BY <1>4, <1>5

LEMMA LogStreamsFacts ==
  ASSUME NEW sr, IsKnown(sr), NEW w, w[1] \in Int, w[2] \in Int
  PROVE  \E G : Streamed(G, SM!LogStreams(sr, w), sr, LogSources(sr), w)
<1> DEFINE n == Len(sr.files)
           m == Len(sr.wal)
           vals(i) == SM!SliceStream(n + i, sr.wal[i].times, w)
           st == SM!LogStreams(sr, w)
           G == [i \in 1 .. m |-> n + i]
<1>1. n \in Nat /\ m \in Nat /\ sr.wal \in Seq(LogWrites) /\ LogSources(sr) = n + 1 .. n + m
  BY DEF IsKnown, LogSources
<1>2. \A i \in 1 .. m : sr.wal[i].field \in Fields /\ sr.wal[i].times \in Seq(SM!Times)
  <2>1. \A i \in 1 .. m : sr.wal[i] \in LogWrites
    BY <1>1, ElementOfSeq
  <2>2. QED
    BY <2>1 DEF LogWrites
<1>3. st = [i \in 1 .. m |-> [field |-> sr.wal[i].field, vals |-> vals(i)]]
  BY DEF SM!LogStreams
<1>4. ASSUME NEW i \in 1 .. m
      PROVE  /\ vals(i) \in Seq(Value) /\ Rises(vals(i)) /\ n + i \in LogSources(sr)
             /\ ToSet(vals(i)) = {v \in Stored(sr, n + i, sr.wal[i].field) : v.ts \in w[1] .. w[2]}
  <2>1. n + i \in Nat /\ n + i \in LogSources(sr) /\ ~ (n + i <= n) /\ (n + i) - n = i
    <3> HIDE DEF n, m
    <3> QED BY <1>1
  <2>2. /\ vals(i) \in Seq(Value) /\ Rises(vals(i))
        /\ ToSet(vals(i)) = {v \in BlockSet(n + i, sr.wal[i].times, 0) : v.ts \in w[1] .. w[2]}
    BY <1>2, <2>1, SliceFacts
  <2>3. Stored(sr, n + i, sr.wal[i].field) = BlockSet(n + i, sr.wal[i].times, 0)
    BY <2>1 DEF Stored
  <2>4. QED
    BY <2>1, <2>2, <2>3
<1> HIDE DEF st, vals
<1>5. /\ st \in Seq(StreamRecords) /\ Len(st) = m
      /\ \A i \in 1 .. m : st[i].field = sr.wal[i].field /\ st[i].vals = vals(i)
  <2>1. \A i \in 1 .. m : [field |-> sr.wal[i].field, vals |-> vals(i)] \in StreamRecords
    BY <1>2, <1>4 DEF StreamRecords
  <2>2. QED
    BY <1>1, <1>3, <2>1
<1>6. ASSUME NEW src \in LogSources(sr), NEW f \in Fields, NEW v \in Stored(sr, src, f)
      PROVE  \E i \in 1 .. m : G[i] = src /\ st[i].field = f
  <2>1. src - n \in 1 .. m /\ n + (src - n) = src /\ ~ (src <= n)
    <3> HIDE DEF n, m
    <3> QED BY <1>1
  <2>2. sr.wal[src - n].field = f
    BY <2>1 DEF Stored
  <2>3. QED
    BY <1>5, <2>1, <2>2
<1>7. \A i, j \in 1 .. m : i < j => G[i] < G[j]
  BY <1>1
<1>8. \A i \in 1 .. m : G[i] = n + i
  OBVIOUS
<1> HIDE DEF G
<1>9. \A i \in 1 .. Len(st) :
        /\ G[i] \in LogSources(sr) /\ Rises(st[i].vals)
        /\ ToSet(st[i].vals) = {v \in Stored(sr, G[i], st[i].field) : v.ts \in w[1] .. w[2]}
  BY <1>4, <1>5, <1>8
<1>10. Streamed(G, st, sr, LogSources(sr), w)
  BY <1>5, <1>6, <1>7, <1>9 DEF Streamed
<1>11. QED
  BY <1>10 DEF st

LEMMA StreamedJoin ==
  ASSUME NEW sr, NEW w, NEW P, NEW Q, \A a \in P, b \in Q : a < b,
         NEW F, NEW p, Streamed(F, p, sr, P, w), NEW H, NEW q, Streamed(H, q, sr, Q, w)
  PROVE  \E G : Streamed(G, p \o q, sr, P \cup Q, w)
<1> DEFINE L == Len(p)
           M == Len(q)
           t == p \o q
           G == [i \in 1 .. L + M |-> IF i <= L THEN F[i] ELSE H[i - L]]
<1>1. p \in Seq(StreamRecords) /\ q \in Seq(StreamRecords)
  BY DEF Streamed
<1>2. /\ t \in Seq(StreamRecords) /\ Len(t) = L + M /\ L \in Nat /\ M \in Nat
      /\ \A i \in 1 .. L : t[i] = p[i]
      /\ \A i \in L + 1 .. L + M : t[i] = q[i - L]
  BY <1>1, JoinFacts
<1> HIDE DEF t
<1>3. /\ \A i \in 1 .. L : G[i] = F[i]
      /\ \A i \in L + 1 .. L + M : G[i] = H[i - L] /\ i - L \in 1 .. M
  BY <1>2
<1> HIDE DEF G
<1> DEFINE Good(s, g, R) == /\ g \in R /\ Rises(s.vals)
                            /\ ToSet(s.vals) = {v \in Stored(sr, g, s.field) : v.ts \in w[1] .. w[2]}
<1>4. /\ \A i \in 1 .. L : Good(p[i], F[i], P)
      /\ \A i \in 1 .. M : Good(q[i], H[i], Q)
      /\ \A i, j \in 1 .. L : i < j /\ p[i].field = p[j].field => F[i] < F[j]
      /\ \A i, j \in 1 .. M : i < j /\ q[i].field = q[j].field => H[i] < H[j]
      /\ \A src \in P, f \in Fields : \A v \in Stored(sr, src, f) : v.ts \in w[1] .. w[2] =>
           \E i \in 1 .. L : F[i] = src /\ p[i].field = f
      /\ \A src \in Q, f \in Fields : \A v \in Stored(sr, src, f) : v.ts \in w[1] .. w[2] =>
           \E i \in 1 .. M : H[i] = src /\ q[i].field = f
  BY DEF Streamed
<1>5. \A i \in 1 .. L + M : i \in 1 .. L \/ i \in L + 1 .. L + M
  BY <1>2
<1>6. \A i \in 1 .. L + M : Good(t[i], G[i], P \cup Q)
  <2>1. \A i \in 1 .. L : Good(t[i], G[i], P)
    BY <1>2, <1>3, <1>4
  <2>2. ASSUME NEW i \in L + 1 .. L + M PROVE Good(t[i], G[i], Q)
    <3>1. i - L \in 1 .. M /\ t[i] = q[i - L] /\ G[i] = H[i - L]
      BY <1>2, <1>3
    <3>2. Good(q[i - L], H[i - L], Q)
      <4> HIDE DEF Good
      <4> QED BY <1>4, <3>1
    <3>3. QED
      BY <3>1, <3>2
  <2>3. QED
    BY <1>5, <2>1, <2>2
<1>7. ASSUME NEW i \in 1 .. L + M, NEW j \in 1 .. L + M, i < j, t[i].field = t[j].field
      PROVE  G[i] < G[j]
  <2>1. CASE j \in 1 .. L
    <3>1. i \in 1 .. L
      BY <1>2, <1>7, <2>1
    <3>2. t[i] = p[i] /\ t[j] = p[j] /\ G[i] = F[i] /\ G[j] = F[j]
      BY <1>2, <1>3, <2>1, <3>1
    <3>3. QED
      BY <1>4, <1>7, <2>1, <3>1, <3>2
  <2>2. CASE i \in 1 .. L /\ j \in L + 1 .. L + M
    <3>1. G[i] = F[i] /\ F[i] \in P /\ G[j] = H[j - L] /\ H[j - L] \in Q
      BY <1>3, <1>4, <2>2
    <3>2. QED
      BY <3>1
  <2>3. CASE i \in L + 1 .. L + M
    <3>1. j \in L + 1 .. L + M
      BY <1>2, <1>7, <2>3
    <3>2. i - L \in 1 .. M /\ j - L \in 1 .. M /\ i - L < j - L
          /\ t[i] = q[i - L] /\ t[j] = q[j - L] /\ G[i] = H[i - L] /\ G[j] = H[j - L]
      BY <1>2, <1>3, <1>7, <2>3, <3>1
    <3>3. QED
      BY <1>4, <1>7, <3>2
  <2>4. QED
    BY <1>5, <2>1, <2>2, <2>3
<1>8. ASSUME NEW src \in P \cup Q, NEW f \in Fields, NEW v \in Stored(sr, src, f), v.ts \in w[1] .. w[2]
      PROVE  \E i \in 1 .. L + M : G[i] = src /\ t[i].field = f
  <2>1. CASE src \in P
    <3>1. PICK i \in 1 .. L : F[i] = src /\ p[i].field = f
      BY <1>4, <1>8, <2>1
    <3>2. i \in 1 .. L + M /\ G[i] = F[i] /\ t[i] = p[i]
      BY <1>2, <1>3, <3>1
    <3>3. QED
      BY <3>1, <3>2
  <2>2. CASE src \in Q
    <3>1. PICK i \in 1 .. M : H[i] = src /\ q[i].field = f
      BY <1>4, <1>8, <2>2
    <3>2. L + i \in 1 .. L + M /\ L + i \in L + 1 .. L + M /\ (L + i) - L = i
      BY <1>2, <3>1
    <3>3. G[L + i] = H[i] /\ t[L + i] = q[i]
      BY <1>2, <1>3, <3>2
    <3>4. QED
      BY <3>1, <3>2, <3>3
  <2>3. QED
    BY <2>1, <2>2
<1>9. Streamed(G, t, sr, P \cup Q, w)
  BY <1>2, <1>6, <1>7, <1>8 DEF Streamed
<1>10. QED
  BY <1>9 DEF t

\* All a unit holds, before any of it is consumed.
Untouched(u) == [i \in 1 .. Len(u.streams) |-> 0]
Held(u) == Left(u, Untouched(u))

\* What the sources Q have in a window.
HeldBy(sr, Q, w) ==
  {x \in FullValue : \E src \in Q, f \in Fields : \E v \in Stored(sr, src, f) :
                       v.ts \in w[1] .. w[2] /\ x = Full(f, v)}

LEMMA StreamedUnit ==
  ASSUME NEW sr, IsKnown(sr), NEW Q \in SUBSET (FileSources(sr) \cup LogSources(sr)), NEW w,
         NEW u, u.series \in Nat, NEW G, Streamed(G, u.streams, sr, Q, w)
  PROVE  IsUnit(u) /\ Held(u) = HeldBy(sr, Q, w)
<1> DEFINE st == u.streams
           L(i) == Len(st[i].vals)
<1>1. st \in Seq(StreamRecords)
  BY DEF Streamed
<1>2. Len(st) \in Nat /\ \A i \in 1 .. Len(st) : st[i] \in StreamRecords
  BY <1>1, ElementOfSeq
<1>3. \A i \in 1 .. Len(st) : st[i].field \in Fields /\ st[i].vals \in Seq(Value)
  BY <1>2 DEF StreamRecords
<1>4. \A i \in 1 .. Len(st) :
        /\ G[i] \in Q /\ Rises(st[i].vals)
        /\ ToSet(st[i].vals) = {v \in Stored(sr, G[i], st[i].field) : v.ts \in w[1] .. w[2]}
  BY DEF Streamed
<1>5. /\ \A i, j \in 1 .. Len(st) : i < j /\ st[i].field = st[j].field => G[i] < G[j]
      /\ \A src \in Q, f \in Fields : \A v \in Stored(sr, src, f) : v.ts \in w[1] .. w[2] =>
           \E i \in 1 .. Len(st) : G[i] = src /\ st[i].field = f
  BY DEF Streamed
<1> HIDE DEF st
<1>6. \A i \in 1 .. Len(st) : L(i) \in Nat /\ ToSet(st[i].vals) = {st[i].vals[k] : k \in 1 .. L(i)}
  <2>1. SUFFICES ASSUME NEW i \in 1 .. Len(st)
                 PROVE  L(i) \in Nat /\ ToSet(st[i].vals) = {st[i].vals[k] : k \in 1 .. L(i)}
    OBVIOUS
  <2> DEFINE vals == st[i].vals
  <2>2. vals \in Seq(Value)
    BY <1>3
  <2> HIDE DEF vals
  <2>3. Len(vals) \in Nat /\ ToSet(vals) = {vals[k] : k \in 1 .. Len(vals)}
    BY <2>2, ToSetFinite, LenProperties
  <2>4. QED
    BY <2>3 DEF vals
<1>7. ASSUME NEW i \in 1 .. Len(st), NEW k \in 1 .. L(i)
      PROVE  LET v == st[i].vals[k] IN
             /\ v \in Stored(sr, G[i], st[i].field) /\ v.ts \in w[1] .. w[2]
             /\ v.ts \in SM!Times /\ v.src = G[i] /\ Full(st[i].field, v) \in FullValue
  <2> DEFINE v == st[i].vals[k]
  <2>1. v \in ToSet(st[i].vals)
    BY <1>6
  <2>2. v \in Stored(sr, G[i], st[i].field) /\ v.ts \in w[1] .. w[2]
    BY <1>4, <2>1
  <2> HIDE DEF v
  <2>3. G[i] \in FileSources(sr) \cup LogSources(sr) /\ st[i].field \in Fields
    BY <1>3, <1>4
  <2>4. v.ts \in SM!Times /\ v.src = G[i] /\ Full(st[i].field, v) \in FullValue
    BY <2>2, <2>3, StoredFacts
  <2>5. QED
    BY <2>2, <2>4 DEF v
<1>8. IsUnit(u)
  <2>1. /\ \A i \in 1 .. Len(st) : \A k \in 1 .. L(i) : st[i].vals[k].ts \in SM!Times
        /\ \A i \in 1 .. Len(st) : \A k, m \in 1 .. L(i) : st[i].vals[k].src = st[i].vals[m].src
        /\ \A i, j \in 1 .. Len(st) : i < j /\ st[i].field = st[j].field =>
             \A k \in 1 .. L(i), m \in 1 .. L(j) : st[i].vals[k].src < st[j].vals[m].src
    BY SMTT(30), <1>5, <1>7
  <2>2. QED
    BY <1>1, <1>4, <2>1 DEF IsUnit, st
<1> DEFINE zero == Untouched(u)
<1>9. \A i \in 1 .. Len(st) : zero[i] + 1 .. L(i) = 1 .. L(i)
  BY DEF Untouched, st
<1>10. Held(u) = {x \in FullValue : \E i \in 1 .. Len(st) : \E k \in 1 .. L(i) :
                                     x = Full(st[i].field, st[i].vals[k])}
  <2>1. Held(u) = {x \in FullValue : \E i \in 1 .. Len(st) : \E k \in zero[i] + 1 .. L(i) :
                                     x = Full(st[i].field, st[i].vals[k])}
    BY Zenon DEF Held, Left, st
  <2> HIDE DEF zero
  <2>2. QED
    BY <1>9, <2>1
<1>11. ASSUME NEW x \in Held(u) PROVE x \in HeldBy(sr, Q, w)
  <2>1. PICK i \in 1 .. Len(st) : \E k \in 1 .. L(i) : x = Full(st[i].field, st[i].vals[k])
    BY <1>10
  <2>2. PICK k \in 1 .. L(i) : x = Full(st[i].field, st[i].vals[k])
    BY <2>1
  <2> DEFINE v == st[i].vals[k]
             f == st[i].field
  <2>3. v \in Stored(sr, G[i], f) /\ v.ts \in w[1] .. w[2] /\ G[i] \in Q /\ f \in Fields /\ x = Full(f, v)
        /\ x \in FullValue
    BY <1>3, <1>4, <1>7, <2>2
  <2> HIDE DEF v, f
  <2>4. QED
    BY <2>3 DEF HeldBy
<1>12. ASSUME NEW x \in HeldBy(sr, Q, w) PROVE x \in Held(u)
  <2>1. PICK src \in Q, f \in Fields : \E v \in Stored(sr, src, f) : v.ts \in w[1] .. w[2] /\ x = Full(f, v)
    BY DEF HeldBy
  <2>2. PICK v \in Stored(sr, src, f) : v.ts \in w[1] .. w[2] /\ x = Full(f, v)
    BY <2>1
  <2>3. PICK i \in 1 .. Len(st) : G[i] = src /\ st[i].field = f
    BY <1>5, <2>2
  <2>4. v \in ToSet(st[i].vals)
    BY <1>4, <2>2, <2>3
  <2>5. PICK k \in 1 .. L(i) : v = st[i].vals[k]
    BY <1>6, <2>4
  <2>6. x = Full(st[i].field, st[i].vals[k]) /\ x \in FullValue
    BY <2>2, <2>3, <2>5 DEF HeldBy
  <2>7. QED
    BY <1>10, <2>6
<1>13. QED
  BY <1>8, <1>11, <1>12

LEMMA UnitHolds ==
  ASSUME NEW s \in Nat, IsKnown(SM!Series(s)), NEW R \in SUBSET FileSources(SM!Series(s)),
         NEW run, Counts(run, R), NEW w, w[1] \in Int, w[2] \in Int, NEW whole \in BOOLEAN
  PROVE  LET u == SM!Unit(s, run, w, whole)
             sr == SM!Series(s)
         IN  IsUnit(u) /\ u.series = s /\ Held(u) = HeldBy(sr, R \cup LogSources(sr), w)
<1> DEFINE u == SM!Unit(s, run, w, whole)
           sr == SM!Series(s)
           p == SM!FileStreams(sr, run, w, whole)
           q == SM!LogStreams(sr, w)
<1>1. u.series = s /\ u.streams = p \o q
  BY DEF SM!Unit
<1> HIDE DEF u, sr
<1>2. IsKnown(sr) /\ R \in SUBSET FileSources(sr)
  BY DEF sr
<1>3. PICK F : Streamed(F, p, sr, R, w)
  BY <1>2, FileStreamsFacts
<1>4. PICK H : Streamed(H, q, sr, LogSources(sr), w)
  BY <1>2, LogStreamsFacts
<1>5. \A a \in R, b \in LogSources(sr) : a < b
  <2> DEFINE n == Len(sr.files)
             m == Len(sr.wal)
  <2>1. R \in SUBSET (1 .. n) /\ LogSources(sr) = n + 1 .. n + m
    BY <1>2 DEF FileSources, LogSources
  <2>2. sr.files \in Seq(FileKeys) /\ sr.wal \in Seq(LogWrites)
    BY <1>2 DEF IsKnown
  <2>3. n \in Nat /\ m \in Nat
    BY <2>2
  <2> HIDE DEF n, m
  <2>4. QED
    BY <2>1, <2>3
<1> HIDE DEF p, q
<1>6. PICK G : Streamed(G, p \o q, sr, R \cup LogSources(sr), w)
  BY <1>3, <1>4, <1>5, StreamedJoin
<1>7. IsUnit(u) /\ Held(u) = HeldBy(sr, R \cup LogSources(sr), w)
  <2>1. Streamed(G, u.streams, sr, R \cup LogSources(sr), w) /\ u.series \in Nat
        /\ R \cup LogSources(sr) \in SUBSET (FileSources(sr) \cup LogSources(sr))
    BY <1>1, <1>2, <1>6
  <2>2. QED
    BY <1>2, <2>1, StreamedUnit
<1>8. QED
  BY <1>1, <1>7 DEF u, sr

-----------------------------------------------------------------------------
(* A series cut into units, in order of time.                              *)

MergeUnits == {u \in [series : Nat, streams : Seq(StreamRecords)] : IsUnit(u)}

\* The units us hold A, of series s, one after the other.
Cut(us, s, A) ==
  /\ us \in Seq(MergeUnits)
  /\ \A i \in 1 .. Len(us) : us[i].series = s
  /\ \A i, j \in 1 .. Len(us) : i < j => AllBefore(Held(us[i]), Held(us[j]))
  /\ A = UNION {Held(us[i]) : i \in 1 .. Len(us)}

LEMMA CutNone ==
  ASSUME NEW s
  PROVE  Cut(<<>>, s, {})
<1>1. <<>> \in Seq(MergeUnits) /\ Len(<<>>) = 0
  BY EmptySeq
<1>2. QED
  BY <1>1 DEF Cut

LEMMA HeldValues ==
  ASSUME NEW u
  PROVE  Held(u) \in SUBSET FullValue
  BY DEF Held, Left

LEMMA CutPoints ==
  ASSUME NEW s \in Nat, NEW us, NEW A, Cut(us, s, A)
  PROVE  /\ FlattenSeq([i \in 1 .. Len(us) |-> Points(us[i].series, Held(us[i]))]) = Points(s, A)
         /\ A \in SUBSET FullValue
<1> DEFINE parts == [i \in 1 .. Len(us) |-> Held(us[i])]
<1>1. /\ us \in Seq(MergeUnits) /\ \A i \in 1 .. Len(us) : us[i].series = s
      /\ \A i, j \in 1 .. Len(us) : i < j => AllBefore(Held(us[i]), Held(us[j]))
      /\ A = UNION {Held(us[i]) : i \in 1 .. Len(us)}
  BY DEF Cut
<1>2. Len(us) \in Nat /\ \A i \in 1 .. Len(us) : Held(us[i]) \in SUBSET FullValue
  BY <1>1, HeldValues
<1>3. /\ parts \in Seq(SUBSET FullValue) /\ Len(parts) = Len(us)
      /\ \A i \in 1 .. Len(us) : parts[i] = Held(us[i])
  BY <1>2
<1>4. [i \in 1 .. Len(us) |-> Points(us[i].series, Held(us[i]))]
        = [i \in 1 .. Len(parts) |-> Points(s, parts[i])]
  BY <1>1, <1>3
<1> HIDE DEF parts
<1>5. FlattenSeq([i \in 1 .. Len(parts) |-> Points(s, parts[i])]) = Points(s, PartsTo(parts, Len(parts)))
  BY <1>1, <1>3, PointsSpread
<1>6. PartsTo(parts, Len(parts)) = A
  BY <1>1, <1>3 DEF PartsTo
<1>7. A \in SUBSET FullValue
  BY <1>1, <1>2
<1>8. QED
  BY <1>4, <1>5, <1>6, <1>7

LEMMA CutFlatten ==
  ASSUME NEW s, NEW p, NEW A, p \in Seq(Seq(MergeUnits)), \A r \in 1 .. Len(p) : Cut(p[r], s, A[r]),
         \A a, b \in 1 .. Len(p) : a < b => AllBefore(A[a], A[b])
  PROVE  Cut(FlattenSeq(p), s, PartsTo(A, Len(p)))
<1> DEFINE us == FlattenSeq(p)
<1>1. HasPlaces(p, us, Len(p)) /\ us \in Seq(MergeUnits)
  BY FlattenPlaces
<1> HIDE DEF us
<1>2. PICK B, I : PlacedIn(B, I, p, us, Len(p))
  BY <1>1 DEF HasPlaces
<1>3. /\ \A k \in 1 .. Len(us) : B[k] \in 1 .. Len(p) /\ I[k] \in 1 .. Len(p[B[k]]) /\ us[k] = p[B[k]][I[k]]
      /\ \A j, k \in 1 .. Len(us) : j < k => B[j] < B[k] \/ (B[j] = B[k] /\ I[j] < I[k])
      /\ \A b \in 1 .. Len(p) : \A i \in 1 .. Len(p[b]) : \E k \in 1 .. Len(us) : B[k] = b /\ I[k] = i
  BY <1>2 DEF PlacedIn
<1>4. ASSUME NEW r \in 1 .. Len(p)
      PROVE  /\ \A i \in 1 .. Len(p[r]) : p[r][i].series = s /\ Held(p[r][i]) \in SUBSET A[r]
             /\ \A i, j \in 1 .. Len(p[r]) : i < j => AllBefore(Held(p[r][i]), Held(p[r][j]))
             /\ A[r] = UNION {Held(p[r][i]) : i \in 1 .. Len(p[r])}
  BY DEF Cut
<1>5. ASSUME NEW k \in 1 .. Len(us) PROVE us[k].series = s
  <2>1. B[k] \in 1 .. Len(p) /\ I[k] \in 1 .. Len(p[B[k]]) /\ us[k] = p[B[k]][I[k]]
    BY <1>3
  <2>2. p[B[k]][I[k]].series = s
    BY <1>4, <2>1, Zenon
  <2>3. QED
    BY <2>1, <2>2
<1>6. ASSUME NEW j \in 1 .. Len(us), NEW k \in 1 .. Len(us), j < k
      PROVE  AllBefore(Held(us[j]), Held(us[k]))
  <2>1. B[j] < B[k] \/ (B[j] = B[k] /\ I[j] < I[k])
    BY <1>3, <1>6
  <2>2. B[j] \in 1 .. Len(p) /\ B[k] \in 1 .. Len(p) /\ I[j] \in 1 .. Len(p[B[j]]) /\ I[k] \in 1 .. Len(p[B[k]])
        /\ us[j] = p[B[j]][I[j]] /\ us[k] = p[B[k]][I[k]]
    BY <1>3
  <2>3. CASE B[j] < B[k]
    <3>1. AllBefore(A[B[j]], A[B[k]])
      BY <2>2, <2>3
    <3>2. Held(us[j]) \in SUBSET A[B[j]] /\ Held(us[k]) \in SUBSET A[B[k]]
      BY <1>4, <2>2
    <3>3. QED
      BY <3>1, <3>2 DEF AllBefore
  <2>4. CASE B[j] = B[k] /\ I[j] < I[k]
    <3>1. I[k] \in 1 .. Len(p[B[j]]) /\ us[k] = p[B[j]][I[k]]
      BY <2>2, <2>4
    <3>2. AllBefore(Held(p[B[j]][I[j]]), Held(p[B[j]][I[k]]))
      BY <1>4, <2>2, <2>4, <3>1, Zenon
    <3>3. QED
      BY <2>2, <3>1, <3>2
  <2>5. QED
    BY <2>1, <2>3, <2>4
<1>7. UNION {A[r] : r \in 1 .. Len(p)} = UNION {Held(us[k]) : k \in 1 .. Len(us)}
  <2>1. ASSUME NEW r \in 1 .. Len(p), NEW x \in A[r] PROVE \E k \in 1 .. Len(us) : x \in Held(us[k])
    <3>0. A[r] = UNION {Held(p[r][i]) : i \in 1 .. Len(p[r])}
      BY <1>4
    <3>1. PICK i \in 1 .. Len(p[r]) : x \in Held(p[r][i])
      BY <2>1, <3>0
    <3>2. PICK k \in 1 .. Len(us) : B[k] = r /\ I[k] = i
      BY <1>3
    <3>3. us[k] = p[r][i]
      BY <1>3, <3>2
    <3>4. QED
      BY <3>1, <3>3
  <2>2. ASSUME NEW k \in 1 .. Len(us), NEW x \in Held(us[k]) PROVE \E r \in 1 .. Len(p) : x \in A[r]
    <3>1. B[k] \in 1 .. Len(p) /\ Held(us[k]) \in SUBSET A[B[k]]
      BY <1>3, <1>4
    <3>2. QED
      BY <3>1
  <2>3. \A r \in 1 .. Len(p) : \A x \in A[r] : x \in UNION {Held(us[k]) : k \in 1 .. Len(us)}
    BY <2>1
  <2>4. \A k \in 1 .. Len(us) : \A x \in Held(us[k]) : x \in UNION {A[r] : r \in 1 .. Len(p)}
    BY <2>2
  <2>5. QED
    BY <2>3, <2>4
<1>8. Cut(us, s, UNION {A[r] : r \in 1 .. Len(p)})
  BY <1>1, <1>5, <1>6, <1>7 DEF Cut
<1>9. QED
  BY <1>8 DEF us, PartsTo

\* MergeUnits that hold nothing can be left out.
LEMMA CutPicked ==
  ASSUME NEW s, NEW us, NEW A, Cut(us, s, A), NEW I \in SUBSET (1 .. Len(us)),
         \A i \in 1 .. Len(us) : i \notin I => Held(us[i]) = {}
  PROVE  Cut(Picked(us, I), s, A)
<1> DEFINE q == Picked(us, I)
<1>1. /\ us \in Seq(MergeUnits) /\ \A i \in 1 .. Len(us) : us[i].series = s
      /\ \A i, j \in 1 .. Len(us) : i < j => AllBefore(Held(us[i]), Held(us[j]))
      /\ A = UNION {Held(us[i]) : i \in 1 .. Len(us)}
  BY DEF Cut
<1>2. q \in Seq(MergeUnits) /\ \E at : PickedAt(at, us, I, q)
  BY <1>1, PickedFacts
<1> HIDE DEF q
<1>3. PICK at : PickedAt(at, us, I, q)
  BY <1>2
<1>4. /\ \A k \in 1 .. Len(q) : at[k] \in 1 .. Len(us) /\ q[k] = us[at[k]]
      /\ \A j, k \in 1 .. Len(q) : at[j] < at[k] <=> j < k
      /\ \A i \in I : \E k \in 1 .. Len(q) : at[k] = i
  BY <1>3 DEF PickedAt
<1>5. \A k \in 1 .. Len(q) : q[k].series = s
  BY <1>1, <1>4
<1>6. \A j, k \in 1 .. Len(q) : j < k => AllBefore(Held(q[j]), Held(q[k]))
  <2>1. SUFFICES ASSUME NEW j \in 1 .. Len(q), NEW k \in 1 .. Len(q), j < k
                 PROVE  AllBefore(Held(q[j]), Held(q[k]))
    OBVIOUS
  <2>2. at[j] < at[k] /\ at[j] \in 1 .. Len(us) /\ at[k] \in 1 .. Len(us) /\ q[j] = us[at[j]] /\ q[k] = us[at[k]]
    BY <1>4, <2>1
  <2>3. QED
    BY <1>1, <2>2
<1>7. A = UNION {Held(q[k]) : k \in 1 .. Len(q)}
  <2>1. ASSUME NEW i \in 1 .. Len(us), NEW x \in Held(us[i]) PROVE \E k \in 1 .. Len(q) : x \in Held(q[k])
    <3>1. i \in I
      BY <2>1
    <3>2. PICK k \in 1 .. Len(q) : at[k] = i
      BY <1>4, <3>1
    <3>3. q[k] = us[i]
      BY <1>4, <3>2
    <3>4. QED
      BY <2>1, <3>3
  <2>2. ASSUME NEW k \in 1 .. Len(q), NEW x \in Held(q[k]) PROVE \E i \in 1 .. Len(us) : x \in Held(us[i])
    BY <1>4
  <2>3. \A i \in 1 .. Len(us) : \A x \in Held(us[i]) : x \in UNION {Held(q[k]) : k \in 1 .. Len(q)}
    BY <2>1
  <2>4. \A k \in 1 .. Len(q) : \A x \in Held(q[k]) : x \in A
    BY <1>1, <2>2
  <2>5. QED
    BY <1>1, <2>3, <2>4
<1>8. Cut(q, s, A)
  BY <1>2, <1>5, <1>6, <1>7 DEF Cut
<1>9. QED
  BY <1>8 DEF q

-----------------------------------------------------------------------------
(* The windows of a run.                                                   *)

\* g[k] is what F makes of a by the numbers 1 .. k.
Iterates(g, a, F, n) == g = [k \in 0 .. n |-> IF k = 0 THEN a ELSE F[<<k, g[k - 1]>>]]

LEMMA IterationNext ==
  ASSUME NEW A, NEW a \in A, NEW n \in Nat, NEW F \in [(1 .. n) \X A -> A],
         NEW m \in Nat, m + 1 <= n, NEW g \in [0 .. m -> A], Iterates(g, a, F, m)
  PROVE  \E h \in [0 .. m + 1 -> A] : Iterates(h, a, F, m + 1)
<1> DEFINE last == F[<<m + 1, g[m]>>]
           h == [k \in 0 .. m + 1 |-> IF k \in 0 .. m THEN g[k] ELSE last]
<1>1. last \in A /\ \A k \in 0 .. m : g[k] \in A
  <2>1. <<m + 1, g[m]>> \in (1 .. n) \X A
    OBVIOUS
  <2>2. QED
    BY <2>1
<1>2. \A k \in 0 .. m : g[k] = IF k = 0 THEN a ELSE F[<<k, g[k - 1]>>]
  <2>1. g = [k \in 0 .. m |-> IF k = 0 THEN a ELSE F[<<k, g[k - 1]>>]]
    BY DEF Iterates
  <2>2. QED
    BY <2>1, Zenon
<1> HIDE DEF last
<1>3. h \in [0 .. m + 1 -> A]
  BY <1>1
<1>4. ASSUME NEW k \in 0 .. m + 1 PROVE h[k] = IF k = 0 THEN a ELSE F[<<k, h[k - 1]>>]
  <2>1. CASE k = 0
    <3>1. k \in 0 .. m /\ h[k] = g[k]
      BY <2>1
    <3>2. QED
      BY <1>2, <2>1, <3>1
  <2>2. CASE k \in 1 .. m
    <3>1. k \in 0 .. m /\ k # 0 /\ h[k] = g[k] /\ h[k - 1] = g[k - 1]
      BY <2>2
    <3>2. QED
      BY <1>2, <3>1
  <2>3. CASE k = m + 1
    <3>1. k # 0 /\ h[k] = last /\ h[k - 1] = g[m]
      BY <2>3
    <3>2. QED
      BY <2>3, <3>1 DEF last
  <2>4. QED
    BY <2>1, <2>2, <2>3
<1>5. Iterates(h, a, F, m + 1)
  <2>1. h = [k \in 0 .. m + 1 |-> h[k]]
    BY <1>3
  <2> HIDE DEF h
  <2>2. [k \in 0 .. m + 1 |-> h[k]] = [k \in 0 .. m + 1 |-> IF k = 0 THEN a ELSE F[<<k, h[k - 1]>>]]
    BY <1>4
  <2>3. QED
    BY <2>1, <2>2 DEF Iterates
<1>6. QED
  <2> HIDE DEF h
  <2> QED BY <1>3, <1>5

LEMMA IterationExists ==
  ASSUME NEW A, NEW a \in A, NEW n \in Nat, NEW F \in [(1 .. n) \X A -> A]
  PROVE  \E g \in [0 .. n -> A] : Iterates(g, a, F, n)
<1> DEFINE P == {m \in Nat : m <= n => \E g \in [0 .. m -> A] : Iterates(g, a, F, m)}
<1>1. 0 \in P
  <2> DEFINE g == [k \in 0 .. 0 |-> a]
  <2>1. g \in [0 .. 0 -> A] /\ Iterates(g, a, F, 0)
    BY DEF Iterates
  <2> HIDE DEF g
  <2>2. QED
    BY <2>1
<1>2. ASSUME NEW m \in P \cap Nat PROVE m + 1 \in P
  <2>1. SUFFICES ASSUME m + 1 <= n PROVE \E g \in [0 .. m + 1 -> A] : Iterates(g, a, F, m + 1)
    OBVIOUS
  <2>2. PICK g \in [0 .. m -> A] : Iterates(g, a, F, m)
    BY <2>1
  <2>3. QED
    BY <2>1, <2>2, IterationNext
<1>3. Nat \subseteq P
  <2> HIDE DEF P
  <2> QED BY <1>1, <1>2, SetInduction
<1>4. QED
  BY <1>3

WindowState == [start : Int, out : Seq(Int \X Int)]

\* Windows in order of time, that hold all times from lo until hi.
Tiles(out, lo, hi) ==
  /\ out \in Seq(Int \X Int)
  /\ \A i, j \in 1 .. Len(out) : i < j => out[i][2] < out[j][1]
  /\ \A t \in Int : lo <= t /\ t < hi => \E i \in 1 .. Len(out) : t \in out[i][1] .. out[i][2]

\* All of them end before hi.
EndsBefore(out, hi) == \A i \in 1 .. Len(out) : out[i][2] < hi

LEMMA TilesNext ==
  ASSUME NEW lo \in Int, NEW a \in Int, NEW b \in Int, NEW out, Tiles(out, lo, a), EndsBefore(out, a)
  PROVE  Tiles(Append(out, <<a, b>>), lo, b + 1)
<1> DEFINE q == Append(out, <<a, b>>)
           n == Len(out)
<1>1. /\ out \in Seq(Int \X Int)
      /\ \A i, j \in 1 .. n : i < j => out[i][2] < out[j][1]
      /\ \A t \in Int : lo <= t /\ t < a => \E i \in 1 .. n : t \in out[i][1] .. out[i][2]
      /\ \A i \in 1 .. n : out[i][2] < a
  BY DEF Tiles, EndsBefore
<1>2. /\ n \in Nat /\ q \in Seq(Int \X Int) /\ Len(q) = n + 1 /\ q[n + 1] = <<a, b>>
      /\ \A i \in 1 .. n : q[i] = out[i]
  BY <1>1
<1> HIDE DEF q
<1>3. \A i \in 1 .. n + 1 : i \in 1 .. n \/ i = n + 1
  BY <1>2
<1>4. ASSUME NEW i \in 1 .. n + 1, NEW j \in 1 .. n + 1, i < j PROVE q[i][2] < q[j][1]
  <2>1. i \in 1 .. n
    BY <1>2, <1>4
  <2>2. CASE j \in 1 .. n
    BY <1>1, <1>2, <1>4, <2>1, <2>2
  <2>3. CASE j = n + 1
    <3>1. q[i] = out[i] /\ out[i][2] < a
      BY <1>1, <1>2, <2>1
    <3>2. q[j][1] = a
      BY <1>2, <2>3
    <3>3. QED
      BY <3>1, <3>2
  <2>4. QED
    BY <1>3, <2>2, <2>3
<1>5. ASSUME NEW t \in Int, lo <= t, t < b + 1 PROVE \E i \in 1 .. n + 1 : t \in q[i][1] .. q[i][2]
  <2>1. CASE t < a
    <3>1. PICK i \in 1 .. n : t \in out[i][1] .. out[i][2]
      BY <1>1, <1>5, <2>1
    <3>2. i \in 1 .. n + 1 /\ q[i] = out[i]
      BY <1>2
    <3>3. QED
      BY <3>1, <3>2
  <2>2. CASE ~ (t < a)
    <3>1. t \in q[n + 1][1] .. q[n + 1][2] /\ n + 1 \in 1 .. n + 1
      BY <1>2, <1>5, <2>2
    <3>2. QED
      BY <3>1
  <2>3. QED
    BY <2>1, <2>2
<1>6. Tiles(q, lo, b + 1)
  BY <1>2, <1>4, <1>5 DEF Tiles
<1>7. QED
  BY <1>6 DEF q

LEMMA WindowAdded ==
  ASSUME NEW lo \in Int, NEW acc \in WindowState, NEW s \in Int,
         Tiles(acc.out, lo, acc.start), EndsBefore(acc.out, acc.start)
  PROVE  LET new == SM!AddWindow(acc, s) IN
         new \in WindowState /\ Tiles(new.out, lo, new.start) /\ EndsBefore(new.out, new.start)
<1> DEFINE new == SM!AddWindow(acc, s)
           q == Append(acc.out, <<acc.start, s>>)
<1>1. acc.start \in Int /\ acc.out \in Seq(Int \X Int)
  BY DEF WindowState
<1>2. CASE s >= acc.start
  <2>1. new = [start |-> s + 1, out |-> q]
    BY <1>2 DEF SM!AddWindow, SM!AfterSplit
  <2>2. new.start = s + 1 /\ new.out = q
    BY <2>1
  <2>3. q \in Seq(Int \X Int) /\ new \in WindowState
    BY <1>1, <2>1 DEF WindowState
  <2>4. Tiles(q, lo, s + 1)
    BY <1>1, TilesNext
  <2>5. EndsBefore(q, s + 1)
    <3> DEFINE n == Len(acc.out)
    <3>1. n \in Nat /\ Len(q) = n + 1 /\ q[n + 1] = <<acc.start, s>> /\ \A i \in 1 .. n : q[i] = acc.out[i]
      BY <1>1
    <3>2. \A i \in 1 .. n : acc.out[i][2] < acc.start /\ acc.out[i][2] \in Int
      <4>1. \A i \in 1 .. n : acc.out[i] \in Int \X Int
        BY <1>1, ElementOfSeq
      <4>2. QED
        BY <4>1 DEF EndsBefore
    <3> HIDE DEF q, n
    <3>3. ASSUME NEW i \in 1 .. n + 1 PROVE q[i][2] < s + 1
      <4>1. CASE i = n + 1
        BY <3>1, <4>1
      <4>2. CASE i \in 1 .. n
        <5>1. q[i] = acc.out[i] /\ acc.out[i][2] < acc.start /\ acc.out[i][2] \in Int
          BY <3>1, <3>2, <4>2
        <5>2. QED
          BY <1>1, <1>2, <5>1
      <4>3. QED
        BY <3>1, <4>1, <4>2
    <3>4. QED
      BY <3>1, <3>3 DEF EndsBefore
  <2> HIDE DEF new, q
  <2>6. QED
    BY <2>2, <2>3, <2>4, <2>5 DEF new
<1>3. CASE ~ (s >= acc.start)
  <2>1. new = acc
    BY <1>3 DEF SM!AddWindow
  <2>2. QED
    BY <2>1
<1>4. QED
  BY <1>2, <1>3

(* Whatever the split points, the windows are apart and hold every time.   *)
LEMMA SplitWindowsFacts ==
  ASSUME NEW entries, NEW lo \in Int, NEW hi \in Int, NEW k, SM!Splits(entries, hi, k) \in Seq(Int)
  PROVE  Tiles(SM!SplitWindows(entries, lo, hi, k), lo, hi + 1)
<1> DEFINE splits == SM!Splits(entries, hi, k)
           L == Len(splits)
           a == [start |-> lo, out |-> <<>>]
           Is(g) == g = [n \in 0 .. L |-> IF n = 0 THEN a ELSE SM!AddWindow(g[n - 1], splits[n])]
           acc == CHOOSE g : Is(g)
           F == [p \in (1 .. L) \X WindowState |-> SM!AddWindow(p[2], splits[p[1]])]
<1>1. SM!SplitWindows(entries, lo, hi, k) = Append(acc[L].out, <<acc[L].start, hi>>)
  BY DEF SM!SplitWindows
<1> HIDE DEF splits
<1>2. L \in Nat /\ \A n \in 1 .. L : splits[n] \in Int
  BY ElementOfSeq DEF splits
<1>3. a \in WindowState
  <2>1. <<>> \in Seq(Int \X Int)
    BY EmptySeq
  <2>2. QED
    BY <2>1 DEF WindowState
<1>4. ASSUME NEW b \in WindowState, NEW s \in Int PROVE SM!AddWindow(b, s) \in WindowState
  <2>1. b.start \in Int /\ b.out \in Seq(Int \X Int)
    BY DEF WindowState
  <2>2. Append(b.out, <<b.start, s>>) \in Seq(Int \X Int)
    BY <2>1
  <2>3. QED
    BY <2>2 DEF SM!AddWindow, SM!AfterSplit, WindowState
<1>5. F \in [(1 .. L) \X WindowState -> WindowState]
  <2>1. \A p \in (1 .. L) \X WindowState : SM!AddWindow(p[2], splits[p[1]]) \in WindowState
    BY <1>2, <1>4
  <2>2. QED
    BY <2>1
<1>6. PICK g \in [0 .. L -> WindowState] : Iterates(g, a, F, L)
  <2> HIDE DEF F, a
  <2> QED BY <1>2, <1>3, <1>5, IterationExists
<1>7. Is(g)
  <2>1. \A n \in 1 .. L : F[<<n, g[n - 1]>>] = SM!AddWindow(g[n - 1], splits[n])
    <3>1. \A n \in 1 .. L : g[n - 1] \in WindowState
      BY SMTT(30), <1>2
    <3>2. QED
      BY <3>1
  <2>2. g = [n \in 0 .. L |-> IF n = 0 THEN a ELSE F[<<n, g[n - 1]>>]]
    BY <1>6 DEF Iterates
  <2> HIDE DEF F, a
  <2>3. [n \in 0 .. L |-> IF n = 0 THEN a ELSE F[<<n, g[n - 1]>>]]
          = [n \in 0 .. L |-> IF n = 0 THEN a ELSE SM!AddWindow(g[n - 1], splits[n])]
    <3>1. \A n \in 0 .. L : n # 0 => n \in 1 .. L
      BY <1>2
    <3>2. QED
      BY <2>1, <3>1
  <2>4. QED
    BY <2>2, <2>3
<1>8. Is(acc)
  <2> HIDE DEF Is
  <2> QED BY <1>7
<1> HIDE DEF acc, a
<1>9. /\ acc[0] = a
      /\ \A n \in 1 .. L : acc[n] = SM!AddWindow(acc[n - 1], splits[n])
  <2>1. \A n \in 0 .. L : acc[n] = IF n = 0 THEN a ELSE SM!AddWindow(acc[n - 1], splits[n])
    BY <1>8, Zenon
  <2>2. 0 \in 0 .. L /\ \A n \in 1 .. L : n \in 0 .. L /\ n # 0
    BY <1>2
  <2>3. QED
    BY <2>1, <2>2
<1> DEFINE Good(b) == b \in WindowState /\ Tiles(b.out, lo, b.start) /\ EndsBefore(b.out, b.start)
           P == {n \in Nat : n <= L => Good(acc[n])}
<1>10. 0 \in P
  <2>1. a.out = <<>> /\ a.start = lo /\ Len(a.out) = 0 /\ a.out \in Seq(Int \X Int)
    BY EmptySeq DEF a
  <2>2. Tiles(a.out, lo, a.start) /\ EndsBefore(a.out, a.start)
    BY <2>1 DEF Tiles, EndsBefore
  <2>3. QED
    BY <1>3, <1>9, <2>2
<1>11. ASSUME NEW n \in P \cap Nat PROVE n + 1 \in P
  <2>1. SUFFICES ASSUME n + 1 <= L PROVE Good(acc[n + 1])
    OBVIOUS
  <2>2. n + 1 \in 1 .. L /\ (n + 1) - 1 = n /\ Good(acc[n])
    BY <1>2, <2>1
  <2>3. acc[n + 1] = SM!AddWindow(acc[n], splits[n + 1]) /\ splits[n + 1] \in Int
    BY <1>2, <1>9, <2>2
  <2>4. QED
    BY <2>2, <2>3, WindowAdded
<1>12. Nat \subseteq P
  <2> HIDE DEF P
  <2> QED BY <1>10, <1>11, SetInduction
<1>13. Good(acc[L])
  BY <1>2, <1>12
<1>14. acc[L].start \in Int
  BY <1>13 DEF WindowState
<1>15. Tiles(Append(acc[L].out, <<acc[L].start, hi>>), lo, hi + 1)
  BY <1>13, <1>14, TilesNext
<1>16. QED
  BY <1>1, <1>15

\* What is known of a block when a run is cut.
Entry == [min : Nat, max : Nat, size : Nat]

EntriesOn(entries) ==
  {p \in (1 .. Len(entries)) \X (1 .. Len(entries)) : SM!EntryBefore(entries, p[1], p[2])}

LEMMA EntriesOrdered ==
  ASSUME NEW entries \in Seq(Entry)
  PROVE  Ordered(EntriesOn(entries), 1 .. Len(entries)) /\ IsFiniteSet(1 .. Len(entries))
<1> DEFINE V == 1 .. Len(entries)
           R == EntriesOn(entries)
<1>1. Len(entries) \in Nat /\ \A i \in V : i \in Nat /\ entries[i].min \in Nat /\ entries[i].max \in Nat
  <2>1. Len(entries) \in Nat /\ \A i \in V : entries[i] \in Entry
    BY ElementOfSeq
  <2>2. QED
    BY <2>1 DEF Entry
<1>2. \A x, y \in V : <<x, y>> \in R <=>
        \/ entries[x].min < entries[y].min
        \/ entries[x].min = entries[y].min /\ entries[x].max < entries[y].max
        \/ entries[x].min = entries[y].min /\ entries[x].max = entries[y].max /\ x < y
  BY DEF EntriesOn, SM!EntryBefore
<1> HIDE DEF V, R
<1>3. \A x \in V : <<x, x>> \notin R
  <2>1. SUFFICES ASSUME NEW x \in V PROVE <<x, x>> \notin R
    BY Zenon
  <2>2. x \in Nat /\ entries[x].min \in Nat /\ entries[x].max \in Nat
    BY <1>1
  <2>3. QED
    BY <1>2, <2>2
<1>4. \A x, y, z \in V : <<x, y>> \in R /\ <<y, z>> \in R => <<x, z>> \in R
  <2>1. SUFFICES ASSUME NEW x \in V, NEW y \in V, NEW z \in V, <<x, y>> \in R, <<y, z>> \in R
                 PROVE  <<x, z>> \in R
    OBVIOUS
  <2> DEFINE less(a, b) == \/ entries[a].min < entries[b].min
                           \/ entries[a].min = entries[b].min /\ entries[a].max < entries[b].max
                           \/ entries[a].min = entries[b].min /\ entries[a].max = entries[b].max /\ a < b
  <2>2. /\ x \in Nat /\ entries[x].min \in Nat /\ entries[x].max \in Nat
        /\ y \in Nat /\ entries[y].min \in Nat /\ entries[y].max \in Nat
        /\ z \in Nat /\ entries[z].min \in Nat /\ entries[z].max \in Nat
    BY <1>1
  <2>3. less(x, y) /\ less(y, z)
    BY <1>2, <2>1, Zenon
  <2>4. less(x, z)
    BY <2>2, <2>3
  <2>5. QED
    BY <1>2, <2>4, Zenon
<1>5. ASSUME NEW x \in V, NEW y \in V
      PROVE  x = y \/ <<x, y>> \in R \/ <<y, x>> \in R
  <2>1. /\ x < y \/ y < x \/ x = y
        /\ entries[x].min < entries[y].min \/ entries[y].min < entries[x].min \/ entries[x].min = entries[y].min
        /\ entries[x].max < entries[y].max \/ entries[y].max < entries[x].max \/ entries[x].max = entries[y].max
    BY <1>1
  <2>2. /\ entries[x].min = entries[y].min => entries[y].min = entries[x].min
        /\ entries[x].max = entries[y].max => entries[y].max = entries[x].max
    OBVIOUS
  <2>3. QED
    BY <1>2, <2>1, <2>2, Zenon
<1>6. Ordered(R, V)
  BY <1>3, <1>4, <1>5 DEF Ordered
<1>7. IsFiniteSet(V)
  BY <1>1, FS_Interval DEF V
<1>8. QED
  BY <1>6, <1>7 DEF V, R

SplitState == [cum : Int, next : Int, splits : Seq(Int)]

LEMMA SplitAdded ==
  ASSUME NEW acc \in SplitState, NEW e \in Entry, NEW total, NEW max, NEW k
  PROVE  SM!AddSplit(acc, e, total, max, k) \in SplitState
<1> DEFINE due == acc.next < k /\ acc.cum + e.size >= (total * acc.next) \div k
           fresh == e.max < max /\ (acc.splits = <<>> \/ e.max > SM!Last(acc.splits))
           n == IF due THEN acc.next + 1 ELSE acc.next
           q == IF due /\ fresh THEN Append(acc.splits, e.max) ELSE acc.splits
<1>1. acc.cum \in Int /\ acc.next \in Int /\ acc.splits \in Seq(Int) /\ e.size \in Int /\ e.max \in Int
  BY DEF SplitState, Entry
<1>2. SM!AddSplit(acc, e, total, max, k) = [cum |-> acc.cum + e.size, next |-> n, splits |-> q]
  BY DEF SM!AddSplit
<1> HIDE DEF due, fresh
<1>3. n \in Int /\ q \in Seq(Int) /\ acc.cum + e.size \in Int
  BY <1>1
<1> HIDE DEF n, q
<1>4. QED
  BY <1>2, <1>3 DEF SplitState

LEMMA SplitsFacts ==
  ASSUME NEW entries \in Seq(Entry), NEW max, NEW k
  PROVE  SM!Splits(entries, max, k) \in Seq(Int)
<1> DEFINE V == DOMAIN entries
           order == [i \in 1 .. SM!Cardinality(V) |->
                       CHOOSE x \in V : SM!Cardinality({y \in V : SM!EntryBefore(entries, y, x)}) = i - 1]
           total == SM!Cardinality(UNION {{i} \X (1 .. entries[i].size) : i \in DOMAIN entries})
           L == Len(order)
           a == [cum |-> 0, next |-> 1, splits |-> <<>>]
           Is(g) == g = [n \in 0 .. L |-> IF n = 0 THEN a
                                          ELSE SM!AddSplit(g[n - 1], entries[order[n]], total, max, k)]
           acc == CHOOSE g : Is(g)
           F == [p \in (1 .. L) \X SplitState |-> SM!AddSplit(p[2], entries[order[p[1]]], total, max, k)]
<1>1. SM!Splits(entries, max, k) = acc[L].splits
  BY Zenon DEF SM!Splits, SM!Ascending
<1> HIDE DEF total
<1>2. V = 1 .. Len(entries) /\ Len(entries) \in Nat
  OBVIOUS
<1>3. /\ L \in Nat /\ \A i \in 1 .. L : order[i] \in V
  <2> DEFINE R == EntriesOn(entries)
             pick(i) == CHOOSE x \in V : Cardinality({y \in V : SM!EntryBefore(entries, y, x)}) = i - 1
  <2>1. \A S : SM!Cardinality(S) = Cardinality(S)
    BY SMCardinality
  <2>2. order = [i \in 1 .. Cardinality(V) |-> pick(i)]
    BY Zenon DEF SM!Cardinality, Cardinality, SM!IsFiniteSet, IsFiniteSet
  <2>3. Ordered(R, V) /\ IsFiniteSet(V)
    BY <1>2, EntriesOrdered
  <2>4. \A x \in V : {y \in V : SM!EntryBefore(entries, y, x)} = Below(R, V, x)
    BY <1>2 DEF Below, EntriesOn
  <2> HIDE DEF order, V, R
  <2>5. order = [i \in 1 .. Cardinality(V) |-> order[i]]
    <3> HIDE DEF pick
    <3> QED BY <2>2
  <2>6. ASSUME NEW i \in 1 .. Cardinality(V), \E x \in V : RankOf(R, V, x) = i - 1
        PROVE  order[i] \in V /\ RankOf(R, V, order[i]) = i - 1
    <3>1. order[i] = pick(i)
      BY <2>2
    <3>2. \E x \in V : Cardinality({y \in V : SM!EntryBefore(entries, y, x)}) = i - 1
      BY <2>4, <2>6 DEF RankOf
    <3>3. order[i] \in V /\ Cardinality({y \in V : SM!EntryBefore(entries, y, order[i])}) = i - 1
      BY <3>1, <3>2, Zenon
    <3>4. QED
      BY <2>4, <3>3 DEF RankOf
  <2>7. Ranks(order, R, V)
    BY <2>5, <2>6 DEF Ranks
  <2>8. Lists(order, R, V)
    BY <2>3, <2>7, ListsByRank
  <2>9. order \in Seq(V)
    BY <2>8 DEF Lists
  <2>10. QED
    BY <2>9, ElementOfSeq
<1>4. a \in SplitState
  <2>1. <<>> \in Seq(Int)
    BY EmptySeq
  <2>2. QED
    BY <2>1 DEF SplitState
<1> HIDE DEF order, a
<1>5. \A n \in 1 .. L : entries[order[n]] \in Entry
  BY <1>2, <1>3, ElementOfSeq
<1>6. F \in [(1 .. L) \X SplitState -> SplitState]
  <2>1. \A p \in (1 .. L) \X SplitState :
          SM!AddSplit(p[2], entries[order[p[1]]], total, max, k) \in SplitState
    BY <1>5, SplitAdded
  <2>2. QED
    BY <2>1
<1>7. PICK g \in [0 .. L -> SplitState] : Iterates(g, a, F, L)
  <2> HIDE DEF F
  <2> QED BY <1>3, <1>4, <1>6, IterationExists
<1>8. Is(g)
  <2>1. \A n \in 1 .. L : F[<<n, g[n - 1]>>] = SM!AddSplit(g[n - 1], entries[order[n]], total, max, k)
    <3>1. \A n \in 1 .. L : g[n - 1] \in SplitState
      BY SMTT(30), <1>3
    <3>2. QED
      BY <3>1
  <2>2. g = [n \in 0 .. L |-> IF n = 0 THEN a ELSE F[<<n, g[n - 1]>>]]
    BY Zenon, <1>7 DEF Iterates
  <2> HIDE DEF F
  <2>3. [n \in 0 .. L |-> IF n = 0 THEN a ELSE F[<<n, g[n - 1]>>]]
          = [n \in 0 .. L |-> IF n = 0 THEN a ELSE SM!AddSplit(g[n - 1], entries[order[n]], total, max, k)]
    <3>1. \A n \in 0 .. L : n # 0 => n \in 1 .. L
      BY <1>3
    <3>2. QED
      BY <2>1, <3>1
  <2>4. QED
    BY <2>2, <2>3
<1>9. Is(acc)
  <2> HIDE DEF Is
  <2> QED BY <1>8
<1> HIDE DEF acc
<1>10. /\ acc[0] = a
       /\ \A n \in 1 .. L : acc[n] = SM!AddSplit(acc[n - 1], entries[order[n]], total, max, k)
  <2>1. \A n \in 0 .. L : acc[n] = IF n = 0 THEN a
                                   ELSE SM!AddSplit(acc[n - 1], entries[order[n]], total, max, k)
    BY <1>9, Zenon
  <2>2. 0 \in 0 .. L /\ \A n \in 1 .. L : n \in 0 .. L /\ n # 0
    BY <1>3
  <2>3. QED
    BY <2>1, <2>2
<1> DEFINE P == {n \in Nat : n <= L => acc[n] \in SplitState}
<1>11. 0 \in P
  BY <1>4, <1>10
<1>12. ASSUME NEW n \in P \cap Nat PROVE n + 1 \in P
  <2>1. SUFFICES ASSUME n + 1 <= L PROVE acc[n + 1] \in SplitState
    OBVIOUS
  <2>2. n + 1 \in 1 .. L /\ (n + 1) - 1 = n /\ acc[n] \in SplitState
    BY <1>3, <2>1
  <2>3. acc[n + 1] = SM!AddSplit(acc[n], entries[order[n + 1]], total, max, k)
    BY <1>10, <2>2
  <2>4. QED
    BY <1>5, <2>2, <2>3, SplitAdded
<1>13. Nat \subseteq P
  <2> HIDE DEF P
  <2> QED BY <1>11, <1>12, SetInduction
<1>14. acc[L] \in SplitState
  BY <1>3, <1>13
<1>15. QED
  BY <1>1, <1>14 DEF SplitState

-----------------------------------------------------------------------------
(* The blocks of a run.                                                    *)

LEMMA FieldNames ==
  /\ SM!Cardinality(Fields) = Cardinality(Fields) /\ Cardinality(Fields) \in Nat
  /\ \A k \in 1 .. Cardinality(Fields) : SM!Ascending(Fields, <)[k] \in Fields
<1> DEFINE q == Ascending(Fields, <)
<1>1. Counts(q, Fields) /\ Len(q) = Cardinality(Fields)
  BY Zenon, FieldsFacts, AscendingCounts
<1>2. SM!Ascending(Fields, <) = q
  BY Zenon, SMAscending
<1>3. SM!Cardinality(Fields) = Cardinality(Fields) /\ Cardinality(Fields) \in Nat
  BY SMCardinality, FieldsFacts, FS_CardinalityType
<1> HIDE DEF q
<1>4. \A k \in 1 .. Cardinality(Fields) : q[k] \in Fields
  BY <1>1, <1>3, ElementOfSeq DEF Counts
<1>5. QED
  BY Zenon, <1>2, <1>3, <1>4

LEMMA EntriesFacts ==
  ASSUME NEW sr, IsKnown(sr), NEW run \in Seq(FileSources(sr))
  PROVE  SM!Entries(sr, run) \in Seq(Entry)
<1> DEFINE c == SM!Cardinality(Fields)
           name(k) == SM!Ascending(Fields, <)[k]
           blocks(i, k) == sr.files[run[i]][name(k)]
           entry(block) == [min |-> SM!MinTime(block), max |-> SM!MaxTime(block), size |-> Len(block)]
           ofKey(i, k) == [b \in 1 .. Len(blocks(i, k)) |-> entry(blocks(i, k)[b])]
           keys(i) == [k \in 1 .. c |-> ofKey(i, k)]
           perFile == [i \in 1 .. Len(run) |-> SM!FlattenSeq(keys(i))]
<1>1. SM!Entries(sr, run) = SM!FlattenSeq(perFile)
  BY Zenon DEF SM!Entries
<1>2. c \in Nat /\ \A k \in 1 .. c : name(k) \in Fields
  BY Zenon, FieldNames
<1>3. Len(run) \in Nat /\ \A i \in 1 .. Len(run) : run[i] \in 1 .. Len(sr.files)
  BY ElementOfSeq DEF FileSources
<1>4. \A fi \in 1 .. Len(sr.files) : sr.files[fi] \in [Fields -> Seq(Block)]
  BY ElementOfSeq DEF IsKnown, FileKeys
<1> HIDE DEF c, name
<1>5. \A i \in 1 .. Len(run), k \in 1 .. c : blocks(i, k) \in Seq(Block)
  <2>1. SUFFICES ASSUME NEW i \in 1 .. Len(run), NEW k \in 1 .. c PROVE blocks(i, k) \in Seq(Block)
    OBVIOUS
  <2>2. sr.files[run[i]] \in [Fields -> Seq(Block)] /\ name(k) \in Fields
    BY <1>2, <1>3, <1>4
  <2>3. QED
    BY <2>2
<1> HIDE DEF blocks
<1>6. \A block \in Block : entry(block) \in Entry
  <2>1. \A block \in Block : Len(block) \in Nat
    BY DEF Block
  <2>2. QED
    BY <2>1, BlockRange DEF Entry
<1> HIDE DEF entry
<1>7. \A i \in 1 .. Len(run), k \in 1 .. c : ofKey(i, k) \in Seq(Entry)
  <2>1. SUFFICES ASSUME NEW i \in 1 .. Len(run), NEW k \in 1 .. c PROVE ofKey(i, k) \in Seq(Entry)
    OBVIOUS
  <2> DEFINE n == Len(blocks(i, k))
  <2>2. n \in Nat /\ \A b \in 1 .. n : entry(blocks(i, k)[b]) \in Entry
    BY <1>5, <1>6, ElementOfSeq
  <2> HIDE DEF n
  <2>3. [b \in 1 .. n |-> entry(blocks(i, k)[b])] \in Seq(Entry)
    BY <2>2
  <2>4. QED
    BY <2>3 DEF n
<1> HIDE DEF ofKey
<1>8. \A i \in 1 .. Len(run) : keys(i) \in Seq(Seq(Entry))
  BY <1>2, <1>7
<1> HIDE DEF keys
<1>9. \A i \in 1 .. Len(run) : SM!FlattenSeq(keys(i)) \in Seq(Entry)
  BY <1>8, SMFlatten, FlattenType
<1>10. perFile \in Seq(Seq(Entry))
  BY <1>3, <1>9
<1> HIDE DEF perFile
<1>11. QED
  BY <1>1, <1>10, SMFlatten, FlattenType

-----------------------------------------------------------------------------
(* The times of a file.                                                    *)

LEMMA FileTimesAre ==
  ASSUME NEW sr, IsKnown(sr), NEW fi \in FileSources(sr)
  PROVE  LET T == SM!FileTimes(sr.files[fi]) IN
         /\ T \in SUBSET (0 .. LastTime)
         /\ \A f \in Fields : \A v \in Stored(sr, fi, f) : v.ts \in T
         /\ fi \in SM!FilesOf(sr) => T # {}
         /\ fi \notin SM!FilesOf(sr) => \A f \in Fields : Stored(sr, fi, f) = {}
<1> DEFINE file == sr.files[fi]
           T == SM!FileTimes(file)
<1>1. fi \in 1 .. Len(sr.files) /\ Len(sr.files) \in Nat /\ file \in [Fields -> Seq(Block)]
  BY ElementOfSeq DEF IsKnown, FileKeys, FileSources
<1>2. \A f \in Fields : Stored(sr, fi, f) = KeySet(fi, file[f])
  BY <1>1 DEF Stored
<1>3. fi \in SM!FilesOf(sr) <=> \E f \in Fields : file[f] # <<>>
  BY <1>1 DEF SM!FilesOf
<1> HIDE DEF file
<1>4. ASSUME NEW f \in Fields
      PROVE  LET flat == FlattenSeq(file[f]) IN
             /\ flat \in Seq(SM!Times) /\ SM!FlattenSeq(file[f]) = flat
             /\ \A b \in 1 .. Len(file[f]) : \A i \in 1 .. Len(file[f][b]) : file[f][b][i] \in ToSet(flat)
             /\ file[f] # <<>> => ToSet(flat) # {}
  <2> DEFINE p == file[f]
             flat == FlattenSeq(p)
  <2>1. p \in Seq(Block)
    BY <1>1
  <2>2. p \in Seq(Seq(SM!Times))
    BY <2>1, SeqMonotonic DEF Block
  <2> HIDE DEF p
  <2>3. HasPlaces(p, flat, Len(p)) /\ flat \in Seq(SM!Times)
    BY <2>2, FlattenPlaces
  <2> HIDE DEF flat
  <2>4. PICK B, I : PlacedIn(B, I, p, flat, Len(p))
    BY <2>3, Zenon DEF HasPlaces
  <2>5. \A b \in 1 .. Len(p) : \A i \in 1 .. Len(p[b]) : p[b][i] \in ToSet(flat)
    <3>1. SUFFICES ASSUME NEW b \in 1 .. Len(p), NEW i \in 1 .. Len(p[b]) PROVE p[b][i] \in ToSet(flat)
      OBVIOUS
    <3>2. PICK k \in 1 .. Len(flat) : B[k] = b /\ I[k] = i
      BY <2>4 DEF PlacedIn
    <3>3. flat[k] = p[B[k]][I[k]]
      BY <2>4, <3>2, Zenon DEF PlacedIn
    <3>4. flat[k] = p[b][i]
      BY <3>2, <3>3
    <3>5. flat[k] \in ToSet(flat)
      BY <2>3, <3>2 DEF ToSet
    <3>6. QED
      BY <3>4, <3>5
  <2>6. ASSUME p # <<>> PROVE ToSet(flat) # {}
    <3>1. 1 \in 1 .. Len(p) /\ p[1] \in Block
      BY <2>1, <2>6, ElementOfSeq
    <3>2. 1 \in 1 .. Len(p[1])
      BY <3>1 DEF Block
    <3>3. QED
      BY <2>5, <3>1, <3>2
  <2>7. SM!FlattenSeq(p) = flat
    BY SMFlatten DEF flat
  <2>8. QED
    BY <2>3, <2>5, <2>6, <2>7 DEF p, flat
<1>5. T = UNION {ToSet(FlattenSeq(file[f])) : f \in Fields}
  <2>1. T = UNION {SM!ToSet(SM!FlattenSeq(file[f])) : f \in Fields}
    BY DEF SM!FileTimes
  <2>2. \A f \in Fields : SM!ToSet(SM!FlattenSeq(file[f])) = ToSet(FlattenSeq(file[f]))
    BY SMFlatten, SMToSet
  <2>3. {SM!ToSet(SM!FlattenSeq(file[f])) : f \in Fields} = {ToSet(FlattenSeq(file[f])) : f \in Fields}
    BY <2>2, Zenon
  <2>4. QED
    BY <2>1, <2>3
<1> HIDE DEF T
<1>6. T \in SUBSET (0 .. LastTime)
  <2>1. \A f \in Fields : ToSet(FlattenSeq(file[f])) \in SUBSET SM!Times
    BY <1>4, ToSetFinite
  <2>2. QED
    BY <1>5, <2>1, TimesAre
<1>7. ASSUME NEW f \in Fields, NEW v \in Stored(sr, fi, f) PROVE v.ts \in T
  <2>1. v \in KeySet(fi, file[f])
    BY <1>2, <1>7
  <2>2. PICK b \in 1 .. Len(file[f]) : v \in BlockSet(fi, file[f][b], b)
    BY <2>1 DEF KeySet
  <2>3. PICK i \in 1 .. Len(file[f][b]) : v = ValueAt(fi, b, i, file[f][b][i])
    BY <2>2 DEF BlockSet
  <2>4. v.ts = file[f][b][i]
    BY <2>3 DEF ValueAt
  <2>5. v.ts \in ToSet(FlattenSeq(file[f]))
    BY <1>4, <2>4
  <2>6. QED
    BY <1>5, <2>5
<1>8. ASSUME fi \in SM!FilesOf(sr) PROVE T # {}
  <2>1. PICK f \in Fields : file[f] # <<>>
    BY <1>3, <1>8
  <2>2. ToSet(FlattenSeq(file[f])) # {}
    BY <1>4, <2>1
  <2>3. QED
    BY <1>5, <2>2
<1>9. ASSUME fi \notin SM!FilesOf(sr), NEW f \in Fields PROVE Stored(sr, fi, f) = {}
  <2>1. file[f] = <<>>
    BY <1>3, <1>9
  <2>2. KeySet(fi, <<>>) = {}
    BY DEF KeySet
  <2>3. QED
    BY <1>2, <2>1, <2>2
<1>10. QED
  BY <1>6, <1>7, <1>8, <1>9 DEF T, file

LEMMA FileRange ==
  ASSUME NEW sr, IsKnown(sr), NEW fi \in SM!FilesOf(sr)
  PROVE  /\ fi \in FileSources(sr) /\ SM!FileMin(sr, fi) \in Nat /\ SM!FileMax(sr, fi) \in Nat
         /\ SM!FileMax(sr, fi) \in 0 .. LastTime
         /\ SM!FileMin(sr, fi) <= SM!FileMax(sr, fi)
         /\ \A f \in Fields : \A v \in Stored(sr, fi, f) :
              SM!FileMin(sr, fi) <= v.ts /\ v.ts <= SM!FileMax(sr, fi)
<1> DEFINE T == SM!FileTimes(sr.files[fi])
           a == SM!Min(T)
           b == SM!Max(T)
<1>1. fi \in FileSources(sr)
  BY DEF SM!FilesOf, FileSources
<1>2. /\ T \in SUBSET (0 .. LastTime) /\ T # {}
      /\ \A f \in Fields : \A v \in Stored(sr, fi, f) : v.ts \in T
  BY <1>1, FileTimesAre
<1>3. SM!FileMin(sr, fi) = a /\ SM!FileMax(sr, fi) = b
  BY DEF SM!FileMin, SM!FileMax
<1> HIDE DEF T
<1>4. LastTime \in Nat
  BY TimesAre
<1>5. a \in T /\ \A x \in T : a <= x
  BY <1>2, <1>4, LeastOf
<1>6. b \in T /\ \A x \in T : b >= x
  BY <1>2, <1>4, GreatestOf
<1> HIDE DEF a, b
<1>7. T \in SUBSET Nat
  BY <1>2, <1>4
<1>8. a \in Nat /\ b \in Nat /\ b \in 0 .. LastTime /\ a <= b /\ \A x \in T : a <= x /\ x <= b
  BY <1>2, <1>5, <1>6, <1>7
<1>9. QED
  BY <1>1, <1>2, <1>3, <1>8

-----------------------------------------------------------------------------
(* The runs of a series.                                                   *)

\* The runs are of the files in R[1], R[2] and so on, each after the last.
Partition(runs, R, sr) ==
  /\ Len(runs) \in Nat /\ runs = [r \in 1 .. Len(runs) |-> runs[r]]
  /\ \A r \in 1 .. Len(runs) : R[r] \in SUBSET SM!FilesOf(sr) /\ Counts(runs[r], R[r])
  /\ \A x \in SM!FilesOf(sr) : \E r \in 1 .. Len(runs) : x \in R[r]
  /\ \A a, b \in 1 .. Len(runs) : a < b =>
       \A x \in R[a], y \in R[b] : SM!FileMax(sr, x) < SM!FileMin(sr, y)
  /\ sr.wal # <<>> => Len(runs) = 1

StartsOn(sr) ==
  {p \in SM!FilesOf(sr) \X SM!FilesOf(sr) : SM!StartsEarlier(sr, p[1], p[2])}

LEMMA FilesOrdered ==
  ASSUME NEW sr, IsKnown(sr)
  PROVE  /\ Ordered(StartsOn(sr), SM!FilesOf(sr)) /\ IsFiniteSet(SM!FilesOf(sr))
         /\ SM!FilesOf(sr) \in SUBSET Int
<1> DEFINE V == SM!FilesOf(sr)
           R == StartsOn(sr)
           m(x) == SM!FileMin(sr, x)
           less(x, y) == m(x) < m(y) \/ (m(x) = m(y) /\ x < y)
<1>1. \A x \in V : x \in Int /\ m(x) \in Int
  <2>1. \A x \in FileSources(sr) : x \in Int
    BY DEF FileSources
  <2>2. QED
    BY <2>1, FileRange
<1>2. \A x, y \in V : <<x, y>> \in R <=> less(x, y)
  BY DEF StartsOn, SM!StartsEarlier
<1>3. IsFiniteSet(V)
  <2> DEFINE I == 1 .. Len(sr.files)
  <2>1. Len(sr.files) \in Nat /\ V \in SUBSET I
    BY DEF IsKnown, SM!FilesOf
  <2>2. IsFiniteSet(I)
    BY <2>1, FS_Interval
  <2> HIDE DEF I, V
  <2>3. QED
    BY <2>1, <2>2, FS_Subset
<1> HIDE DEF V, R, m
<1>4. \A x \in V : ~less(x, x)
  BY <1>1
<1>5. \A x, y, z \in V : less(x, y) /\ less(y, z) => less(x, z)
  <2>1. SUFFICES ASSUME NEW x \in V, NEW y \in V, NEW z \in V, less(x, y), less(y, z) PROVE less(x, z)
    OBVIOUS
  <2>2. x \in Int /\ y \in Int /\ z \in Int /\ m(x) \in Int /\ m(y) \in Int /\ m(z) \in Int
    BY <1>1
  <2>3. QED
    BY <2>1, <2>2
<1>6. \A x, y \in V : x = y \/ less(x, y) \/ less(y, x)
  <2>1. SUFFICES ASSUME NEW x \in V, NEW y \in V PROVE x = y \/ less(x, y) \/ less(y, x)
    OBVIOUS
  <2>2. x \in Int /\ y \in Int /\ m(x) \in Int /\ m(y) \in Int
    BY <1>1
  <2>3. QED
    BY <2>2
<1> HIDE DEF less
<1>7. Ordered(R, V)
  BY <1>2, <1>4, <1>5, <1>6, Zenon DEF Ordered
<1>8. V \in SUBSET Int
  BY <1>1
<1>9. QED
  BY <1>3, <1>7, <1>8 DEF V, R

\* The files of a series by the time they start.
ByStart(sr) == SM!Ascending(SM!FilesOf(sr), LAMBDA a, b : SM!StartsEarlier(sr, a, b))

LEMMA ByStartFacts ==
  ASSUME NEW sr, IsKnown(sr)
  PROVE  /\ Lists(ByStart(sr), StartsOn(sr), SM!FilesOf(sr)) /\ Len(ByStart(sr)) \in Nat
         /\ \A i \in 1 .. Len(ByStart(sr)) : ByStart(sr)[i] \in SM!FilesOf(sr)
         /\ \A i, j \in 1 .. Len(ByStart(sr)) : i <= j =>
              SM!FileMin(sr, ByStart(sr)[i]) <= SM!FileMin(sr, ByStart(sr)[j])
<1> DEFINE V == SM!FilesOf(sr)
           R == StartsOn(sr)
           q == ByStart(sr)
           pick(i) == CHOOSE x \in V : Cardinality({y \in V : SM!StartsEarlier(sr, y, x)}) = i - 1
<1>1. Ordered(R, V) /\ IsFiniteSet(V)
  BY FilesOrdered
<1>2. q = [i \in 1 .. Cardinality(V) |-> pick(i)]
  BY Zenon DEF ByStart, SM!Ascending, SM!Cardinality, Cardinality, SM!IsFiniteSet, IsFiniteSet
<1>3. \A x \in V : {y \in V : SM!StartsEarlier(sr, y, x)} = Below(R, V, x)
  BY DEF Below, StartsOn
<1>4. \A x, y \in V : <<x, y>> \in R => SM!FileMin(sr, x) <= SM!FileMin(sr, y)
  <2>1. \A x \in V : SM!FileMin(sr, x) \in Int
    BY FileRange
  <2>2. \A x, y \in V : <<x, y>> \in R => SM!FileMin(sr, x) < SM!FileMin(sr, y) \/ SM!FileMin(sr, x) = SM!FileMin(sr, y)
    BY DEF StartsOn, SM!StartsEarlier
  <2>3. QED
    BY <2>1, <2>2
<1>5. \A x \in V : SM!FileMin(sr, x) <= SM!FileMin(sr, x)
  BY FileRange
<1> HIDE DEF V, R, q
<1>6. q = [i \in 1 .. Cardinality(V) |-> q[i]]
  <2> HIDE DEF pick
  <2> QED BY <1>2
<1>7. ASSUME NEW i \in 1 .. Cardinality(V), \E x \in V : RankOf(R, V, x) = i - 1
      PROVE  q[i] \in V /\ RankOf(R, V, q[i]) = i - 1
  <2>1. q[i] = pick(i)
    BY <1>2
  <2>2. \E x \in V : Cardinality({y \in V : SM!StartsEarlier(sr, y, x)}) = i - 1
    BY <1>3, <1>7 DEF RankOf
  <2>3. q[i] \in V /\ Cardinality({y \in V : SM!StartsEarlier(sr, y, q[i])}) = i - 1
    BY <2>1, <2>2, Zenon
  <2>4. QED
    BY <1>3, <2>3 DEF RankOf
<1>8. Lists(q, R, V)
  BY <1>1, <1>6, <1>7, ListsByRank DEF Ranks
<1>9. Len(q) \in Nat /\ \A i \in 1 .. Len(q) : q[i] \in V
  BY <1>8, ElementOfSeq DEF Lists
<1>10. ASSUME NEW i \in 1 .. Len(q), NEW j \in 1 .. Len(q), i <= j
       PROVE  SM!FileMin(sr, q[i]) <= SM!FileMin(sr, q[j])
  <2>1. CASE i = j
    BY <1>5, <1>9, <2>1
  <2>2. CASE i < j
    <3>1. <<q[i], q[j]>> \in R
      BY <1>8, <2>2 DEF Lists
    <3>2. QED
      BY <1>4, <1>9, <3>1
  <2>3. QED
    BY <1>10, <2>1, <2>2
<1>11. QED
  BY <1>8, <1>9, <1>10 DEF V, R, q

LEMMA RunsFacts ==
  ASSUME NEW sr, IsKnown(sr)
  PROVE  \E R : Partition(SM!Runs(sr), R, sr)
<1> DEFINE V == SM!FilesOf(sr)
           q == ByStart(sr)
           N == Len(q)
           ends(n) == {SM!FileMax(sr, q[m]) : m \in 1 .. n}
           starts == {n \in 1 .. N : n > 1 => SM!StartsRun(SM!FileMin(sr, q[n]), SM!Max(ends(n - 1)))}
           first == Ascending(starts, <)
           places(r) == {n \in first[r] .. N : \A m \in starts : m > first[r] => n < m}
           part(r) == {q[n] : n \in places(r)}
           runs == SM!Runs(sr)
<1>1. \A I : SM!Ascending(I, <) = Ascending(I, <)
  BY Zenon, SMAscending
<1>2. runs = IF sr.wal # <<>> \/ N < 2 THEN << Ascending(V, <) >>
             ELSE [r \in 1 .. Len(first) |-> Ascending(part(r), <)]
  <2> DEFINE all(g) == [r \in 1 .. Len(g) |->
                         SM!Ascending({q[n] : n \in {n \in g[r] .. N :
                           \A m \in starts : m > g[r] => n < m}}, <)]
             there(r) == SM!Ascending(part(r), <)
             here(r) == Ascending(part(r), <)
             one == Ascending(V, <)
  <2>1. runs = IF sr.wal # <<>> \/ N < 2 THEN << SM!Ascending(V, <) >> ELSE all(SM!Ascending(starts, <))
    BY Zenon DEF SM!Runs, ByStart
  <2>2. SM!Ascending(V, <) = one /\ SM!Ascending(starts, <) = first
    BY Zenon, <1>1
  <2>3. \A r : there(r) = here(r)
    BY Zenon, <1>1
  <2>4. all(first) = [r \in 1 .. Len(first) |-> there(r)]
    BY Zenon
  <2>5. [r \in 1 .. Len(first) |-> here(r)] = [r \in 1 .. Len(first) |-> Ascending(part(r), <)]
    BY Zenon
  <2> HIDE DEF there, here, all, one, first, starts
  <2>6. [r \in 1 .. Len(first) |-> there(r)] = [r \in 1 .. Len(first) |-> here(r)]
    BY <2>3
  <2>7. runs = IF sr.wal # <<>> \/ N < 2 THEN << one >> ELSE [r \in 1 .. Len(first) |-> Ascending(part(r), <)]
    BY <2>1, <2>2, <2>4, <2>5, <2>6, Zenon
  <2>8. QED
    BY Zenon, <2>7 DEF one
<1>3. IsFiniteSet(V) /\ V \in SUBSET Int
  BY FilesOrdered
<1>4. /\ Lists(q, StartsOn(sr), V) /\ N \in Nat
      /\ \A i \in 1 .. N : q[i] \in V
      /\ \A i, j \in 1 .. N : i <= j => SM!FileMin(sr, q[i]) <= SM!FileMin(sr, q[j])
  BY ByStartFacts
<1>5. \A x \in V : /\ SM!FileMin(sr, x) \in Nat /\ SM!FileMax(sr, x) \in 0 .. LastTime
  BY FileRange
<1>6. \A x \in V : \E i \in 1 .. N : q[i] = x
  BY <1>4 DEF Lists
<1> HIDE DEF V, q, N, runs
<1>7. CASE sr.wal # <<>> \/ N < 2
  <2>1. runs = << Ascending(V, <) >>
    BY Zenon, <1>2, <1>7
  <2>2. Counts(Ascending(V, <), V)
    BY Zenon, <1>3, AscendingCounts
  <2> DEFINE c == Ascending(V, <)
  <2> HIDE DEF c
  <2>3. Partition(<<c>>, <<V>>, sr)
    <3>1. Len(<<c>>) = 1 /\ Len(<<c>>) \in Nat /\ <<c>> = [r \in 1 .. Len(<<c>>) |-> <<c>>[r]]
      OBVIOUS
    <3>2. \A r \in 1 .. Len(<<c>>) : r = 1 /\ <<c>>[r] = c /\ <<V>>[r] = V
      OBVIOUS
    <3>3. \A r \in 1 .. Len(<<c>>) : <<V>>[r] \in SUBSET SM!FilesOf(sr) /\ Counts(<<c>>[r], <<V>>[r])
      <4>1. Counts(c, V)
        BY Zenon, <2>2 DEF c
      <4>2. QED
        BY <3>2, <4>1, Zenon DEF V
    <3>4. \A x \in SM!FilesOf(sr) : \E r \in 1 .. Len(<<c>>) : x \in <<V>>[r]
      <4>1. 1 \in 1 .. Len(<<c>>) /\ <<V>>[1] = V
        OBVIOUS
      <4>2. QED
        BY <4>1, Zenon DEF V
    <3>5. \A a, b \in 1 .. Len(<<c>>) : ~(a < b)
      BY <3>2
    <3>6. QED
      BY <3>1, <3>3, <3>4, <3>5, Zenon DEF Partition
  <2>4. QED
    BY Zenon, <2>1, <2>3 DEF runs, c
<1>8. CASE sr.wal = <<>> /\ N >= 2
  <2>1. starts \in SUBSET Int /\ starts \in SUBSET (1 .. N) /\ 1 \in starts /\ IsFiniteSet(starts)
    <3> DEFINE I == 1 .. N
    <3>1. starts \in SUBSET I
      OBVIOUS
    <3>2. IsFiniteSet(I) /\ I \in SUBSET Int
      BY <1>4, FS_Interval
    <3>3. 1 \in starts
      BY <1>4, <1>8
    <3> HIDE DEF starts
    <3>4. IsFiniteSet(starts)
      <4> HIDE DEF I
      <4> QED BY <3>1, <3>2, FS_Subset
    <3>5. QED
      BY <3>1, <3>2, <3>3, <3>4
  <2>2. \A n \in starts : n > 1 =>
          \A m \in 1 .. n - 1 : SM!FileMax(sr, q[m]) < SM!FileMin(sr, q[n])
    <3>1. SUFFICES ASSUME NEW n \in starts, n > 1, NEW m \in 1 .. n - 1
                   PROVE  SM!FileMax(sr, q[m]) < SM!FileMin(sr, q[n])
      OBVIOUS
    <3>2. SM!FileMin(sr, q[n]) > SM!Max(ends(n - 1))
      BY <3>1 DEF SM!StartsRun
    <3>3. n \in 1 .. N /\ m \in 1 .. N /\ \A k \in 1 .. n - 1 : k \in 1 .. N
      BY <1>4, <2>1
    <3>4. SM!FileMax(sr, q[m]) \in ends(n - 1)
      OBVIOUS
    <3>5. ends(n - 1) \in SUBSET (0 .. LastTime)
      BY <1>4, <1>5, <3>3
    <3> DEFINE E == ends(n - 1)
    <3> HIDE DEF E, starts
    <3>6. LastTime \in Nat
      BY TimesAre
    <3>7. SM!Max(E) \in E /\ \A x \in E : SM!Max(E) >= x
      BY <3>4, <3>5, <3>6, GreatestOf DEF E
    <3>8. SM!Max(E) \in Nat /\ SM!FileMax(sr, q[m]) \in Nat /\ SM!FileMin(sr, q[n]) \in Nat
      BY <1>4, <1>5, <3>3, <3>5, <3>6, <3>7 DEF E
    <3>9. SM!FileMin(sr, q[n]) > SM!Max(E) /\ SM!Max(E) >= SM!FileMax(sr, q[m])
      BY <3>2, <3>4, <3>7 DEF E
    <3>10. QED
      BY <3>8, <3>9
  <2> HIDE DEF starts
  <2>3. Counts(first, starts)
    BY Zenon, <2>1, AscendingCounts
  <2> HIDE DEF first
  <2> DEFINE L == Len(first)
  <2>4. /\ L \in Nat /\ \A r \in 1 .. L : first[r] \in starts /\ first[r] \in 1 .. N
        /\ \A i, j \in 1 .. L : i < j => first[i] < first[j]
        /\ \A x \in starts : \E i \in 1 .. L : first[i] = x
    <3>1. L \in Nat /\ \A r \in 1 .. L : first[r] \in starts
      BY <2>3, ElementOfSeq DEF Counts
    <3>2. QED
      BY <2>1, <2>3, <3>1 DEF Counts
  <2> DEFINE R == [r \in 1 .. L |-> part(r)]
  <2>5. \A r \in 1 .. L : places(r) \in SUBSET (1 .. N)
    BY <1>4, <2>4
  <2>6. \A r \in 1 .. L : part(r) \in SUBSET V
    BY <1>4, <2>5
  <2>7. \A n \in 1 .. N : \E r \in 1 .. L : n \in places(r)
    <3>1. SUFFICES ASSUME NEW n \in 1 .. N PROVE \E r \in 1 .. L : n \in places(r)
      OBVIOUS
    <3> DEFINE S == {m \in starts : m <= n}
               g == SM!Max(S)
    <3>2. S \in SUBSET (0 .. N) /\ S # {} /\ N \in Nat
      <4>1. \A m \in starts : m \in 0 .. N
        BY <1>4, <2>1
      <4>2. 1 \in S
        BY <1>4, <2>1
      <4>3. QED
        BY <1>4, <4>1, <4>2
    <3>3. g \in S /\ \A x \in S : g >= x
      <4> HIDE DEF S
      <4> QED BY <3>2, GreatestOf
    <3> HIDE DEF g
    <3>4. PICK r \in 1 .. L : first[r] = g
      BY <2>4, <3>3
    <3>5. g \in 1 .. N /\ g <= n /\ \A m \in starts : m > g => n < m
      BY <1>4, <2>1, <3>3
    <3>6. n \in places(r)
      BY <1>4, <3>4, <3>5
    <3>7. QED
      BY <3>6
  <2>8. ASSUME NEW a \in 1 .. L, NEW b \in 1 .. L, a < b, NEW n \in places(a), NEW m \in places(b)
        PROVE  SM!FileMax(sr, q[n]) < SM!FileMin(sr, q[m])
    <3> DEFINE f == first[b]
    <3>1. n \in 1 .. N /\ m \in 1 .. N /\ f \in 1 .. N /\ f \in starts /\ first[a] \in 1 .. N /\ first[a] < f
      BY <2>4, <2>5, <2>8
    <3>2. n < f /\ f <= m
      BY <1>4, <3>1
    <3> HIDE DEF f, L
    <3>3. f > 1 /\ n \in 1 .. f - 1
      BY <1>4, <3>1, <3>2
    <3>4. SM!FileMax(sr, q[n]) < SM!FileMin(sr, q[f])
      BY <2>2, <3>1, <3>3
    <3>5. SM!FileMin(sr, q[f]) <= SM!FileMin(sr, q[m])
      BY <1>4, <3>1, <3>2
    <3>6. SM!FileMax(sr, q[n]) \in Int /\ SM!FileMin(sr, q[f]) \in Int /\ SM!FileMin(sr, q[m]) \in Int
      BY <1>4, <1>5, <3>1
    <3>7. QED
      BY <3>4, <3>5, <3>6
  <2> HIDE DEF places
  <2>9. /\ \A x \in V : \E r \in 1 .. L : x \in part(r)
        /\ \A a, b \in 1 .. L : a < b => \A x \in part(a), y \in part(b) : SM!FileMax(sr, x) < SM!FileMin(sr, y)
    <3>1. ASSUME NEW x \in V PROVE \E r \in 1 .. L : x \in part(r)
      <4>1. PICK n \in 1 .. N : q[n] = x
        BY <1>6
      <4>2. PICK r \in 1 .. L : n \in places(r)
        BY <2>7
      <4>3. QED
        BY <4>1, <4>2
    <3>2. ASSUME NEW a \in 1 .. L, NEW b \in 1 .. L, a < b, NEW x \in part(a), NEW y \in part(b)
          PROVE  SM!FileMax(sr, x) < SM!FileMin(sr, y)
      <4>1. PICK n \in places(a) : x = q[n]
        OBVIOUS
      <4>2. PICK m \in places(b) : y = q[m]
        OBVIOUS
      <4>3. QED
        BY <2>8, <3>2, <4>1, <4>2
    <3>3. QED
      BY <3>1, <3>2
  <2> HIDE DEF part
  <2> DEFINE list(r) == Ascending(part(r), <)
             p == [r \in 1 .. L |-> list(r)]
  <2>10. \A r \in 1 .. L : Counts(list(r), part(r))
    <3>1. SUFFICES ASSUME NEW r \in 1 .. L PROVE Counts(list(r), part(r))
      BY Zenon
    <3>2. part(r) \in SUBSET Int /\ IsFiniteSet(part(r))
      <4>1. part(r) \in SUBSET V
        BY <2>6
      <4>2. QED
        BY <1>3, <4>1, FS_Subset
    <3>3. QED
      BY Zenon, <3>2, AscendingCounts
  <2>11. runs = p
    <3>1. sr.wal = <<>> /\ ~(N < 2)
      BY <1>4, <1>8
    <3>2. runs = [r \in 1 .. Len(first) |-> Ascending(part(r), <)]
      BY <1>2, <3>1, Zenon
    <3>3. QED
      BY <3>2, Zenon
  <2> HIDE DEF list, L
  <2>12. Len(p) = L /\ L \in Nat /\ \A r \in 1 .. L : p[r] = list(r) /\ R[r] = part(r)
    BY <2>4 DEF L
  <2>13. p = [r \in 1 .. Len(p) |-> p[r]]
    BY <2>12
  <2> HIDE DEF p, R
  <2>14. Partition(p, R, sr)
    <3>1. \A r \in 1 .. L : R[r] \in SUBSET SM!FilesOf(sr) /\ Counts(p[r], R[r])
      BY <2>6, <2>10, <2>12 DEF V
    <3>2. \A x \in SM!FilesOf(sr) : \E r \in 1 .. L : x \in R[r]
      BY <2>9, <2>12 DEF V
    <3>3. \A a, b \in 1 .. L : a < b => \A x \in R[a], y \in R[b] : SM!FileMax(sr, x) < SM!FileMin(sr, y)
      <4>1. SUFFICES ASSUME NEW a \in 1 .. L, NEW b \in 1 .. L, a < b
                     PROVE  \A x \in R[a], y \in R[b] : SM!FileMax(sr, x) < SM!FileMin(sr, y)
        OBVIOUS
      <4>2. R[a] = part(a) /\ R[b] = part(b)
        BY <2>12
      <4>3. QED
        BY <2>9, <4>1, <4>2
    <3>4. QED
      BY <1>8, <2>12, <2>13, <3>1, <3>2, <3>3 DEF Partition
  <2>15. QED
    BY <2>11, <2>14 DEF runs
<1>9. QED
  BY <1>4, <1>7, <1>8

-----------------------------------------------------------------------------
(* The units of a run cut into windows.                                    *)

LEMMA MaxOfTwo ==
  ASSUME NEW a \in Int, NEW b \in Int
  PROVE  SM!Max({a, b}) \in Int /\ \A t \in Int : SM!Max({a, b}) <= t <=> a <= t /\ b <= t
<1> DEFINE m == SM!Max({a, b})
<1>1. m = CHOOSE x \in {a, b} : \A y \in {a, b} : x >= y
  BY DEF SM!Max
<1>2. \E x \in {a, b} : \A y \in {a, b} : x >= y
  BY a >= b \/ b >= a
<1> HIDE DEF m
<1>3. m \in {a, b} /\ \A y \in {a, b} : m >= y
  BY <1>1, <1>2, Zenon
<1>4. QED
  BY <1>3 DEF m

LEMMA MinOfTwo ==
  ASSUME NEW a \in Int, NEW b \in Int
  PROVE  SM!Min({a, b}) \in Int /\ \A t \in Int : t <= SM!Min({a, b}) <=> t <= a /\ t <= b
<1> DEFINE m == SM!Min({a, b})
<1>1. m = CHOOSE x \in {a, b} : \A y \in {a, b} : x <= y
  BY DEF SM!Min
<1>2. \E x \in {a, b} : \A y \in {a, b} : x <= y
  BY a <= b \/ b <= a
<1> HIDE DEF m
<1>3. m \in {a, b} /\ \A y \in {a, b} : m <= y
  BY <1>1, <1>2, Zenon
<1>4. QED
  BY <1>3 DEF m

(* Every value of a run and of the log is in one of its windows.           *)
LEMMA WindowsFacts ==
  ASSUME NEW sr, IsKnown(sr), NEW R \in SUBSET FileSources(sr), NEW run, Counts(run, R)
  PROVE  LET out == SM!WindowsOf(sr, run) IN
         /\ out \in Seq(Int \X Int) /\ \A i, j \in 1 .. Len(out) : i < j => out[i][2] < out[j][1]
         /\ \A src \in R \cup LogSources(sr), f \in Fields : \A v \in Stored(sr, src, f) :
              \E i \in 1 .. Len(out) : v.ts \in out[i][1] .. out[i][2]
<1> DEFINE out == SM!WindowsOf(sr, run)
           ofFiles == UNION {SM!FileTimes(sr.files[run[i]]) : i \in 1 .. Len(run)}
           ofLog == UNION {SM!ToSet(sr.wal[i].times) : i \in 1 .. Len(sr.wal)}
           T == ofFiles \cup ofLog
           lo == SM!Min(T)
           hi == SM!Max(T)
<1>1. PICK parts : out = IF T = {} THEN <<>> ELSE SM!SplitWindows(SM!Entries(sr, run), lo, hi, parts)
  BY Zenon DEF SM!WindowsOf
<1>2. Len(run) \in Nat /\ run \in Seq(R) /\ \A i \in 1 .. Len(run) : run[i] \in R /\ run[i] \in FileSources(sr)
  BY ElementOfSeq DEF Counts
<1>3. run \in Seq(FileSources(sr))
  BY <1>2, SeqMonotonic
<1>4. Len(sr.files) \in Nat /\ Len(sr.wal) \in Nat
      /\ \A i \in 1 .. Len(sr.wal) : sr.wal[i].field \in Fields /\ sr.wal[i].times \in Seq(SM!Times)
  <2>1. \A i \in 1 .. Len(sr.wal) : sr.wal[i] \in LogWrites
    BY ElementOfSeq DEF IsKnown
  <2>2. QED
    BY <2>1 DEF IsKnown, LogWrites
<1>5. T \in SUBSET (0 .. LastTime)
  <2>1. \A i \in 1 .. Len(run) : SM!FileTimes(sr.files[run[i]]) \in SUBSET (0 .. LastTime)
    BY <1>2, FileTimesAre
  <2>2. \A i \in 1 .. Len(sr.wal) : SM!ToSet(sr.wal[i].times) \in SUBSET (0 .. LastTime)
    BY <1>4, SMToSet, ToSetFinite, TimesAre
  <2>3. QED
    BY <2>1, <2>2
<1>6. ASSUME NEW src \in R \cup LogSources(sr), NEW f \in Fields, NEW v \in Stored(sr, src, f)
      PROVE  v.ts \in T
  <2>1. CASE src \in R
    <3>1. PICK i \in 1 .. Len(run) : run[i] = src
      BY <2>1 DEF Counts
    <3>2. v.ts \in SM!FileTimes(sr.files[src])
      BY <1>6, <2>1, FileTimesAre
    <3>3. v.ts \in ofFiles
      BY <3>1, <3>2
    <3>4. QED
      BY <3>3
  <2>2. CASE src \in LogSources(sr)
    <3> DEFINE n == Len(sr.files)
               m == Len(sr.wal)
               i == src - n
    <3>1. i \in 1 .. Len(sr.wal) /\ ~(src <= Len(sr.files))
      <4>1. n \in Nat /\ m \in Nat /\ src \in n + 1 .. n + m
        BY <1>4, <2>2 DEF LogSources
      <4> HIDE DEF n, m
      <4>2. i \in 1 .. m /\ ~(src <= n)
        BY <4>1
      <4>3. QED
        BY <4>2 DEF n, m
    <3>2. v \in BlockSet(src, sr.wal[i].times, 0)
      BY <1>6, <3>1 DEF Stored
    <3>3. PICK k \in 1 .. Len(sr.wal[i].times) : v = ValueAt(src, 0, k, sr.wal[i].times[k])
      BY <3>2 DEF BlockSet
    <3> HIDE DEF i
    <3>4. v.ts = sr.wal[i].times[k]
      BY <3>3 DEF ValueAt
    <3>5. v.ts \in ToSet(sr.wal[i].times)
      BY <1>4, <3>1, <3>4, ToSetFinite
    <3>6. SM!ToSet(sr.wal[i].times) = ToSet(sr.wal[i].times)
      BY SMToSet
    <3>7. v.ts \in ofLog
      BY <3>1, <3>5, <3>6
    <3>8. QED
      BY <3>7
  <2>3. QED
    BY <2>1, <2>2
<1> HIDE DEF T
<1>7. CASE T = {}
  <2>1. out = <<>>
    BY <1>1, <1>7
  <2>2. QED
    BY <1>6, <1>7, <2>1
<1>8. CASE T # {}
  <2>1. lo \in T /\ (\A x \in T : lo <= x) /\ hi \in T /\ \A x \in T : hi >= x
    BY <1>5, <1>8, TimesAre, LeastOf, GreatestOf
  <2> HIDE DEF lo, hi
  <2>2. lo \in Int /\ hi \in Int /\ \A x \in T : x \in Int /\ lo <= x /\ x < hi + 1
    BY <1>5, <2>1, TimesAre
  <2>3. SM!Splits(SM!Entries(sr, run), hi, parts) \in Seq(Int)
    BY <1>3, EntriesFacts, SplitsFacts
  <2>4. Tiles(SM!SplitWindows(SM!Entries(sr, run), lo, hi, parts), lo, hi + 1)
    BY <2>2, <2>3, SplitWindowsFacts
  <2>5. Tiles(out, lo, hi + 1)
    BY <1>1, <1>8, <2>4
  <2> HIDE DEF out
  <2>6. QED
    BY <1>6, <2>2, <2>5 DEF Tiles, out
<1>9. QED
  BY <1>7, <1>8

LEMMA UnitMember ==
  ASSUME NEW s \in Nat, IsKnown(SM!Series(s)), NEW R \in SUBSET FileSources(SM!Series(s)),
         NEW run, Counts(run, R), NEW w, w[1] \in Int, w[2] \in Int, NEW whole \in BOOLEAN
  PROVE  SM!Unit(s, run, w, whole) \in MergeUnits
<1> DEFINE u == SM!Unit(s, run, w, whole)
<1>1. IsUnit(u)
  BY UnitHolds
<1>2. u = [series |-> u.series, streams |-> u.streams]
  BY DEF SM!Unit
<1> HIDE DEF u
<1>3. u.series \in Nat /\ u.streams \in Seq(StreamRecords)
  BY <1>1 DEF IsUnit
<1>4. [series |-> u.series, streams |-> u.streams] \in [series : Nat, streams : Seq(StreamRecords)]
  BY <1>3
<1>5. QED
  BY <1>1, <1>2, <1>4 DEF MergeUnits, u

\* The range of times asked for of a series.
AskedOf(s) == <<SM!SeriesStart(s), query.end>>

LEMMA RunTasksFacts ==
  ASSUME NEW s \in Nat, IsKnown(SM!Series(s)), NEW R \in SUBSET FileSources(SM!Series(s)),
         NEW run, Counts(run, R), SM!SeriesStart(s) \in Int, query.end \in Int
  PROVE  Cut(SM!RunTasks(s, run), s,
             HeldBy(SM!Series(s), R \cup LogSources(SM!Series(s)), AskedOf(s)))
<1> DEFINE sr == SM!Series(s)
           Q == R \cup LogSources(sr)
           a == SM!SeriesStart(s)
           b == query.end
           cut == SM!WindowsOf(sr, run)
           from(i) == SM!Max({cut[i][1], a})
           to(i) == SM!Min({cut[i][2], b})
           clipped == [i \in 1 .. Len(cut) |-> <<from(i), to(i)>>]
           I == {i \in 1 .. Len(clipped) : clipped[i][1] <= clipped[i][2]}
           kept == Picked(clipped, I)
           task(i) == SM!Unit(s, run, kept[i], FALSE)
           tasks == [i \in 1 .. Len(kept) |-> task(i)]
           J == {i \in 1 .. Len(tasks) : tasks[i].streams # <<>>}
           A == HeldBy(sr, Q, AskedOf(s))
<1>1. SM!RunTasks(s, run) = Picked(tasks, J)
  <2>1. \A p, q : SM!Picked(p, q) = Picked(p, q)
    BY SMPicked
  <2> DEFINE all(k) == [i \in 1 .. Len(k) |-> SM!Unit(s, run, k[i], FALSE)]
             last(ts) == SM!Picked(ts, {i \in 1 .. Len(ts) : ts[i].streams # <<>>})
  <2>2. SM!RunTasks(s, run) = last(all(SM!Picked(clipped, I)))
    BY Zenon DEF SM!RunTasks
  <2>3. SM!Picked(clipped, I) = kept
    BY Zenon, <2>1
  <2>4. last(tasks) = Picked(tasks, J)
    BY Zenon, <2>1
  <2>5. all(kept) = tasks
    BY Zenon
  <2> HIDE DEF last, all, kept, tasks, J, clipped, I
  <2>6. QED
    BY <2>2, <2>3, <2>4, <2>5
<1>2. /\ cut \in Seq(Int \X Int) /\ \A i, j \in 1 .. Len(cut) : i < j => cut[i][2] < cut[j][1]
      /\ \A src \in Q, f \in Fields : \A v \in Stored(sr, src, f) :
           \E i \in 1 .. Len(cut) : v.ts \in cut[i][1] .. cut[i][2]
  BY WindowsFacts
<1> HIDE DEF cut, sr
<1>3. Len(cut) \in Nat /\ \A i \in 1 .. Len(cut) : cut[i][1] \in Int /\ cut[i][2] \in Int
  <2>1. \A i \in 1 .. Len(cut) : cut[i] \in Int \X Int
    BY <1>2, ElementOfSeq
  <2>2. QED
    BY <1>2, <2>1
<1>4. \A i \in 1 .. Len(cut) : /\ from(i) \in Int /\ to(i) \in Int
         /\ \A t \in Int : t \in from(i) .. to(i) <=> t \in cut[i][1] .. cut[i][2] /\ t \in a .. b
  <2>1. SUFFICES ASSUME NEW i \in 1 .. Len(cut)
                 PROVE  /\ from(i) \in Int /\ to(i) \in Int
                        /\ \A t \in Int : t \in from(i) .. to(i) <=> t \in cut[i][1] .. cut[i][2] /\ t \in a .. b
    OBVIOUS
  <2>2. cut[i][1] \in Int /\ cut[i][2] \in Int /\ a \in Int /\ b \in Int
    BY <1>3
  <2>3. from(i) \in Int /\ \A t \in Int : from(i) <= t <=> cut[i][1] <= t /\ a <= t
    BY <2>2, MaxOfTwo
  <2>4. to(i) \in Int /\ \A t \in Int : t <= to(i) <=> t <= cut[i][2] /\ t <= b
    BY <2>2, MinOfTwo
  <2> HIDE DEF from, to, a, b
  <2>5. QED
    BY <2>2, <2>3, <2>4
<1> HIDE DEF from, to
<1>5. /\ clipped \in Seq(Int \X Int) /\ Len(clipped) = Len(cut)
      /\ \A i \in 1 .. Len(cut) : clipped[i][1] = from(i) /\ clipped[i][2] = to(i)
  BY <1>3, <1>4
<1> HIDE DEF clipped
<1>6. I \in SUBSET (1 .. Len(clipped)) /\ I \in SUBSET (1 .. Len(cut))
  BY <1>5
<1>7. /\ kept \in Seq(Int \X Int) /\ Len(kept) \in Nat
      /\ \E at : PickedAt(at, clipped, I, kept)
  <2> HIDE DEF I
  <2> QED BY <1>5, <1>6, PickedFacts
<1>8. PICK at : PickedAt(at, clipped, I, kept)
  BY <1>7
<1>9. \A i \in I : from(i) <= to(i)
  BY <1>5
<1>10. \A i \in 1 .. Len(cut) : i \in I <=> from(i) <= to(i)
  BY <1>5
<1> HIDE DEF kept, I
<1>11. \A k \in 1 .. Len(kept) :
         /\ at[k] \in 1 .. Len(cut) /\ kept[k][1] = from(at[k]) /\ kept[k][2] = to(at[k])
         /\ kept[k][1] \in Int /\ kept[k][2] \in Int
  <2>1. \A k \in 1 .. Len(kept) : at[k] \in I /\ kept[k] = clipped[at[k]]
    BY <1>8 DEF PickedAt
  <2>2. \A k \in 1 .. Len(kept) : at[k] \in 1 .. Len(cut)
    BY <1>6, <2>1
  <2>3. \A k \in 1 .. Len(kept) : kept[k][1] = from(at[k]) /\ kept[k][2] = to(at[k])
    BY <1>5, <2>1, <2>2
  <2>4. QED
    BY <1>4, <2>2, <2>3
<1>12. \A k \in 1 .. Len(kept) : /\ task(k) \in MergeUnits /\ task(k).series = s
                                 /\ Held(task(k)) = HeldBy(sr, Q, kept[k])
  <2>1. SUFFICES ASSUME NEW k \in 1 .. Len(kept)
                 PROVE  /\ task(k) \in MergeUnits /\ task(k).series = s
                        /\ Held(task(k)) = HeldBy(sr, Q, kept[k])
    OBVIOUS
  <2> DEFINE w == kept[k]
  <2>2. w[1] \in Int /\ w[2] \in Int
    BY <1>11
  <2> HIDE DEF w
  <2>3. SM!Unit(s, run, w, FALSE) \in MergeUnits
    BY <2>2, UnitMember
  <2>4. SM!Unit(s, run, w, FALSE).series = s /\ Held(SM!Unit(s, run, w, FALSE)) = HeldBy(sr, Q, w)
    <3>1. \A whole \in BOOLEAN :
             LET u == SM!Unit(s, run, w, whole) IN
             u.series = s /\ Held(u) = HeldBy(SM!Series(s), R \cup LogSources(SM!Series(s)), w)
      <4>1. SUFFICES ASSUME NEW whole \in BOOLEAN
                     PROVE  LET u == SM!Unit(s, run, w, whole) IN
                            u.series = s /\ Held(u) = HeldBy(SM!Series(s), R \cup LogSources(SM!Series(s)), w)
        OBVIOUS
      <4>2. QED
        BY <2>2, UnitHolds
    <3>2. FALSE \in BOOLEAN
      OBVIOUS
    <3>3. QED
      BY <3>1, <3>2, Zenon DEF sr
  <2>5. QED
    BY <2>3, <2>4 DEF w
<1> HIDE DEF task
<1>13. /\ Len(tasks) = Len(kept) /\ tasks \in Seq(MergeUnits)
       /\ \A k \in 1 .. Len(kept) : tasks[k] = task(k)
  BY <1>7, <1>12
<1> HIDE DEF tasks, Q
<1>14. ASSUME NEW i \in 1 .. Len(kept), NEW j \in 1 .. Len(kept), i < j
       PROVE  AllBefore(Held(task(i)), Held(task(j)))
  <2>1. SUFFICES ASSUME NEW x \in Held(task(i)), NEW y \in Held(task(j)) PROVE x.ts < y.ts
    BY DEF AllBefore
  <2>2. x.ts \in kept[i][1] .. kept[i][2] /\ y.ts \in kept[j][1] .. kept[j][2]
    <3>1. x \in HeldBy(sr, Q, kept[i]) /\ y \in HeldBy(sr, Q, kept[j])
      BY <1>12
    <3>2. QED
      BY <3>1 DEF HeldBy, Full
  <2>3. at[i] \in 1 .. Len(cut) /\ at[j] \in 1 .. Len(cut) /\ at[i] < at[j]
    BY <1>8, <1>11, <1>14 DEF PickedAt
  <2>4. x.ts \in from(at[i]) .. to(at[i]) /\ y.ts \in from(at[j]) .. to(at[j])
    BY <1>11, <2>2
  <2>5. x.ts \in cut[at[i]][1] .. cut[at[i]][2] /\ y.ts \in cut[at[j]][1] .. cut[at[j]][2]
    <3>1. x.ts \in Int /\ y.ts \in Int
      BY <1>4, <2>3, <2>4
    <3>2. QED
      BY <1>4, <2>3, <2>4, <3>1
  <2>6. cut[at[i]][2] < cut[at[j]][1]
    BY <1>2, <2>3
  <2>7. cut[at[i]][1] \in Int /\ cut[at[i]][2] \in Int /\ cut[at[j]][1] \in Int /\ cut[at[j]][2] \in Int
    BY <1>3, <2>3
  <2>8. QED
    BY SMTT(30), <2>5, <2>6, <2>7
<1>15. A = UNION {Held(task(k)) : k \in 1 .. Len(kept)}
  <2>1. ASSUME NEW x \in A PROVE \E k \in 1 .. Len(kept) : x \in Held(task(k))
    <3>1. PICK src \in Q, f \in Fields :
            \E v \in Stored(sr, src, f) : v.ts \in a .. b /\ x = Full(f, v)
      BY <2>1 DEF HeldBy, AskedOf
    <3>2. PICK v \in Stored(sr, src, f) : v.ts \in a .. b /\ x = Full(f, v)
      BY <3>1
    <3>3. PICK i \in 1 .. Len(cut) : v.ts \in cut[i][1] .. cut[i][2]
      BY <1>2
    <3>4. v.ts \in from(i) .. to(i) /\ from(i) <= to(i)
      <4>1. v.ts \in Int
        BY <3>2
      <4>2. v.ts \in from(i) .. to(i)
        BY <1>4, <3>2, <3>3, <4>1
      <4>3. from(i) \in Int /\ to(i) \in Int
        BY <1>4
      <4>4. QED
        BY <4>1, <4>2, <4>3
    <3>5. i \in I
      BY <1>10, <3>4
    <3>6. PICK k \in 1 .. Len(kept) : at[k] = i
      BY <1>8, <3>5 DEF PickedAt
    <3>7. v.ts \in kept[k][1] .. kept[k][2]
      BY <1>11, <3>4, <3>6
    <3>8. x \in FullValue
      BY <2>1 DEF HeldBy
    <3>9. x \in HeldBy(sr, Q, kept[k])
      BY <3>2, <3>7, <3>8 DEF HeldBy
    <3>10. QED
      BY <1>12, <3>9
  <2>2. ASSUME NEW k \in 1 .. Len(kept), NEW x \in Held(task(k)) PROVE x \in A
    <3>1. x \in HeldBy(sr, Q, kept[k])
      BY <1>12, <2>2
    <3>2. x \in FullValue
      BY <3>1 DEF HeldBy
    <3>3. PICK src \in Q, f \in Fields :
            \E v \in Stored(sr, src, f) : v.ts \in kept[k][1] .. kept[k][2] /\ x = Full(f, v)
      BY <3>1 DEF HeldBy
    <3>4. PICK v \in Stored(sr, src, f) : v.ts \in kept[k][1] .. kept[k][2] /\ x = Full(f, v)
      BY <3>3
    <3>5. v.ts \in from(at[k]) .. to(at[k]) /\ at[k] \in 1 .. Len(cut) /\ v.ts \in Int
      BY <1>11, <3>4
    <3>6. v.ts \in a .. b
      BY <1>4, <3>5
    <3>7. QED
      BY <3>2, <3>4, <3>6 DEF HeldBy, AskedOf
  <2> HIDE DEF A
  <2>3. QED
    BY <2>1, <2>2
<1>16. Cut(tasks, s, A)
  <2> HIDE DEF A
  <2>1. \A k \in 1 .. Len(tasks) : tasks[k].series = s
    BY <1>12, <1>13
  <2>2. \A i, j \in 1 .. Len(tasks) : i < j => AllBefore(Held(tasks[i]), Held(tasks[j]))
    BY <1>13, <1>14
  <2>3. {Held(task(k)) : k \in 1 .. Len(kept)} = {Held(tasks[k]) : k \in 1 .. Len(tasks)}
    BY <1>13
  <2>4. A = UNION {Held(tasks[k]) : k \in 1 .. Len(tasks)}
    BY <1>15, <2>3
  <2>5. QED
    BY <1>13, <2>1, <2>2, <2>4, Zenon DEF Cut
<1>17. J \in SUBSET (1 .. Len(tasks)) /\ \A i \in 1 .. Len(tasks) : i \notin J => Held(tasks[i]) = {}
  <2>1. ASSUME NEW i \in 1 .. Len(tasks), i \notin J PROVE Held(tasks[i]) = {}
    <3>1. tasks[i].streams = <<>>
      BY <2>1
    <3>2. 1 .. Len(tasks[i].streams) = {}
      BY <3>1
    <3>3. QED
      BY <3>2 DEF Held, Left
  <2>2. QED
    BY <2>1
<1> HIDE DEF J, A
<1>18. Cut(Picked(tasks, J), s, A)
  BY <1>16, <1>17, CutPicked
<1>19. QED
  BY <1>1, <1>18 DEF A, Q, sr

-----------------------------------------------------------------------------
(* The units of a series.                                                  *)

LEMMA NoWrites ==
  ASSUME NEW sr, IsKnown(sr), sr.wal = <<>>
  PROVE  LogSources(sr) = {}
<1>1. Len(sr.files) \in Nat /\ Len(sr.wal) = 0
  BY DEF IsKnown
<1>2. QED
  BY <1>1 DEF LogSources

\* The n parts A[1], A[2] and so on of H come one after the other.
Spans(A, n, H) ==
  (\A a, b \in 1 .. n : a < b => AllBefore(A[a], A[b])) /\ H = PartsTo(A, n)

\* The runs of a series hold all it has in a window, one after the other.
LEMMA PartsFacts ==
  ASSUME NEW sr, IsKnown(sr), NEW runs, NEW R, Partition(runs, R, sr), NEW w,
         NEW A, \A r \in 1 .. Len(runs) : A[r] = HeldBy(sr, R[r] \cup LogSources(sr), w)
  PROVE  Spans(A, Len(runs), HeldBy(sr, SM!FilesOf(sr) \cup LogSources(sr), w))
<1> DEFINE V == SM!FilesOf(sr)
           L == LogSources(sr)
           part(r) == HeldBy(sr, R[r] \cup L, w)
           n == Len(runs)
<1>1. n \in Nat /\ \A r \in 1 .. n : R[r] \in SUBSET V
  BY DEF Partition
<1>2. \A x \in V : \E r \in 1 .. n : x \in R[r]
  BY DEF Partition
<1>3. \A a, b \in 1 .. n : a < b =>
        \A x \in R[a], y \in R[b] : SM!FileMax(sr, x) < SM!FileMin(sr, y)
  BY DEF Partition
<1>4. L = {} \/ n = 1
  BY NoWrites DEF Partition
<1> HIDE DEF V, L, n
<1>5. ASSUME NEW a \in 1 .. n, NEW b \in 1 .. n, a < b PROVE AllBefore(part(a), part(b))
  <2>1. SUFFICES ASSUME NEW x \in part(a), NEW y \in part(b) PROVE x.ts < y.ts
    BY DEF AllBefore
  <2>2. L = {}
    BY <1>1, <1>4, <1>5
  <2>3. PICK i \in R[a], f \in Fields : \E v \in Stored(sr, i, f) : x = Full(f, v)
    BY <2>1, <2>2 DEF HeldBy
  <2>4. PICK v \in Stored(sr, i, f) : x = Full(f, v)
    BY <2>3
  <2>5. PICK j \in R[b], g \in Fields : \E u \in Stored(sr, j, g) : y = Full(g, u)
    BY <2>1, <2>2 DEF HeldBy
  <2>6. PICK u \in Stored(sr, j, g) : y = Full(g, u)
    BY <2>5
  <2>7. x.ts = v.ts /\ y.ts = u.ts
    BY <2>4, <2>6 DEF Full
  <2>8. i \in SM!FilesOf(sr) /\ j \in SM!FilesOf(sr)
    BY <1>1 DEF V
  <2>9. /\ v.ts <= SM!FileMax(sr, i) /\ SM!FileMin(sr, j) <= u.ts
        /\ SM!FileMax(sr, i) \in Nat /\ SM!FileMin(sr, j) \in Nat
    BY <2>8, FileRange
  <2>10. v.ts \in Int /\ u.ts \in Int
    <3>1. i \in FileSources(sr) /\ j \in FileSources(sr)
      BY <2>8, FileRange
    <3>2. v \in Value /\ u \in Value
      BY <3>1, StoredFacts
    <3>3. QED
      BY <3>2 DEF Value
  <2>11. SM!FileMax(sr, i) < SM!FileMin(sr, j)
    BY <1>3, <1>5
  <2>12. QED
    BY <2>7, <2>9, <2>10, <2>11
<1>6. ASSUME NEW x \in HeldBy(sr, V \cup L, w) PROVE \E r \in 1 .. n : x \in part(r)
  <2>1. x \in FullValue
    BY <1>6 DEF HeldBy
  <2>2. PICK src \in V \cup L, f \in Fields :
          \E v \in Stored(sr, src, f) : v.ts \in w[1] .. w[2] /\ x = Full(f, v)
    BY <1>6 DEF HeldBy
  <2>3. \E r \in 1 .. n : src \in R[r] \cup L
    <3>1. CASE src \in V
      BY <1>2, <3>1
    <3>2. CASE src \in L
      <4>1. n = 1 /\ 1 \in 1 .. n
        BY <1>4, <3>2
      <4>2. QED
        BY <3>2, <4>1
    <3>3. QED
      BY <3>1, <3>2
  <2>4. PICK r \in 1 .. n : src \in R[r] \cup L
    BY <2>3
  <2>5. x \in part(r)
    BY <2>1, <2>2, <2>4 DEF HeldBy
  <2>6. QED
    BY <2>5
<1>7. ASSUME NEW r \in 1 .. n, NEW x \in part(r) PROVE x \in HeldBy(sr, V \cup L, w)
  <2>1. R[r] \cup L \in SUBSET (V \cup L)
    BY <1>1
  <2>2. QED
    BY <1>7, <2>1 DEF HeldBy
<1> HIDE DEF part
<1>8. HeldBy(sr, V \cup L, w) = UNION {part(r) : r \in 1 .. n}
  BY <1>6, <1>7
<1>9. \A r \in 1 .. n : A[r] = part(r)
  BY DEF part, L, n
<1>10. HeldBy(sr, V \cup L, w) = PartsTo(A, n)
  BY <1>8, <1>9 DEF PartsTo
<1>11. QED
  BY <1>5, <1>9, <1>10 DEF V, L, n, Spans

LEMMA SerialFacts ==
  ASSUME NEW s \in Nat, IsKnown(SM!Series(s)), SM!SeriesStart(s) \in Int, query.end \in Int
  PROVE  LET sr == SM!Series(s) IN
         Cut(SM!SerialUnits(s), s, HeldBy(sr, SM!FilesOf(sr) \cup LogSources(sr), AskedOf(s)))
<1> DEFINE sr == SM!Series(s)
           runs == SM!Runs(sr)
           w == AskedOf(s)
           L == LogSources(sr)
           oneOf(r) == SM!Unit(s, runs[r], w, TRUE)
           us == [r \in 1 .. Len(runs) |-> oneOf(r)]
<1>1. PICK R : Partition(runs, R, sr)
  BY RunsFacts
<1>2. SM!SerialUnits(s) = us
  BY Zenon DEF SM!SerialUnits, AskedOf
<1>3. w[1] \in Int /\ w[2] \in Int
  BY DEF AskedOf
<1>4. IsKnown(sr)
  OBVIOUS
<1> HIDE DEF w, runs
<1>5. /\ Len(runs) \in Nat
      /\ \A r \in 1 .. Len(runs) : R[r] \in SUBSET SM!FilesOf(sr) /\ Counts(runs[r], R[r])
  BY <1>1 DEF Partition
<1>6. \A fi \in SM!FilesOf(sr) : fi \in FileSources(sr)
  BY <1>4, FileRange
<1>7. \A r \in 1 .. Len(runs) : /\ oneOf(r) \in MergeUnits /\ oneOf(r).series = s
                                /\ Held(oneOf(r)) = HeldBy(sr, R[r] \cup L, w)
  <2>1. SUFFICES ASSUME NEW r \in 1 .. Len(runs)
                 PROVE  /\ oneOf(r) \in MergeUnits /\ oneOf(r).series = s
                        /\ Held(oneOf(r)) = HeldBy(sr, R[r] \cup L, w)
    OBVIOUS
  <2> DEFINE Q == R[r]
             run == runs[r]
  <2>2. Q \in SUBSET FileSources(sr) /\ Counts(run, Q)
    BY <1>5, <1>6
  <2> HIDE DEF Q, run
  <2>3. \A all \in BOOLEAN :
          LET u == SM!Unit(s, run, w, all) IN
          u \in MergeUnits /\ u.series = s /\ Held(u) = HeldBy(SM!Series(s), Q \cup LogSources(SM!Series(s)), w)
    <3>1. SUFFICES ASSUME NEW all \in BOOLEAN
                   PROVE  LET u == SM!Unit(s, run, w, all) IN
                          /\ u \in MergeUnits /\ u.series = s
                          /\ Held(u) = HeldBy(SM!Series(s), Q \cup LogSources(SM!Series(s)), w)
      OBVIOUS
    <3>2. SM!Unit(s, run, w, all) \in MergeUnits
      BY <1>3, <2>2, UnitMember
    <3>3. QED
      BY <1>3, <2>2, <3>2, UnitHolds
  <2>4. TRUE \in BOOLEAN
    OBVIOUS
  <2>5. QED
    BY <2>3, <2>4, Zenon DEF Q, run
<1> HIDE DEF oneOf
<1>8. us \in Seq(MergeUnits) /\ Len(us) = Len(runs) /\ \A r \in 1 .. Len(runs) : us[r] = oneOf(r)
  <2>1. Len(runs) \in Nat /\ \A r \in 1 .. Len(runs) : oneOf(r) \in MergeUnits
    BY <1>5, <1>7
  <2>2. QED
    BY <2>1
<1> HIDE DEF us
<1> DEFINE part(r) == HeldBy(sr, R[r] \cup L, w)
           A == [r \in 1 .. Len(runs) |-> part(r)]
<1>9. /\ \A a, b \in 1 .. Len(runs) : a < b => AllBefore(A[a], A[b])
      /\ HeldBy(sr, SM!FilesOf(sr) \cup L, w) = PartsTo(A, Len(runs))
  <2>1. \A r \in 1 .. Len(runs) : A[r] = HeldBy(sr, R[r] \cup LogSources(sr), w)
    OBVIOUS
  <2> HIDE DEF A, sr
  <2>2. Spans(A, Len(runs), HeldBy(sr, SM!FilesOf(sr) \cup LogSources(sr), w))
    BY <1>1, <1>4, <2>1, PartsFacts
  <2>3. QED
    BY <2>2 DEF L, Spans
<1>10. \A r \in 1 .. Len(runs) : A[r] = part(r)
  OBVIOUS
<1>11. \A r \in 1 .. Len(runs) : Held(us[r]) = A[r] /\ us[r].series = s
  BY <1>7, <1>8, <1>10
<1> HIDE DEF part, sr, L, A
<1>12. \A i, j \in 1 .. Len(us) : i < j => AllBefore(Held(us[i]), Held(us[j]))
  BY <1>8, <1>9, <1>11
<1>13. \A i \in 1 .. Len(us) : us[i].series = s
  BY <1>8, <1>11
<1>14. HeldBy(sr, SM!FilesOf(sr) \cup L, w) = UNION {Held(us[i]) : i \in 1 .. Len(us)}
  <2>1. {A[i] : i \in 1 .. Len(runs)} = {Held(us[i]) : i \in 1 .. Len(us)}
    BY <1>8, <1>11
  <2>2. QED
    BY <1>9, <2>1 DEF PartsTo
<1>15. Cut(us, s, HeldBy(sr, SM!FilesOf(sr) \cup L, w))
  BY <1>8, <1>12, <1>13, <1>14, Zenon DEF Cut
<1>16. QED
  BY <1>2, <1>15 DEF sr, L, w

LEMMA SplitFacts ==
  ASSUME NEW s \in Nat, IsKnown(SM!Series(s)), SM!SeriesStart(s) \in Int, query.end \in Int
  PROVE  LET sr == SM!Series(s) IN
         Cut(SM!SplitUnits(s), s, HeldBy(sr, SM!FilesOf(sr) \cup LogSources(sr), AskedOf(s)))
<1> DEFINE sr == SM!Series(s)
           runs == SM!Runs(sr)
           w == AskedOf(s)
           L == LogSources(sr)
           tasks(r) == SM!RunTasks(s, runs[r])
           p == [r \in 1 .. Len(runs) |-> tasks(r)]
<1>1. PICK R : Partition(runs, R, sr)
  BY RunsFacts
<1>2. SM!SplitUnits(s) = FlattenSeq(p)
  <2>1. SM!SplitUnits(s) = SM!FlattenSeq(p)
    BY Zenon DEF SM!SplitUnits
  <2>2. QED
    BY <2>1, SMFlatten
<1>3. IsKnown(sr)
  OBVIOUS
<1> HIDE DEF runs
<1>4. /\ Len(runs) \in Nat
      /\ \A r \in 1 .. Len(runs) : R[r] \in SUBSET SM!FilesOf(sr) /\ Counts(runs[r], R[r])
  BY <1>1 DEF Partition
<1>5. \A fi \in SM!FilesOf(sr) : fi \in FileSources(sr)
  BY <1>3, FileRange
<1> DEFINE part(r) == HeldBy(sr, R[r] \cup L, w)
<1>6. \A r \in 1 .. Len(runs) : Cut(tasks(r), s, part(r))
  <2>1. SUFFICES ASSUME NEW r \in 1 .. Len(runs) PROVE Cut(tasks(r), s, part(r))
    OBVIOUS
  <2> DEFINE Q == R[r]
             run == runs[r]
  <2>2. Q \in SUBSET FileSources(sr) /\ Counts(run, Q)
    BY <1>4, <1>5
  <2> HIDE DEF Q, run
  <2>3. Cut(SM!RunTasks(s, run), s, HeldBy(SM!Series(s), Q \cup LogSources(SM!Series(s)), AskedOf(s)))
    BY <2>2, RunTasksFacts
  <2>4. QED
    BY <2>3 DEF Q, run
<1> DEFINE A == [r \in 1 .. Len(runs) |-> part(r)]
<1>7. /\ \A a, b \in 1 .. Len(runs) : a < b => AllBefore(A[a], A[b])
      /\ HeldBy(sr, SM!FilesOf(sr) \cup L, w) = PartsTo(A, Len(runs))
  <2>1. \A r \in 1 .. Len(runs) : A[r] = HeldBy(sr, R[r] \cup LogSources(sr), w)
    OBVIOUS
  <2> HIDE DEF A, sr
  <2>2. Spans(A, Len(runs), HeldBy(sr, SM!FilesOf(sr) \cup LogSources(sr), w))
    BY <1>1, <1>3, <2>1, PartsFacts
  <2>3. QED
    BY <2>2 DEF L, Spans
<1> HIDE DEF part, tasks, sr, L, w
<1>8. \A r \in 1 .. Len(runs) : tasks(r) \in Seq(MergeUnits)
  BY <1>6 DEF Cut
<1>9. /\ p \in Seq(Seq(MergeUnits)) /\ Len(p) = Len(runs)
      /\ \A r \in 1 .. Len(runs) : p[r] = tasks(r) /\ A[r] = part(r)
  BY <1>4, <1>8
<1> HIDE DEF p, A
<1>10. \A r \in 1 .. Len(p) : Cut(p[r], s, A[r])
  BY <1>6, <1>9
<1>11. \A a, b \in 1 .. Len(p) : a < b => AllBefore(A[a], A[b])
  BY <1>7, <1>9
<1>12. Cut(FlattenSeq(p), s, PartsTo(A, Len(p)))
  BY <1>9, <1>10, <1>11, CutFlatten
<1>13. Cut(FlattenSeq(p), s, HeldBy(sr, SM!FilesOf(sr) \cup L, w))
  BY <1>7, <1>9, <1>12
<1>14. QED
  BY <1>2, <1>13 DEF sr, L, w

-----------------------------------------------------------------------------
(* What was written, and what of it is asked for.                          *)

LEMMA QueryFacts ==
  ASSUME query \in Queries
  PROVE  /\ query.start \in 0 .. LastTime /\ query.end \in 0 .. LastTime
         /\ query.cursor.series \in Nat /\ query.cursor.ts \in 0 .. LastTime /\ LastTime \in Nat
BY PointsAssumption

LEMMA StartFacts ==
  ASSUME query \in Queries, NEW s \in Nat
  PROVE  /\ SM!SeriesStart(s) \in Int /\ query.end \in Int
         /\ ~SM!Skipped(s) /\ ~SM!NothingLeft(s) =>
              \A t \in 0 .. LastTime : t \in SM!SeriesStart(s) .. query.end <=> SM!Asked(s, t)
         /\ SM!Skipped(s) \/ SM!NothingLeft(s) => \A t \in 0 .. LastTime : ~SM!Asked(s, t)
<1> DEFINE a == query.start
           b == query.end
           c == query.cursor.series
           d == query.cursor.ts
           next == IF d = LastTime THEN 0 ELSE d + 1
           start == SM!SeriesStart(s)
<1>1. a \in Int /\ b \in Int /\ c \in Nat /\ d \in 0 .. LastTime /\ LastTime \in Nat
  BY QueryFacts
<1>2. start = IF s = c THEN SM!Max({a, next}) ELSE a
  BY DEF SM!SeriesStart, SM!NextTime
<1>3. \A t : SM!Asked(s, t) <=> t \in a .. b /\ (s > c \/ (s = c /\ t > d))
  BY DEF SM!Asked
<1>4. (SM!Skipped(s) <=> s < c) /\ (SM!NothingLeft(s) <=> s = c /\ d = LastTime)
  BY DEF SM!Skipped, SM!NothingLeft
<1> HIDE DEF a, b, c, d, start
<1>5. next \in Int
  BY <1>1
<1> HIDE DEF next
<1>6. SM!Max({a, next}) \in Int /\ \A t \in Int : SM!Max({a, next}) <= t <=> a <= t /\ next <= t
  BY <1>1, <1>5, MaxOfTwo
<1> DEFINE m == SM!Max({a, next})
<1> HIDE DEF m
<1>7. start \in Int
  BY <1>1, <1>2, <1>6 DEF m
<1>8. ASSUME ~(s < c), ~(s = c /\ d = LastTime), NEW t \in 0 .. LastTime
      PROVE  t \in start .. b <=> t \in a .. b /\ (s > c \/ (s = c /\ t > d))
  <2>1. CASE s > c
    <3>1. start = a
      BY <1>1, <1>2, <2>1
    <3>2. QED
      BY <1>1, <2>1, <3>1
  <2>2. CASE s = c
    <3>1. d # LastTime /\ next = d + 1
      BY <1>8, <2>2 DEF next
    <3>2. start = m /\ m \in Int
      BY <1>2, <1>6, <2>2 DEF m
    <3>3. m <= t <=> a <= t /\ next <= t
      BY <1>1, <1>6 DEF m
    <3>4. QED
      BY <1>1, <2>2, <3>1, <3>2, <3>3
  <2>3. QED
    BY <1>1, <1>8, <2>1, <2>2
<1>9. ASSUME s < c \/ (s = c /\ d = LastTime), NEW t \in 0 .. LastTime
      PROVE  ~(s > c \/ (s = c /\ t > d))
  BY <1>1, <1>9
<1>10. QED
  BY <1>1, <1>3, <1>4, <1>7, <1>8, <1>9 DEF start, b

\* Everything a series has.
Content(sr) ==
  {x \in FullValue : \E src \in FileSources(sr) \cup LogSources(sr), f \in Fields :
                       \E v \in Stored(sr, src, f) : x = Full(f, v)}

LEMMA WrittenIsContent ==
  ASSUME NEW s, IsKnown(SM!Series(s)), wal[s] = SM!Logged(s)
  PROVE  SM!Written(s) = Content(SM!Series(s))
<1> DEFINE sr == SM!Series(s)
           stored == sr.files
           log == sr.wal
           n == Len(stored)
           file(fi, f, b) == {[field |-> f, ts |-> stored[fi][f][b][i], src |-> fi, at |-> <<b, i>>] :
                                i \in 1 .. Len(stored[fi][f][b])}
           logged(k) == {[field |-> log[k].field, ts |-> log[k].times[i],
                          src |-> n + k, at |-> <<0, i>>] : i \in 1 .. Len(log[k].times)}
           key(fi, f) == UNION {file(fi, f, b) : b \in 1 .. Len(stored[fi][f])}
           fromFiles == UNION {key(fi, f) : fi \in 1 .. n, f \in Fields}
           fromLog == UNION {logged(k) : k \in 1 .. Len(log)}
<1>1. SM!Written(s) = fromFiles \cup fromLog
  <2>1. stored = shard.series[s] /\ log = SM!Logged(s)
    BY DEF SM!Series
  <2> DEFINE all(F, G) ==
        (UNION {UNION {{[field |-> f, ts |-> F[fi][f][b][i], src |-> fi, at |-> <<b, i>>] :
                          i \in 1 .. Len(F[fi][f][b])} :
                        b \in 1 .. Len(F[fi][f])} :
                fi \in 1 .. Len(F), f \in Fields})
        \cup
        UNION {{[field |-> G[k].field, ts |-> G[k].times[i], src |-> Len(F) + k, at |-> <<0, i>>] :
                 i \in 1 .. Len(G[k].times)} : k \in 1 .. Len(G)}
  <2>2. SM!Written(s) = all(shard.series[s], SM!Logged(s))
    BY DEF SM!Written
  <2>3. all(stored, log) = fromFiles \cup fromLog
    OBVIOUS
  <2> HIDE DEF stored, log, all, fromFiles, fromLog
  <2>4. QED
    BY <2>1, <2>2, <2>3
<1>2. IsKnown(sr)
  OBVIOUS
<1>3. n \in Nat /\ Len(log) \in Nat
      /\ \A k \in 1 .. Len(log) : log[k].field \in Fields
  <2>1. stored \in Seq(FileKeys) /\ log \in Seq(LogWrites)
    BY DEF IsKnown
  <2> HIDE DEF stored, log
  <2>2. \A k \in 1 .. Len(log) : log[k] \in LogWrites
    BY <2>1, ElementOfSeq
  <2>3. QED
    BY <2>1, <2>2 DEF LogWrites
<1>4. /\ FileSources(sr) = 1 .. n /\ LogSources(sr) = n + 1 .. n + Len(log)
      /\ \A src, f : Stored(sr, src, f) =
           IF src <= n THEN KeySet(src, stored[src][f])
           ELSE IF log[src - n].field = f THEN BlockSet(src, log[src - n].times, 0) ELSE {}
  BY DEF FileSources, LogSources, Stored
<1> HIDE DEF stored, log, sr
<1>5. ASSUME NEW x \in fromFiles PROVE x \in Content(sr)
  <2>1. PICK fi \in 1 .. n, f \in Fields : x \in UNION {file(fi, f, b) : b \in 1 .. Len(stored[fi][f])}
    BY <1>5
  <2>2. PICK b \in 1 .. Len(stored[fi][f]) : x \in file(fi, f, b)
    BY <2>1
  <2>3. PICK i \in 1 .. Len(stored[fi][f][b]) :
          x = [field |-> f, ts |-> stored[fi][f][b][i], src |-> fi, at |-> <<b, i>>]
    BY <2>2
  <2> DEFINE v == ValueAt(fi, b, i, stored[fi][f][b][i])
  <2>4. x = Full(f, v)
    BY <2>3 DEF Full, ValueAt
  <2>5. v \in BlockSet(fi, stored[fi][f][b], b)
    BY DEF BlockSet
  <2> HIDE DEF v
  <2>6. v \in KeySet(fi, stored[fi][f])
    BY <2>5 DEF KeySet
  <2>7. v \in Stored(sr, fi, f) /\ fi \in FileSources(sr)
    <3>1. fi <= n
      BY <1>3
    <3>2. QED
      BY <1>4, <2>6, <3>1
  <2>8. x \in FullValue
    BY <1>2, <2>4, <2>7, StoredFacts
  <2>9. QED
    BY <2>4, <2>7, <2>8 DEF Content
<1>6. ASSUME NEW x \in fromLog PROVE x \in Content(sr)
  <2>1. PICK k \in 1 .. Len(log) : x \in logged(k)
    BY <1>6
  <2>2. PICK i \in 1 .. Len(log[k].times) :
          x = [field |-> log[k].field, ts |-> log[k].times[i], src |-> n + k, at |-> <<0, i>>]
    BY <2>1
  <2> DEFINE src == n + k
             f == log[k].field
             v == ValueAt(src, 0, i, log[k].times[i])
  <2>3. x = Full(f, v)
    BY <2>2 DEF Full, ValueAt
  <2>4. v \in BlockSet(src, log[k].times, 0)
    BY DEF BlockSet
  <2>5. src \in n + 1 .. n + Len(log) /\ ~(src <= n) /\ src - n = k
    <3> DEFINE m == Len(log)
    <3> HIDE DEF m, n
    <3>1. QED
      BY SMTT(30), <1>3 DEF m
  <2> HIDE DEF v, src
  <2>6. v \in Stored(sr, src, f) /\ src \in LogSources(sr)
    BY <1>4, <2>4, <2>5
  <2>7. f \in Fields
    BY <1>3
  <2>8. x \in FullValue
    BY <1>2, <2>3, <2>6, <2>7, StoredFacts
  <2>9. QED
    BY <2>3, <2>6, <2>7, <2>8 DEF Content
<1>7. ASSUME NEW x \in Content(sr) PROVE x \in fromFiles \cup fromLog
  <2>1. PICK src \in FileSources(sr) \cup LogSources(sr), f \in Fields :
          \E v \in Stored(sr, src, f) : x = Full(f, v)
    BY <1>7 DEF Content
  <2>2. PICK v \in Stored(sr, src, f) : x = Full(f, v)
    BY <2>1
  <2>3. CASE src \in FileSources(sr)
    <3>1. src \in 1 .. n /\ src <= n
      BY <1>3, <1>4, <2>3
    <3>2. v \in KeySet(src, stored[src][f])
      BY <1>4, <3>1
    <3>3. PICK b \in 1 .. Len(stored[src][f]) : v \in BlockSet(src, stored[src][f][b], b)
      BY <3>2 DEF KeySet
    <3>4. PICK i \in 1 .. Len(stored[src][f][b]) : v = ValueAt(src, b, i, stored[src][f][b][i])
      BY <3>3 DEF BlockSet
    <3>5. x \in file(src, f, b)
      BY <2>2, <3>4 DEF Full, ValueAt
    <3> HIDE DEF file
    <3>6. x \in key(src, f)
      BY <3>5
    <3> HIDE DEF key
    <3>7. x \in fromFiles
      BY <3>1, <3>6
    <3>8. QED
      BY <3>7
  <2>4. CASE src \in LogSources(sr)
    <3> DEFINE k == src - n
    <3>1. k \in 1 .. Len(log) /\ ~(src <= n) /\ src = n + k
      <4>1. src \in n + 1 .. n + Len(log)
        BY <1>4, <2>4
      <4> DEFINE m == Len(log)
      <4> HIDE DEF m, n
      <4>2. QED
        BY <1>3, <4>1 DEF m
    <3> HIDE DEF k
    <3>2. log[k].field = f /\ v \in BlockSet(src, log[k].times, 0)
      <4>1. src - n = k
        BY DEF k
      <4>2. Stored(sr, src, f) = IF log[k].field = f THEN BlockSet(src, log[k].times, 0) ELSE {}
        BY <1>4, <3>1, <4>1
      <4>3. QED
        BY <4>2
    <3>3. PICK i \in 1 .. Len(log[k].times) : v = ValueAt(src, 0, i, log[k].times[i])
      BY <3>2 DEF BlockSet
    <3>4. x = [field |-> log[k].field, ts |-> log[k].times[i], src |-> n + k, at |-> <<0, i>>]
      BY <2>2, <3>1, <3>2, <3>3 DEF Full, ValueAt
    <3>5. x \in logged(k)
      BY <3>4
    <3> HIDE DEF logged
    <3>6. x \in fromLog
      BY <3>1, <3>5
    <3>7. QED
      BY <3>6
  <2> HIDE DEF fromFiles, fromLog
  <2>5. QED
    BY <2>1, <2>3, <2>4
<1> HIDE DEF fromFiles, fromLog
<1>8. fromFiles \cup fromLog = Content(sr)
  BY <1>5, <1>6, <1>7
<1>9. QED
  BY <1>1, <1>8 DEF sr

\* What of it is asked for.
Wanted(s) == {x \in SM!Written(s) : SM!Asked(s, x.ts)}

LEMMA WantedHeld ==
  ASSUME query \in Queries, NEW s \in Nat, IsKnown(SM!Series(s)), wal[s] = SM!Logged(s)
  PROVE  LET sr == SM!Series(s) IN
         /\ SM!Skipped(s) \/ SM!NothingLeft(s) => Wanted(s) = {}
         /\ ~SM!Skipped(s) /\ ~SM!NothingLeft(s) =>
              Wanted(s) = HeldBy(sr, SM!FilesOf(sr) \cup LogSources(sr), AskedOf(s))
<1> DEFINE sr == SM!Series(s)
           start == SM!SeriesStart(s)
           end == query.end
           H == HeldBy(sr, SM!FilesOf(sr) \cup LogSources(sr), AskedOf(s))
<1>1. SM!Written(s) = Content(sr)
  BY WrittenIsContent
<1>2. IsKnown(sr)
  OBVIOUS
<1>3. /\ ~SM!Skipped(s) /\ ~SM!NothingLeft(s) => \A t \in 0 .. LastTime : t \in start .. end <=> SM!Asked(s, t)
      /\ SM!Skipped(s) \/ SM!NothingLeft(s) => \A t \in 0 .. LastTime : ~SM!Asked(s, t)
  BY StartFacts
<1>4. \A fi \in SM!FilesOf(sr) : fi \in FileSources(sr)
  BY <1>2, FileRange
<1>5. \A x \in Content(sr) : x.ts \in 0 .. LastTime
  <2>1. \A x \in FullValue : x.ts \in 0 .. LastTime
    BY TimesAre DEF FullValue
  <2>2. QED
    BY <2>1 DEF Content
<1>6. AskedOf(s)[1] = start /\ AskedOf(s)[2] = end
  BY DEF AskedOf
<1> HIDE DEF sr, start, end
<1>7. ASSUME SM!Skipped(s) \/ SM!NothingLeft(s) PROVE Wanted(s) = {}
  BY <1>1, <1>3, <1>5, <1>7 DEF Wanted
<1>8. ASSUME ~SM!Skipped(s), ~SM!NothingLeft(s) PROVE Wanted(s) = H
  <2>1. ASSUME NEW x \in Wanted(s) PROVE x \in H
    <3>1. x \in Content(sr) /\ SM!Asked(s, x.ts) /\ x \in FullValue
      BY <1>1, <2>1 DEF Wanted, Content
    <3>2. x.ts \in start .. end
      BY <1>3, <1>5, <1>8, <3>1
    <3>3. PICK src \in FileSources(sr) \cup LogSources(sr), f \in Fields :
            \E v \in Stored(sr, src, f) : x = Full(f, v)
      BY <3>1 DEF Content
    <3>4. PICK v \in Stored(sr, src, f) : x = Full(f, v)
      BY <3>3
    <3>5. src \in SM!FilesOf(sr) \cup LogSources(sr)
      <4>1. CASE src \in LogSources(sr)
        BY <4>1
      <4>2. CASE src \in FileSources(sr)
        BY <1>2, <3>4, <4>2, FileTimesAre
      <4>3. QED
        BY <3>3, <4>1, <4>2
    <3>6. v.ts \in AskedOf(s)[1] .. AskedOf(s)[2]
      <4>1. v.ts = x.ts
        BY <3>4 DEF Full
      <4>2. QED
        BY <1>6, <3>2, <4>1
    <3>7. QED
      BY <3>1, <3>4, <3>5, <3>6 DEF HeldBy
  <2>2. ASSUME NEW x \in H PROVE x \in Wanted(s)
    <3>1. x \in FullValue
      BY <2>2 DEF HeldBy
    <3>2. PICK src \in SM!FilesOf(sr) \cup LogSources(sr), f \in Fields :
            \E v \in Stored(sr, src, f) : v.ts \in AskedOf(s)[1] .. AskedOf(s)[2] /\ x = Full(f, v)
      BY <2>2 DEF HeldBy
    <3>3. PICK v \in Stored(sr, src, f) : v.ts \in AskedOf(s)[1] .. AskedOf(s)[2] /\ x = Full(f, v)
      BY <3>2
    <3>4. src \in FileSources(sr) \cup LogSources(sr)
      BY <1>4, <3>2
    <3>5. x \in Content(sr)
      BY <3>1, <3>3, <3>4 DEF Content
    <3>6. x.ts \in start .. end
      <4>1. v.ts = x.ts
        BY <3>3 DEF Full
      <4>2. QED
        BY <1>6, <3>3, <4>1
    <3>7. SM!Asked(s, x.ts)
      BY <1>3, <1>5, <1>8, <3>5, <3>6
    <3>8. QED
      BY <1>1, <3>5, <3>7 DEF Wanted
  <2>3. QED
    BY <2>1, <2>2
<1>9. QED
  BY <1>7, <1>8 DEF sr

LEMMA WantedValues ==
  ASSUME NEW s \in Nat, IsKnown(SM!Series(s)), wal[s] = SM!Logged(s)
  PROVE  Wanted(s) \in SUBSET FullValue
BY WrittenIsContent DEF Wanted, Content

(* The units of a series hold what is asked for of it.                     *)
LEMMA UnitsOfFacts ==
  ASSUME query \in Queries, NEW s \in Nat, IsKnown(SM!Series(s)), wal[s] = SM!Logged(s),
         s \in 1 .. SM!NumSeries
  PROVE  Cut(IF SM!Skipped(s) THEN <<>> ELSE SM!UnitsOf(s), s, Wanted(s))
<1> DEFINE sr == SM!Series(s)
           H == HeldBy(sr, SM!FilesOf(sr) \cup LogSources(sr), AskedOf(s))
           us == IF SM!Skipped(s) THEN <<>> ELSE SM!UnitsOf(s)
<1>1. /\ SM!Skipped(s) \/ SM!NothingLeft(s) => Wanted(s) = {}
      /\ ~SM!Skipped(s) /\ ~SM!NothingLeft(s) => Wanted(s) = H
  BY WantedHeld
<1>2. SM!SeriesStart(s) \in Int /\ query.end \in Int
  BY StartFacts
<1>3. SM!UnitsOf(s) = IF SM!NothingLeft(s) \/ ~SM!Present(s) THEN <<>>
                      ELSE IF windows = 0 THEN SM!SerialUnits(s) ELSE SM!SplitUnits(s)
  BY DEF SM!UnitsOf
<1>4. Cut(SM!SerialUnits(s), s, H) /\ Cut(SM!SplitUnits(s), s, H)
  BY <1>2, SerialFacts, SplitFacts
<1>5. CASE SM!Skipped(s) \/ SM!NothingLeft(s)
  <2>1. us = <<>> /\ Wanted(s) = {}
    BY <1>1, <1>3, <1>5
  <2>2. QED
    BY <2>1, CutNone
<1>6. CASE ~SM!Skipped(s) /\ ~SM!NothingLeft(s) /\ ~SM!Present(s)
  <2>1. us = <<>> /\ Wanted(s) = H
    BY <1>1, <1>3, <1>6
  <2>2. SM!FilesOf(sr) = {} /\ sr.wal = <<>>
    BY <1>6 DEF SM!Present, SM!Series
  <2>3. LogSources(sr) = {}
    BY <2>2, NoWrites
  <2>4. H = {}
    BY <2>2, <2>3 DEF HeldBy
  <2>5. QED
    BY <2>1, <2>4, CutNone
<1>7. CASE ~SM!Skipped(s) /\ ~SM!NothingLeft(s) /\ SM!Present(s)
  <2>1. Wanted(s) = H /\ (us = SM!SerialUnits(s) \/ us = SM!SplitUnits(s))
    BY <1>1, <1>3, <1>7
  <2> HIDE DEF us, H
  <2>2. Cut(us, s, Wanted(s))
    BY <1>4, <2>1
  <2>3. QED
    BY <2>2 DEF us
<1>8. QED
  BY <1>5, <1>6, <1>7

-----------------------------------------------------------------------------
(* The plan.                                                               *)

\* The points that units give.
Output(us) == FlattenSeq([i \in 1 .. Len(us) |-> Points(us[i].series, Held(us[i]))])

LEMMA UnitPoints ==
  ASSUME NEW us \in Seq(MergeUnits)
  PROVE  /\ [i \in 1 .. Len(us) |-> Points(us[i].series, Held(us[i]))] \in Seq(Seq(Point))
         /\ Output(us) \in Seq(Point)
<1> DEFINE pts(i) == Points(us[i].series, Held(us[i]))
           p == [i \in 1 .. Len(us) |-> pts(i)]
<1>1. \A i \in 1 .. Len(us) : pts(i) \in Seq(Point)
  <2>1. SUFFICES ASSUME NEW i \in 1 .. Len(us) PROVE pts(i) \in Seq(Point)
    OBVIOUS
  <2>2. us[i] \in MergeUnits
    BY ElementOfSeq
  <2>3. us[i].series \in Nat /\ Held(us[i]) \in SUBSET FullValue
    BY <2>2, HeldValues DEF MergeUnits
  <2>4. QED
    BY <2>3, PointsType
<1>2. Len(us) \in Nat
  OBVIOUS
<1> HIDE DEF pts
<1>3. p \in Seq(Seq(Point))
  BY <1>1, <1>2
<1>4. Output(us) = FlattenSeq(p)
  BY DEF Output, pts
<1> HIDE DEF p
<1>5. Output(us) \in Seq(Point)
  BY <1>3, <1>4, FlattenType
<1>6. QED
  BY <1>3, <1>5 DEF p, pts

LEMMA OutputNone ==
  Output(<<>>) = <<>>
<1>1. [i \in 1 .. Len(<<>>) |-> Points(<<>>[i].series, Held(<<>>[i]))] = <<>>
  OBVIOUS
<1>2. QED
  BY <1>1, FlattenEmpty DEF Output

LEMMA OutputJoin ==
  ASSUME NEW us \in Seq(MergeUnits), NEW vs \in Seq(MergeUnits)
  PROVE  Output(us \o vs) = Output(us) \o Output(vs)
<1> DEFINE pts(u) == Points(u.series, Held(u))
           list(q) == [i \in 1 .. Len(q) |-> pts(q[i])]
           a == list(us)
           b == list(vs)
           all == us \o vs
<1>1. a \in Seq(Seq(Point)) /\ b \in Seq(Seq(Point))
  BY UnitPoints
<1> HIDE DEF pts
<1>2. all \in Seq(MergeUnits) /\ Len(all) = Len(us) + Len(vs) /\ Len(us) \in Nat /\ Len(vs) \in Nat
      /\ (\A i \in 1 .. Len(us) : all[i] = us[i])
      /\ \A i \in Len(us) + 1 .. Len(us) + Len(vs) : all[i] = vs[i - Len(us)]
  BY JoinFacts
<1>3. /\ Len(a) = Len(us) /\ Len(b) = Len(vs)
      /\ (\A i \in 1 .. Len(us) : a[i] = pts(us[i])) /\ \A i \in 1 .. Len(vs) : b[i] = pts(vs[i])
  BY <1>2
<1> HIDE DEF all
<1> DEFINE n == Len(us)
           m == Len(vs)
           c == list(all)
<1>4. c = [i \in 1 .. n + m |-> c[i]] /\ \A i \in 1 .. n + m : c[i] = pts(all[i])
  BY <1>2
<1> HIDE DEF a, b, c
<1>5. /\ a \o b = [i \in 1 .. n + m |-> (a \o b)[i]]
      /\ (\A i \in 1 .. n : (a \o b)[i] = a[i])
      /\ \A i \in n + 1 .. n + m : (a \o b)[i] = b[i - n]
  <2>1. /\ a \o b = [i \in 1 .. Len(a) + Len(b) |-> (a \o b)[i]]
        /\ (\A i \in 1 .. Len(a) : (a \o b)[i] = a[i])
        /\ \A i \in Len(a) + 1 .. Len(a) + Len(b) : (a \o b)[i] = b[i - Len(a)]
    BY <1>1, JoinFacts
  <2>2. QED
    BY <1>3, <2>1
<1>6. n \in Nat /\ m \in Nat
  BY <1>2
<1>7. /\ \A i \in 1 .. n : all[i] = us[i] /\ a[i] = pts(us[i])
      /\ \A i \in 1 .. m : b[i] = pts(vs[i])
      /\ \A i \in n + 1 .. n + m : all[i] = vs[i - n]
  BY <1>2, <1>3
<1> HIDE DEF n, m
<1>8. \A i \in 1 .. n + m : c[i] = (a \o b)[i]
  <2>1. SUFFICES ASSUME NEW i \in 1 .. n + m PROVE c[i] = (a \o b)[i]
    OBVIOUS
  <2>2. c[i] = pts(all[i])
    BY <1>4
  <2>3. CASE i \in 1 .. n
    BY <1>5, <1>7, <2>2, <2>3
  <2>4. CASE i \in n + 1 .. n + m
    <3>1. i - n \in 1 .. m
      BY <1>6, <2>4
    <3>2. QED
      BY <1>5, <1>7, <2>2, <2>4, <3>1
  <2>5. i \in 1 .. n \/ i \in n + 1 .. n + m
    BY <1>6
  <2>6. QED
    BY <2>3, <2>4, <2>5
<1>9. c = a \o b
  <2> DEFINE d == a \o b
  <2>1. d = [i \in 1 .. n + m |-> d[i]] /\ \A i \in 1 .. n + m : c[i] = d[i]
    BY <1>5, <1>8
  <2> HIDE DEF d
  <2>2. c = d
    BY <1>4, <2>1
  <2>3. QED
    BY <2>2 DEF d
<1>10. FlattenSeq(c) = FlattenSeq(a) \o FlattenSeq(b)
  BY <1>1, <1>9, FlattenConcat
<1>11. Output(all) = FlattenSeq(c) /\ Output(us) = FlattenSeq(a) /\ Output(vs) = FlattenSeq(b)
  BY Zenon DEF Output, a, b, c, pts
<1>12. QED
  BY <1>10, <1>11 DEF all

LEMMA OutputFlatten ==
  ASSUME NEW p \in Seq(Seq(MergeUnits))
  PROVE  Output(FlattenSeq(p)) = FlattenSeq([i \in 1 .. Len(p) |-> Output(p[i])])
<1> DEFINE q == [i \in 1 .. Len(p) |-> Output(p[i])]
<1>1. Len(p) \in Nat /\ \A i \in 1 .. Len(p) : p[i] \in Seq(MergeUnits) /\ Output(p[i]) \in Seq(Point)
  BY ElementOfSeq, UnitPoints
<1>2. q \in Seq(Seq(Point)) /\ Len(q) = Len(p) /\ \A i \in 1 .. Len(p) : q[i] = Output(p[i])
  BY <1>1
<1> HIDE DEF q
<1>3. PICK h : Glues(h, p, MergeUnits)
  BY GluesExists
<1>4. PICK g : Glues(g, q, Point)
  BY <1>2, GluesExists
<1>5. /\ h[0] = <<>> /\ h \in [0 .. Len(p) -> Seq(MergeUnits)]
      /\ \A i \in 1 .. Len(p) : h[i] = h[i - 1] \o p[i]
  BY <1>3 DEF Glues, GluesTo
<1>6. g[0] = <<>> /\ \A i \in 1 .. Len(p) : g[i] = g[i - 1] \o q[i]
  BY <1>2, <1>4 DEF Glues, GluesTo
<1>7. FlattenSeq(p) = h[Len(p)] /\ FlattenSeq(q) = g[Len(p)]
  BY <1>2, <1>3, <1>4, FlattenGlues
<1> DEFINE P == {n \in Nat : n <= Len(p) => g[n] = Output(h[n])}
<1>8. 0 \in P
  BY <1>5, <1>6, OutputNone
<1>9. ASSUME NEW n \in P \cap Nat PROVE n + 1 \in P
  <2>1. SUFFICES ASSUME n + 1 <= Len(p) PROVE g[n + 1] = Output(h[n + 1])
    OBVIOUS
  <2>2. n \in 0 .. Len(p) /\ n + 1 \in 1 .. Len(p) /\ (n + 1) - 1 = n /\ g[n] = Output(h[n])
    BY <1>1, <2>1
  <2>3. h[n] \in Seq(MergeUnits) /\ p[n + 1] \in Seq(MergeUnits)
    BY <1>1, <1>5, <2>2
  <2>4. h[n + 1] = h[n] \o p[n + 1] /\ g[n + 1] = g[n] \o Output(p[n + 1])
    BY <1>2, <1>5, <1>6, <2>2
  <2>5. QED
    BY <2>2, <2>3, <2>4, OutputJoin
<1>10. Nat \subseteq P
  <2> HIDE DEF P
  <2> QED BY <1>8, <1>9, SetInduction
<1>11. g[Len(p)] = Output(h[Len(p)])
  BY <1>1, <1>10
<1>12. QED
  BY <1>7, <1>11 DEF q

\* What is known after the index of a shard.
IsIndexed ==
  \A s \in 1 .. SM!NumSeries : IsKnown(SM!Series(s)) /\ wal[s] = SM!Logged(s)

(* The points of what is asked for are those of the specification.         *)
LEMMA ExpectedPoints ==
  ASSUME NEW s \in Nat, Wanted(s) \in SUBSET FullValue
  PROVE  LET times == SM!Ascending({v.ts : v \in {x \in SM!Written(s) : SM!Asked(s, x.ts)}}, <) IN
         [i \in 1 .. Len(times) |-> SM!ExpectedPoint(s, times[i])] = Points(s, Wanted(s))
<1> DEFINE H == Wanted(s)
           T == HeldTimes(H)
           q == Ascending(T, <)
           spec == [i \in 1 .. Len(q) |-> SM!ExpectedPoint(s, q[i])]
           mine == [i \in 1 .. Len(q) |-> PointIn(s, H, q[i])]
<1>1. T = {v.ts : v \in {x \in SM!Written(s) : SM!Asked(s, x.ts)}}
  BY DEF HeldTimes, Wanted
<1>2. SM!Ascending(T, <) = q
  BY Zenon, SMAscending
<1>3. Points(s, H) = mine
  BY Zenon DEF Points
<1>4. IsFiniteSet(T) /\ T \in SUBSET Int
  BY HeldFacts
<1> HIDE DEF T, H
<1>5. Counts(q, T)
  BY Zenon, <1>4, AscendingCounts
<1> HIDE DEF q
<1>6. Len(q) \in Nat /\ \A i \in 1 .. Len(q) : q[i] \in T
  BY <1>5, ElementOfSeq DEF Counts
<1>7. \A ts \in T : {v \in SM!Written(s) : v.ts = ts} = {v \in H : v.ts = ts}
  BY DEF T, H, HeldTimes, Wanted
<1>8. \A ts : SM!ExpectedPoint(s, ts) = PointOf(s, ts, {v \in SM!Written(s) : v.ts = ts})
  BY Zenon DEF SM!ExpectedPoint, PointOf
<1>9. \A ts \in T : SM!ExpectedPoint(s, ts) = PointIn(s, H, ts)
  BY <1>7, <1>8 DEF PointIn
<1>10. spec = mine
  BY <1>6, <1>9
<1>11. QED
  BY Zenon, <1>1, <1>2, <1>3, <1>10 DEF H

LEMMA PlannedPoints ==
  ASSUME query \in Queries, IsIndexed, SM!NumSeries \in Nat
  PROVE  SM!Plan \in Seq(MergeUnits) /\ Output(SM!Plan) = SM!Expected /\ SM!Expected \in Seq(Point)
<1> DEFINE n == SM!NumSeries
           of(s) == IF SM!Skipped(s) THEN <<>> ELSE SM!UnitsOf(s)
           p == [s \in 1 .. n |-> of(s)]
           times(s) == SM!Ascending({v.ts : v \in {x \in SM!Written(s) : SM!Asked(s, x.ts)}}, <)
           pts(s) == [i \in 1 .. Len(times(s)) |-> SM!ExpectedPoint(s, times(s)[i])]
           q == [s \in 1 .. n |-> pts(s)]
<1>1. SM!Plan = FlattenSeq(p)
  <2>1. SM!Plan = SM!FlattenSeq(p)
    BY Zenon DEF SM!Plan
  <2>2. QED
    BY <2>1, SMFlatten
<1>2. SM!Expected = FlattenSeq(q)
  <2>1. SM!Expected = SM!FlattenSeq(q)
    BY Zenon DEF SM!Expected
  <2>2. QED
    BY <2>1, SMFlatten
<1>3. \A s \in 1 .. n : s \in Nat /\ IsKnown(SM!Series(s)) /\ wal[s] = SM!Logged(s)
  BY DEF IsIndexed
<1>4. \A s \in 1 .. n : Cut(of(s), s, Wanted(s)) /\ Wanted(s) \in SUBSET FullValue
  <2>1. SUFFICES ASSUME NEW s \in 1 .. n PROVE Cut(of(s), s, Wanted(s)) /\ Wanted(s) \in SUBSET FullValue
    OBVIOUS
  <2>2. s \in Nat /\ IsKnown(SM!Series(s)) /\ wal[s] = SM!Logged(s)
    BY <1>3
  <2>3. QED
    BY <2>2, UnitsOfFacts, WantedValues
<1> HIDE DEF of
<1>5. \A s \in 1 .. n : of(s) \in Seq(MergeUnits) /\ Output(of(s)) = Points(s, Wanted(s))
  <2>1. SUFFICES ASSUME NEW s \in 1 .. n PROVE of(s) \in Seq(MergeUnits) /\ Output(of(s)) = Points(s, Wanted(s))
    OBVIOUS
  <2>2. Cut(of(s), s, Wanted(s)) /\ s \in Nat
    BY <1>3, <1>4
  <2>3. of(s) \in Seq(MergeUnits)
    BY <2>2 DEF Cut
  <2>4. Output(of(s)) = Points(s, Wanted(s))
    BY <2>2, CutPoints DEF Output
  <2>5. QED
    BY <2>3, <2>4
<1>6. \A s \in 1 .. n : pts(s) = Points(s, Wanted(s))
  BY Zenon, <1>3, <1>4, ExpectedPoints
<1> HIDE DEF n, pts
<1>7. n \in Nat
  BY DEF n
<1>8. p \in Seq(Seq(MergeUnits)) /\ Len(p) = n /\ \A s \in 1 .. n : p[s] = of(s)
  BY <1>5, <1>7
<1>9. q = [s \in 1 .. Len(p) |-> Output(p[s])]
  BY <1>5, <1>6, <1>8
<1> HIDE DEF p, q
<1>10. SM!Plan \in Seq(MergeUnits)
  BY <1>1, <1>8, FlattenType
<1>11. Output(FlattenSeq(p)) = FlattenSeq(q)
  BY <1>8, <1>9, OutputFlatten
<1>12. Output(SM!Plan) \in Seq(Point)
  BY <1>10, UnitPoints
<1>13. QED
  BY <1>1, <1>2, <1>10, <1>11, <1>12

-----------------------------------------------------------------------------
(* The first of a sequence, and the rest.                                  *)

LEMMA HeadAndTail ==
  ASSUME NEW S, NEW q \in Seq(S), q # <<>>
  PROVE  /\ Head(q) \in S /\ Tail(q) \in Seq(S) /\ Head(q) = q[1] /\ Len(q) \in Nat /\ Len(q) >= 1
         /\ Len(Tail(q)) = Len(q) - 1 /\ \A i \in 1 .. Len(Tail(q)) : Tail(q)[i] = q[i + 1]
         /\ q = <<Head(q)>> \o Tail(q)
<1>1. /\ Head(q) \in S /\ Tail(q) \in Seq(S) /\ Head(q) = q[1] /\ Len(q) \in Nat /\ Len(q) >= 1
      /\ Len(Tail(q)) = Len(q) - 1 /\ \A i \in 1 .. Len(Tail(q)) : Tail(q)[i] = q[i + 1]
  OBVIOUS
<1> DEFINE t == Tail(q)
           h == <<Head(q)>>
           r == h \o t
<1>2. h \in Seq(S) /\ t \in Seq(S) /\ Len(h) = 1 /\ h[1] = q[1]
  BY <1>1
<1>3. Len(t) = Len(q) - 1 /\ \A i \in 1 .. Len(t) : t[i] = q[i + 1]
  BY <1>1
<1> HIDE DEF h, t
<1>4. /\ r = [i \in 1 .. Len(h) + Len(t) |-> r[i]]
      /\ \A i \in 1 .. Len(h) : r[i] = h[i]
      /\ \A i \in Len(h) + 1 .. Len(h) + Len(t) : r[i] = t[i - Len(h)]
  BY ZenonT(40), <1>2, JoinFacts
<1>5. r = [i \in 1 .. Len(q) |-> r[i]]
  <2>1. Len(h) + Len(t) = Len(q)
    BY <1>1, <1>2, <1>3
  <2> HIDE DEF r
  <2>2. QED
    BY <1>4, <2>1
<1> HIDE DEF r
<1>6. \A i \in 1 .. Len(q) : r[i] = q[i]
  <2>1. SUFFICES ASSUME NEW i \in 1 .. Len(q) PROVE r[i] = q[i]
    OBVIOUS
  <2>2. CASE i = 1
    BY <1>2, <1>4, <2>2
  <2>3. CASE i # 1
    <3> DEFINE n == Len(q)
               k == i - 1
    <3>1. n \in Nat /\ i \in 1 .. n /\ Len(t) = n - 1 /\ Len(h) = 1
      BY <1>1, <1>2, <1>3
    <3> HIDE DEF n
    <3>2. k \in 1 .. Len(t) /\ k + 1 = i /\ i \in Len(h) + 1 .. Len(h) + Len(t) /\ i - Len(h) = k
      BY <2>3, <3>1
    <3> HIDE DEF k
    <3>3. r[i] = t[k] /\ t[k] = q[i]
      BY <1>3, <1>4, <3>2
    <3>4. QED
      BY <3>3
  <2>4. QED
    BY <2>2, <2>3
<1>7. q = [i \in 1 .. Len(q) |-> q[i]]
  OBVIOUS
<1>8. r = q
  BY <1>5, <1>6, <1>7
<1>9. QED
  BY <1>1, <1>8 DEF r, h, t

LEMMA FlattenHead ==
  ASSUME NEW S, NEW p \in Seq(Seq(S)), p # <<>>
  PROVE  FlattenSeq(p) = Head(p) \o FlattenSeq(Tail(p))
<1>1. Head(p) \in Seq(S) /\ Tail(p) \in Seq(Seq(S)) /\ p = <<Head(p)>> \o Tail(p)
  BY HeadAndTail
<1>2. <<Head(p)>> \in Seq(Seq(S)) /\ FlattenSeq(<<Head(p)>>) = Head(p)
  BY <1>1, FlattenOne
<1> DEFINE h == <<Head(p)>>
           t == Tail(p)
<1>3. h \in Seq(Seq(S)) /\ t \in Seq(Seq(S)) /\ p = h \o t /\ FlattenSeq(h) = Head(p)
  BY <1>1, <1>2
<1> HIDE DEF h, t
<1>4. FlattenSeq(h \o t) = FlattenSeq(h) \o FlattenSeq(t)
  BY <1>3, FlattenConcat
<1>5. QED
  BY <1>3, <1>4 DEF t

-----------------------------------------------------------------------------
(* The log.                                                                *)

Pair == [series : Nat, field : Fields, times : Seq(SM!Times)]
Frame == [kind : {"write", "delete", "torn", "bad"}, values : Seq(Pair)]

LEMMA ShardFacts ==
  ASSUME shard \in StoredShards
  PROVE  /\ SM!NumSeries \in Nat /\ \A s \in 1 .. SM!NumSeries : shard.series[s] \in Seq(FileKeys)
         /\ shard.log \in Seq(Seq(Frame))
<1> DEFINE n == Len(shard.series)
           B == [series : 1 .. n, field : Fields, times : Seq(0 .. LastTime)]
           K == {"write", "delete", "torn", "bad"}
           G == [kind : K, values : Seq(B)]
<1>1. shard.series \in Seq(Seq([Fields -> Seq(Seq(0 .. LastTime) \ {<<>>})]))
  BY PointsAssumption
<1>2. shard.log \in Seq(Seq(G))
  BY PointsAssumption
<1>3. SM!NumSeries = n /\ n \in Nat
  BY <1>1 DEF SM!NumSeries
<1>4. shard.series \in Seq(Seq(FileKeys))
  BY <1>1 DEF FileKeys, Block, SM!Times
<1>5. \A s \in 1 .. SM!NumSeries : shard.series[s] \in Seq(FileKeys)
  BY <1>3, <1>4, ElementOfSeq
<1> HIDE DEF n
<1>6. B \subseteq Pair
  BY <1>3 DEF Pair, SM!Times
<1> HIDE DEF B, K
<1>7. Seq(B) \subseteq Seq(Pair)
  BY <1>6, SeqMonotonic
<1>8. G \subseteq Frame
  BY <1>7 DEF Frame, K
<1> HIDE DEF G
<1>9. Seq(G) \subseteq Seq(Frame)
  BY <1>8, SeqMonotonic
<1>10. Seq(Seq(G)) \subseteq Seq(Seq(Frame))
  BY <1>9, SeqMonotonic
<1>11. QED
  BY <1>2, <1>3, <1>5, <1>10

LEMMA StreamsInType ==
  ASSUME NEW frames \in Seq(Frame), NEW s
  PROVE  SM!StreamsIn(frames, s) \in Seq(LogWrites)
<1> DEFINE parts == [i \in 1 .. Len(frames) |-> frames[i].values]
           pairs == FlattenSeq(parts)
           I == {i \in 1 .. Len(pairs) : pairs[i].series = s}
           own == Picked(pairs, I)
           q == [i \in 1 .. Len(own) |-> [field |-> own[i].field, times |-> own[i].times]]
<1>1. SM!StreamsIn(frames, s) = q
  <2>1. SM!FlattenSeq(parts) = pairs /\ \A x, J : SM!Picked(x, J) = Picked(x, J)
    BY SMFlatten, SMPicked
  <2> DEFINE list(o) == [i \in 1 .. Len(o) |-> [field |-> o[i].field, times |-> o[i].times]]
             pick(x) == SM!Picked(x, {i \in 1 .. Len(x) : x[i].series = s})
  <2>2. SM!StreamsIn(frames, s) = list(pick(SM!FlattenSeq(parts)))
    BY Zenon DEF SM!StreamsIn
  <2>3. pick(pairs) = own
    BY <2>1
  <2>4. list(own) = q
    BY Zenon
  <2> HIDE DEF list, pick, pairs, own, q
  <2>5. QED
    BY <2>1, <2>2, <2>3, <2>4
<1>2. \A i \in 1 .. Len(frames) : frames[i].values \in Seq(Pair)
  <2>1. \A i \in 1 .. Len(frames) : frames[i] \in Frame
    BY ElementOfSeq
  <2>2. QED
    BY <2>1 DEF Frame
<1>3. parts \in Seq(Seq(Pair))
  BY <1>2
<1> HIDE DEF parts
<1>4. pairs \in Seq(Pair)
  BY <1>3, FlattenType
<1> HIDE DEF pairs
<1>5. I \in SUBSET (1 .. Len(pairs))
  OBVIOUS
<1> HIDE DEF I
<1>6. own \in Seq(Pair) /\ Len(own) \in Nat
  BY <1>4, <1>5, PickedFacts
<1> HIDE DEF own
<1>7. \A i \in 1 .. Len(own) : own[i].field \in Fields /\ own[i].times \in Seq(SM!Times)
  <2>1. \A i \in 1 .. Len(own) : own[i] \in Pair
    BY <1>6, ElementOfSeq
  <2>2. QED
    BY <2>1 DEF Pair
<1>8. \A i \in 1 .. Len(own) : [field |-> own[i].field, times |-> own[i].times] \in LogWrites
  BY <1>7 DEF LogWrites
<1>9. q \in Seq(LogWrites)
  BY <1>6, <1>8
<1>10. QED
  BY <1>1, <1>9

\* The frames before the first that stops the reader.
Whole(segment) ==
  {i \in 1 .. Len(segment) : \A j \in 1 .. i : segment[j].kind \notin {"torn", "bad"}}

LEMMA ReadableFacts ==
  ASSUME NEW segment \in Seq(Frame)
  PROVE  /\ SM!Readable(segment) = SubSeq(segment, 1, SM!Cardinality(Whole(segment)))
         /\ SM!Readable(segment) \in Seq(Frame)
         /\ \A i \in 1 .. Len(segment) :
              /\ segment[i].kind = "bad"
              /\ \A j \in 1 .. i - 1 : segment[j].kind \in {"write", "delete"}
              => SM!FailsReading(segment)
<1> DEFINE n == Len(segment)
           stops == {i \in 1 .. n : SM!EndsReading(segment[i])}
           T == {n + 1} \cup stops
           m == SM!Min(T)
<1>1. n \in Nat /\ \A i \in 1 .. n : segment[i].kind \in {"write", "delete", "torn", "bad"}
  <2>1. \A i \in 1 .. n : segment[i] \in Frame
    BY ElementOfSeq
  <2>2. QED
    BY <2>1 DEF Frame
<1>2. SM!Readable(segment) = SubSeq(segment, 1, m - 1)
  BY DEF SM!Readable
<1>3. \A i \in 1 .. n : i \in stops <=> segment[i].kind \in {"torn", "bad"}
  BY DEF SM!EndsReading
<1>4. stops \in SUBSET (1 .. n)
  OBVIOUS
<1> HIDE DEF stops, n
<1>5. T \in SUBSET (0 .. n + 1) /\ T # {} /\ n + 1 \in Nat
  BY <1>1, <1>4
<1> HIDE DEF T
<1>6. m \in T /\ \A x \in T : m <= x
  BY <1>5, LeastOf
<1> HIDE DEF m
<1>7. m \in 1 .. n + 1 /\ (m # n + 1 => m \in stops) /\ (\A i \in stops : m <= i)
  BY <1>1, <1>4, <1>6 DEF T
<1>8. Whole(segment) = 1 .. m - 1
  <2>1. ASSUME NEW i \in 1 .. n, \A j \in 1 .. i : segment[j].kind \notin {"torn", "bad"}
        PROVE  i \in 1 .. m - 1
    <3>1. m \in 1 .. i => m \in 1 .. n /\ segment[m].kind \notin {"torn", "bad"}
      BY <1>1, <1>7, <2>1
    <3>2. ~(m \in 1 .. i)
      <4>1. SUFFICES ASSUME m \in 1 .. i PROVE FALSE
        OBVIOUS
      <4>2. m # n + 1
        BY <1>1, <4>1
      <4>3. m \in stops
        BY <1>7, <4>2
      <4>4. QED
        BY <1>3, <3>1, <4>1, <4>3
    <3>3. QED
      BY <1>1, <1>7, <3>2
  <2>2. ASSUME NEW i \in 1 .. m - 1
        PROVE  i \in 1 .. n /\ \A j \in 1 .. i : segment[j].kind \notin {"torn", "bad"}
    <3>1. i \in 1 .. n
      BY <1>1, <1>7
    <3>2. ASSUME NEW j \in 1 .. i PROVE segment[j].kind \notin {"torn", "bad"}
      <4>1. j \in 1 .. n /\ j < m /\ j \in Int /\ m \in Int
        BY <1>1, <1>7
      <4>2. j \notin stops
        BY <1>7, <4>1
      <4>3. QED
        BY <1>3, <4>1, <4>2
    <3>3. QED
      BY <3>1, <3>2
  <2>3. Whole(segment) = {i \in 1 .. n : \A j \in 1 .. i : segment[j].kind \notin {"torn", "bad"}}
    BY DEF Whole, n
  <2>4. QED
    BY <2>1, <2>2, <2>3
<1>9. SM!Cardinality(Whole(segment)) = m - 1
  <2>1. Cardinality(1 .. m - 1) = m - 1
    BY <1>1, <1>7, FS_Interval
  <2>2. QED
    BY <1>8, <2>1, SMCardinality
<1>10. SM!Readable(segment) \in Seq(Frame) /\ Len(SM!Readable(segment)) = m - 1
  BY <1>1, <1>2, <1>7, SubSeqProperties DEF n
<1>11. ASSUME NEW i \in 1 .. n, segment[i].kind = "bad",
              \A j \in 1 .. i - 1 : segment[j].kind \in {"write", "delete"}
       PROVE  SM!FailsReading(segment)
  <2>1. i \in stops
    BY <1>3, <1>11
  <2>2. m = i
    <3>1. m <= i /\ m \in 1 .. n + 1
      BY <1>7, <2>1
    <3>2. m # n + 1
      BY <1>1, <3>1
    <3>3. m \in stops /\ segment[m].kind \in {"torn", "bad"}
      BY <1>3, <1>4, <1>7, <3>2
    <3>4. ~(m \in 1 .. i - 1)
      BY <1>11, <3>3
    <3>5. QED
      BY <1>1, <3>1, <3>4
  <2>3. m - 1 < Len(segment) /\ segment[(m - 1) + 1].kind = "bad"
    <3>1. (m - 1) + 1 = i /\ m - 1 < n
      BY <1>1, <2>2
    <3>2. QED
      BY <1>11, <3>1 DEF n
  <2>4. QED
    BY <1>10, <2>3 DEF SM!FailsReading
<1>12. QED
  BY <1>2, <1>9, <1>10, <1>11 DEF n

-----------------------------------------------------------------------------
(* What the log holds of a series.                                         *)

LogOf(segs, s) == FlattenSeq([g \in 1 .. Len(segs) |-> SM!StreamsIn(SM!Readable(segs[g]), s)])

LEMMA LogOfNone ==
  ASSUME NEW s
  PROVE  LogOf(<<>>, s) = <<>>
<1>1. [g \in 1 .. Len(<<>>) |-> SM!StreamsIn(SM!Readable(<<>>[g]), s)] = <<>>
  OBVIOUS
<1>2. QED
  BY <1>1, FlattenEmpty DEF LogOf

LEMMA LogOfSegments ==
  ASSUME NEW segs \in Seq(Seq(Frame)), NEW s
  PROVE  /\ LogOf(segs, s) \in Seq(LogWrites)
         /\ segs # <<>> => /\ SM!StreamsIn(SM!Readable(Head(segs)), s) \in Seq(LogWrites)
                           /\ LogOf(segs, s) =
                                SM!StreamsIn(SM!Readable(Head(segs)), s) \o LogOf(Tail(segs), s)
<1> DEFINE of(segment) == SM!StreamsIn(SM!Readable(segment), s)
           p == [g \in 1 .. Len(segs) |-> of(segs[g])]
           t == Tail(segs)
           q == [g \in 1 .. Len(t) |-> of(t[g])]
<1>1. \A segment \in Seq(Frame) : of(segment) \in Seq(LogWrites)
  BY ReadableFacts, StreamsInType
<1>2. LogOf(segs, s) = FlattenSeq(p) /\ LogOf(t, s) = FlattenSeq(q)
  BY Zenon DEF LogOf
<1> HIDE DEF of
<1>3. Len(segs) \in Nat /\ \A g \in 1 .. Len(segs) : segs[g] \in Seq(Frame)
  BY ElementOfSeq
<1>4. p \in Seq(Seq(LogWrites)) /\ Len(p) = Len(segs) /\ \A g \in 1 .. Len(segs) : p[g] = of(segs[g])
  BY <1>1, <1>3
<1>5. LogOf(segs, s) \in Seq(LogWrites)
  BY <1>2, <1>4, FlattenType
<1>6. ASSUME segs # <<>>
      PROVE  /\ of(Head(segs)) \in Seq(LogWrites) /\ LogOf(segs, s) = of(Head(segs)) \o LogOf(t, s)
  <2>1. /\ Head(segs) \in Seq(Frame) /\ Head(segs) = segs[1] /\ Len(segs) >= 1
        /\ Len(t) = Len(segs) - 1 /\ \A g \in 1 .. Len(t) : t[g] = segs[g + 1]
    BY <1>6, HeadAndTail
  <2>2. p # <<>>
    BY <1>3, <1>4, <2>1
  <2> HIDE DEF p, t
  <2>3. /\ Head(p) = p[1] /\ Len(Tail(p)) = Len(p) - 1 /\ Tail(p) \in Seq(Seq(LogWrites))
        /\ \A g \in 1 .. Len(Tail(p)) : Tail(p)[g] = p[g + 1]
    BY <1>4, <2>2, HeadAndTail
  <2>4. Head(p) = of(Head(segs))
    BY <1>3, <1>4, <2>1, <2>3
  <2>5. Tail(p) = q
    <3> DEFINE r == Tail(p)
    <3>1. r = [g \in 1 .. Len(r) |-> r[g]] /\ Len(r) = Len(t)
      <4>1. r \in Seq(Seq(LogWrites)) /\ Len(r) = Len(t)
        BY <1>4, <2>1, <2>3
      <4> HIDE DEF r
      <4>2. QED
        BY <4>1
    <3>2. \A g \in 1 .. Len(t) : r[g] = of(t[g])
      <4>1. SUFFICES ASSUME NEW g \in 1 .. Len(t) PROVE r[g] = of(t[g])
        OBVIOUS
      <4>2. g + 1 \in 1 .. Len(segs)
        BY <1>3, <2>1
      <4>3. QED
        BY <1>4, <2>1, <2>3, <4>2
    <3> HIDE DEF r
    <3>3. r = q
      BY <3>1, <3>2
    <3>4. QED
      BY <3>3 DEF r
  <2>6. FlattenSeq(p) = Head(p) \o FlattenSeq(Tail(p))
    BY <1>4, <2>2, FlattenHead
  <2>7. of(Head(segs)) \in Seq(LogWrites)
    BY <1>1, <2>1
  <2>8. QED
    BY <1>2, <2>4, <2>5, <2>6, <2>7
<1>7. QED
  BY <1>5, <1>6 DEF of, t

LEMMA LoggedIs ==
  ASSUME NEW s, shard.log \in Seq(Seq(Frame))
  PROVE  SM!Logged(s) = LogOf(shard.log, s)
<1> DEFINE log == shard.log
           read(g) == SM!StreamsIn(SM!Readable(log[g]), s)
           held(g) == SM!StreamsIn(SubSeq(log[g], 1, SM!Cardinality(Whole(log[g]))), s)
<1>1. SM!Logged(s) = SM!FlattenSeq([g \in 1 .. Len(log) |-> held(g)])
  BY Zenon DEF SM!Logged, Whole
<1>2. \A g \in 1 .. Len(log) : held(g) = read(g)
  <2>1. SUFFICES ASSUME NEW g \in 1 .. Len(log) PROVE held(g) = read(g)
    OBVIOUS
  <2>2. log[g] \in Seq(Frame)
    BY ElementOfSeq
  <2>3. SM!Readable(log[g]) = SubSeq(log[g], 1, SM!Cardinality(Whole(log[g])))
    BY <2>2, ReadableFacts
  <2>4. QED
    BY <2>3
<1>3. LogOf(log, s) = FlattenSeq([g \in 1 .. Len(log) |-> read(g)])
  BY Zenon DEF LogOf
<1> HIDE DEF held, read, log
<1>4. [g \in 1 .. Len(log) |-> held(g)] = [g \in 1 .. Len(log) |-> read(g)]
  BY <1>2
<1>5. QED
  BY <1>1, <1>3, <1>4, SMFlatten DEF log

(* A malformed frame in reach stops the reader of its segment.             *)
LEMMA MalformedFails ==
  ASSUME shard.log \in Seq(Seq(Frame)), SM!Malformed
  PROVE  \E g \in 1 .. Len(shard.log) : SM!FailsReading(shard.log[g])
<1>1. PICK g \in 1 .. Len(shard.log) :
        \E i \in 1 .. Len(shard.log[g]) :
          /\ shard.log[g][i].kind = "bad"
          /\ \A j \in 1 .. i - 1 : shard.log[g][j].kind \in {"write", "delete"}
  BY DEF SM!Malformed
<1> DEFINE segment == shard.log[g]
<1>2. segment \in Seq(Frame)
  BY ElementOfSeq
<1> HIDE DEF segment
<1>3. PICK i \in 1 .. Len(segment) :
          /\ segment[i].kind = "bad"
          /\ \A j \in 1 .. i - 1 : segment[j].kind \in {"write", "delete"}
  BY <1>1 DEF segment
<1>4. SM!FailsReading(segment)
  BY <1>2, <1>3, ReadableFacts
<1>5. QED
  BY <1>4 DEF segment

-----------------------------------------------------------------------------
(* What is expected depends on the shard and the query alone.              *)

WrittenTo(stored, log) ==
  (UNION {UNION {{[field |-> f, ts |-> stored[fi][f][b][i], src |-> fi, at |-> <<b, i>>] :
                    i \in 1 .. Len(stored[fi][f][b])} :
                  b \in 1 .. Len(stored[fi][f])} :
          fi \in 1 .. Len(stored), f \in Fields})
  \cup
  UNION {{[field |-> log[k].field, ts |-> log[k].times[i],
           src |-> Len(stored) + k, at |-> <<0, i>>] : i \in 1 .. Len(log[k].times)} :
         k \in 1 .. Len(log)}

LoggedIn(log, s) ==
  SM!FlattenSeq([g \in 1 .. Len(log) |->
    SM!StreamsIn(SubSeq(log[g], 1, SM!Cardinality(Whole(log[g]))), s)])

AskedBy(q, s, ts) ==
  /\ ts \in q.start .. q.end
  /\ s > q.cursor.series \/ (s = q.cursor.series /\ ts > q.cursor.ts)

ExpectedOf(sh, q) ==
  SM!FlattenSeq([s \in 1 .. Len(sh.series) |->
    LET written == WrittenTo(sh.series[s], LoggedIn(sh.log, s))
        times == SM!Ascending({v.ts : v \in {x \in written : AskedBy(q, s, x.ts)}}, <)
    IN  [i \in 1 .. Len(times) |-> PointOf(s, times[i], {v \in written : v.ts = times[i]})]])

LEMMA ExpectedIs ==
  SM!Expected = ExpectedOf(shard, query)
<1>1. SM!NumSeries = Len(shard.series)
  BY DEF SM!NumSeries
<1>2. \A s : SM!Logged(s) = LoggedIn(shard.log, s)
  BY Zenon DEF SM!Logged, LoggedIn, Whole
<1>3. \A s : SM!Written(s) = WrittenTo(shard.series[s], LoggedIn(shard.log, s))
  <2>1. \A s : SM!Written(s) = WrittenTo(shard.series[s], SM!Logged(s))
    BY DEF SM!Written, WrittenTo
  <2>2. QED
    BY <1>2, <2>1
<1>4. \A s, ts : SM!Asked(s, ts) <=> AskedBy(query, s, ts)
  BY Zenon DEF SM!Asked, AskedBy
<1>5. \A s, ts : SM!ExpectedPoint(s, ts) = PointOf(s, ts, {v \in SM!Written(s) : v.ts = ts})
  BY Zenon DEF SM!ExpectedPoint, PointOf
<1> DEFINE H(s) == WrittenTo(shard.series[s], LoggedIn(shard.log, s))
           T(s) == {v.ts : v \in {x \in H(s) : AskedBy(query, s, x.ts)}}
           U(s) == {v.ts : v \in {x \in SM!Written(s) : SM!Asked(s, x.ts)}}
           asc(I) == SM!Ascending(I, <)
           pt(s, ts) == PointOf(s, ts, {v \in H(s) : v.ts = ts})
           mine(s) == [i \in 1 .. Len(asc(T(s))) |-> pt(s, asc(T(s))[i])]
           spec(s) == [i \in 1 .. Len(asc(U(s))) |-> SM!ExpectedPoint(s, asc(U(s))[i])]
           n == Len(shard.series)
<1>6. \A s : T(s) = U(s)
  <2> HIDE DEF H
  <2>1. \A s : SM!Written(s) = H(s)
    BY <1>3 DEF H
  <2>2. QED
    BY <1>4, <2>1
<1>7. \A s, ts : SM!ExpectedPoint(s, ts) = pt(s, ts)
  BY <1>3, <1>5
<1>8. SM!Expected = SM!FlattenSeq([s \in 1 .. SM!NumSeries |-> spec(s)])
  BY Zenon DEF SM!Expected
<1>9. ExpectedOf(shard, query) = SM!FlattenSeq([s \in 1 .. n |-> mine(s)])
  BY Zenon DEF ExpectedOf
<1> HIDE DEF T, U, pt, asc, H
<1>10. \A s : spec(s) = mine(s)
  BY <1>6, <1>7
<1> HIDE DEF spec, mine
<1>11. [s \in 1 .. SM!NumSeries |-> spec(s)] = [s \in 1 .. n |-> mine(s)]
  BY <1>1, <1>10
<1>12. QED
  BY <1>8, <1>9, <1>11

LEMMA ExpectedNext ==
  SM!Expected' = ExpectedOf(shard', query')
<1>1. (SM!Expected = ExpectedOf(shard, query))'
  BY ExpectedIs, PTL
<1>2. QED
  BY <1>1

LEMMA ExpectedStays ==
  ASSUME shard' = shard, query' = query
  PROVE  SM!Expected' = SM!Expected
  BY ExpectedIs, ExpectedNext

-----------------------------------------------------------------------------
(* The invariant: what is merged and what is to come are what is expected. *)

ToCome(us, p) ==
  IF us = <<>> THEN <<>>
  ELSE Points(Head(us).series, Left(Head(us), p)) \o Output(Tail(us))

\* While a shard is indexed, what was read of the log and what is left are the log.
Indexing(sh, segs, w, out) ==
  /\ out = <<>> /\ segs \in Seq(Seq(Frame))
  /\ \A s \in 1 .. Len(sh.series) :
       w[s] \in Seq(LogWrites) /\ w[s] \o LogOf(segs, s) = LogOf(sh.log, s)
  /\ (\E g \in 1 .. Len(sh.log) : SM!FailsReading(sh.log[g])) =>
       \E g \in 1 .. Len(segs) : SM!FailsReading(segs[g])

Emitting(us, p, out, all) ==
  /\ us \in Seq(MergeUnits)
  /\ us # <<>> => IsPos(Head(us), p)
  /\ out \in Seq(Point)
  /\ out \o ToCome(us, p) = all

MergeInv ==
  /\ shard \in StoredShards /\ query \in Queries
  /\ stage \in {"index", "merge", "done", "failed"}
  /\ stage = "index" => Indexing(shard, segments, wal, merged)
  /\ stage \in {"merge", "done"} => ~ SM!Malformed
  /\ stage = "merge" => Emitting(units, pos, merged, SM!Expected)
  /\ stage = "done" => merged \in Seq(Point) /\ merged = SM!Expected

LEMMA UntouchedFacts ==
  ASSUME NEW us \in Seq(MergeUnits), us # <<>>
  PROVE  /\ SM!AtStart(us) = Untouched(Head(us)) /\ IsUnit(Head(us))
         /\ IsPos(Head(us), SM!AtStart(us)) /\ Tail(us) \in Seq(MergeUnits)
<1> DEFINE u == Head(us)
<1>1. u \in MergeUnits /\ u = us[1] /\ Tail(us) \in Seq(MergeUnits)
  BY HeadAndTail
<1>2. SM!AtStart(us) = Untouched(u)
  BY <1>1 DEF SM!AtStart, Untouched
<1> HIDE DEF u
<1>3. IsUnit(u)
  BY <1>1 DEF MergeUnits
<1>4. \A i \in 1 .. Len(u.streams) : Len(u.streams[i].vals) \in Nat
  BY <1>3, UnitFacts
<1>5. IsPos(u, Untouched(u))
  BY <1>4 DEF IsPos, Untouched
<1>6. QED
  BY <1>1, <1>2, <1>3, <1>5 DEF u

LEMMA LeftPoints ==
  ASSUME NEW u, NEW p, u.series \in Nat
  PROVE  Points(u.series, Left(u, p)) \in Seq(Point)
<1> DEFINE H == Left(u, p)
<1>1. H \in SUBSET FullValue
  BY DEF Left
<1> HIDE DEF H
<1>2. Points(u.series, H) \in Seq(Point)
  BY <1>1, PointsType
<1>3. QED
  BY <1>2 DEF H

\* Before any of it is consumed, the plan is all to come.
LEMMA ToComeAtStart ==
  ASSUME NEW us \in Seq(MergeUnits)
  PROVE  ToCome(us, SM!AtStart(us)) = Output(us)
<1>1. CASE us = <<>>
  BY <1>1, OutputNone DEF ToCome
<1>2. CASE us # <<>>
  <2> DEFINE u == Head(us)
             t == Tail(us)
             one == <<u>>
             pts == Points(u.series, Held(u))
  <2>1. u \in MergeUnits /\ t \in Seq(MergeUnits) /\ us = one \o t
    BY <1>2, HeadAndTail
  <2>2. SM!AtStart(us) = Untouched(u)
    BY <1>2, UntouchedFacts
  <2>3. ToCome(us, SM!AtStart(us)) = pts \o Output(t)
    BY <1>2, <2>2 DEF ToCome, Held
  <2>4. u.series \in Nat
    BY <2>1 DEF MergeUnits
  <2>5. pts \in Seq(Point)
    BY <2>4, LeftPoints DEF Held
  <2> HIDE DEF pts
  <2>6. Output(one) = pts
    <3>1. Output(one) = FlattenSeq([i \in 1 .. Len(one) |-> Points(one[i].series, Held(one[i]))])
      BY Zenon DEF Output
    <3>2. [i \in 1 .. Len(one) |-> Points(one[i].series, Held(one[i]))] = <<pts>>
      BY DEF pts
    <3>3. QED
      BY <2>5, <3>1, <3>2, FlattenOne
  <2>7. one \in Seq(MergeUnits)
    BY <2>1
  <2> HIDE DEF one, t, u
  <2>8. Output(one \o t) = Output(one) \o Output(t)
    BY <2>1, <2>7, OutputJoin
  <2>9. QED
    BY <2>1, <2>3, <2>6, <2>8
<1>3. QED
  BY <1>1, <1>2

-----------------------------------------------------------------------------
(* The steps.                                                              *)

LEMMA MergeInitially ==
  ASSUME SM!Init
  PROVE  MergeInv
<1>1. /\ shard \in StoredShards /\ query \in Queries /\ stage = "index" /\ merged = <<>>
      /\ segments = shard.log /\ wal = [s \in 1 .. SM!NumSeries |-> <<>>]
  BY DEF SM!Init
<1>2. shard.log \in Seq(Seq(Frame)) /\ SM!NumSeries = Len(shard.series)
  BY <1>1, ShardFacts DEF SM!NumSeries
<1>3. ASSUME NEW s \in 1 .. Len(shard.series)
      PROVE  wal[s] \in Seq(LogWrites) /\ wal[s] \o LogOf(segments, s) = LogOf(shard.log, s)
  <2>1. wal[s] = <<>> /\ <<>> \in Seq(LogWrites)
    BY <1>1, <1>2
  <2> DEFINE l == LogOf(shard.log, s)
  <2>2. l \in Seq(LogWrites)
    BY <1>2, LogOfSegments
  <2> HIDE DEF l
  <2>3. <<>> \o l = l
    BY <2>2
  <2>4. QED
    BY <1>1, <2>1, <2>3 DEF l
<1>4. Indexing(shard, segments, wal, merged)
  BY <1>1, <1>2, <1>3 DEF Indexing
<1>5. QED
  BY <1>1, <1>4 DEF MergeInv

LEMMA ReadSegmentKeeps ==
  ASSUME MergeInv, SM!ReadSegment
  PROVE  MergeInv'
<1>1. /\ stage = "index" /\ segments # <<>> /\ ~ SM!FailsReading(Head(segments))
      /\ wal' = [s \in 1 .. SM!NumSeries |->
                   wal[s] \o SM!StreamsIn(SM!Readable(Head(segments)), s)]
      /\ segments' = Tail(segments)
      /\ shard' = shard /\ query' = query /\ stage' = stage /\ merged' = merged
  BY DEF SM!ReadSegment
<1>2. shard \in StoredShards /\ query \in Queries /\ Indexing(shard, segments, wal, merged)
  BY <1>1 DEF MergeInv
<1>3. SM!NumSeries = Len(shard.series) /\ shard.log \in Seq(Seq(Frame))
  BY <1>2, ShardFacts DEF SM!NumSeries
<1>4. merged = <<>> /\ segments \in Seq(Seq(Frame))
  BY <1>2 DEF Indexing
<1> DEFINE t == Tail(segments)
<1>5. /\ t \in Seq(Seq(Frame)) /\ Len(segments) \in Nat /\ Len(t) = Len(segments) - 1
      /\ Head(segments) = segments[1] /\ \A g \in 1 .. Len(t) : t[g] = segments[g + 1]
  BY <1>1, <1>4, HeadAndTail
<1>6. ASSUME NEW s \in 1 .. Len(shard.series)
      PROVE  wal'[s] \in Seq(LogWrites) /\ wal'[s] \o LogOf(t, s) = LogOf(shard.log, s)
  <2> DEFINE new == SM!StreamsIn(SM!Readable(Head(segments)), s)
             rest == LogOf(t, s)
             old == wal[s]
  <2>1. old \in Seq(LogWrites) /\ old \o LogOf(segments, s) = LogOf(shard.log, s)
    BY <1>2 DEF Indexing
  <2>2. new \in Seq(LogWrites) /\ LogOf(segments, s) = new \o rest
    BY <1>1, <1>4, LogOfSegments
  <2>3. rest \in Seq(LogWrites)
    BY <1>5, LogOfSegments
  <2>4. wal'[s] = old \o new
    BY <1>1, <1>3
  <2> HIDE DEF new, rest, old
  <2>5. Regroups(old, new, rest)
    BY <2>1, <2>2, <2>3, Associative
  <2>6. old \o (new \o rest) = (old \o new) \o rest /\ old \o new \in Seq(LogWrites)
    BY <2>1, <2>2, <2>5 DEF Regroups
  <2>7. QED
    BY <2>1, <2>2, <2>4, <2>6 DEF rest
<1>7. ASSUME \E g \in 1 .. Len(segments) : SM!FailsReading(segments[g])
      PROVE  \E g \in 1 .. Len(t) : SM!FailsReading(t[g])
  <2>1. PICK g \in 1 .. Len(segments) : SM!FailsReading(segments[g])
    BY <1>7
  <2>2. g # 1
    BY <1>1, <1>5, <2>1
  <2> DEFINE n == Len(segments)
             m == Len(t)
  <2>3. n \in Nat /\ m = n - 1 /\ g \in 1 .. n
    BY <1>5
  <2> HIDE DEF n, m
  <2>4. g - 1 \in 1 .. m /\ (g - 1) + 1 = g
    BY <2>2, <2>3
  <2>5. t[g - 1] = segments[g]
    BY <1>5, <2>4 DEF m
  <2>6. QED
    BY <2>1, <2>4, <2>5 DEF m
<1>8. Indexing(shard, t, wal', merged)
  BY <1>2, <1>4, <1>5, <1>6, <1>7 DEF Indexing
<1>9. Indexing(shard', segments', wal', merged')
  BY <1>1, <1>8
<1>10. QED
  BY <1>1, <1>2, <1>9 DEF MergeInv

LEMMA FailedKeeps ==
  ASSUME MergeInv, SM!CorruptSegment \/ SM!CursorNotFound
  PROVE  MergeInv'
<1>1. shard' = shard /\ query' = query /\ stage' = "failed"
  BY DEF SM!CorruptSegment, SM!CursorNotFound
<1>2. QED
  BY <1>1 DEF MergeInv

LEMMA MakePlanKeeps ==
  ASSUME MergeInv, SM!MakePlan
  PROVE  MergeInv'
<1>1. /\ stage = "index" /\ segments = <<>> /\ units' = SM!Plan /\ pos' = SM!AtStart(SM!Plan)
      /\ stage' = "merge" /\ shard' = shard /\ query' = query /\ merged' = merged
  BY DEF SM!MakePlan, SM!Indexed
<1>2. shard \in StoredShards /\ query \in Queries /\ Indexing(shard, segments, wal, merged)
  BY <1>1 DEF MergeInv
<1>3. SM!NumSeries \in Nat /\ SM!NumSeries = Len(shard.series) /\ shard.log \in Seq(Seq(Frame))
      /\ \A s \in 1 .. SM!NumSeries : shard.series[s] \in Seq(FileKeys)
  BY <1>2, ShardFacts DEF SM!NumSeries
<1>4. IsIndexed
  <2>1. SUFFICES ASSUME NEW s \in 1 .. SM!NumSeries
                 PROVE  IsKnown(SM!Series(s)) /\ wal[s] = SM!Logged(s)
    BY DEF IsIndexed
  <2> DEFINE w == wal[s]
             l == LogOf(shard.log, s)
  <2>2. w \in Seq(LogWrites) /\ w \o LogOf(<<>>, s) = l
    BY <1>1, <1>2, <1>3 DEF Indexing
  <2>3. l = SM!Logged(s) /\ LogOf(<<>>, s) = <<>>
    BY <1>3, LoggedIs, LogOfNone
  <2> HIDE DEF w, l
  <2>4. w \o <<>> = w
    BY <2>2
  <2>5. w = SM!Logged(s)
    BY <2>2, <2>3, <2>4
  <2>6. IsKnown(SM!Series(s))
    BY <1>3, <2>2 DEF IsKnown, SM!Series, w
  <2>7. QED
    BY <2>5, <2>6 DEF w
<1>5. SM!Plan \in Seq(MergeUnits) /\ Output(SM!Plan) = SM!Expected /\ SM!Expected \in Seq(Point)
  BY <1>2, <1>3, <1>4, PlannedPoints
<1>6. ~ SM!Malformed
  <2>1. ~ \E g \in 1 .. Len(segments) : SM!FailsReading(segments[g])
    BY <1>1
  <2>2. QED
    BY <1>2, <1>3, <2>1, MalformedFails DEF Indexing
<1>7. ~ SM!Malformed'
  BY <1>1, <1>6 DEF SM!Malformed
<1>8. SM!Expected' = SM!Expected
  BY <1>1, ExpectedStays
<1> DEFINE us == SM!Plan
           p == SM!AtStart(us)
           all == SM!Expected
<1>9. ToCome(us, p) = all
  BY <1>5, ToComeAtStart
<1>10. us # <<>> => IsPos(Head(us), p)
  BY <1>5, UntouchedFacts
<1>11. merged = <<>>
  BY <1>2 DEF Indexing
<1> HIDE DEF us, p, all
<1>12. all \in Seq(Point) /\ us \in Seq(MergeUnits)
  BY <1>5 DEF all, us
<1>13. <<>> \o all = all /\ <<>> \in Seq(Point)
  BY <1>12
<1>14. Emitting(us, p, merged, all)
  BY <1>9, <1>10, <1>11, <1>12, <1>13 DEF Emitting
<1>15. Emitting(units', pos', merged', SM!Expected')
  BY <1>1, <1>8, <1>14 DEF us, p, all
<1>16. QED
  BY <1>1, <1>2, <1>7, <1>15 DEF MergeInv

LEMMA EmitKeeps ==
  ASSUME MergeInv, SM!EmitPoint
  PROVE  MergeInv'
<1>1. stage = "merge" /\ units # <<>> /\ stage' = stage /\ shard' = shard /\ query' = query
  BY DEF SM!EmitPoint
<1>2. /\ shard \in StoredShards /\ query \in Queries /\ ~ SM!Malformed
      /\ Emitting(units, pos, merged, SM!Expected)
  BY <1>1 DEF MergeInv
<1>3. ~ SM!Malformed' /\ SM!Expected' = SM!Expected
  BY <1>1, <1>2, ExpectedStays DEF SM!Malformed
<1> DEFINE u == Head(units)
           rest == Output(Tail(units))
           all == SM!Expected
           old == Points(u.series, Left(u, pos))
           new == Points(u.series, Left(u, pos'))
<1>4. /\ units \in Seq(MergeUnits) /\ IsPos(u, pos) /\ merged \in Seq(Point)
      /\ merged \o (old \o rest) = all
  BY <1>1, <1>2 DEF Emitting, ToCome
<1>5. IsUnit(u) /\ Tail(units) \in Seq(MergeUnits)
  BY <1>1, <1>4, UntouchedFacts
<1>6. /\ IsPos(u, pos') /\ units' = units
      /\ \E pt \in Point : merged' = Append(merged, pt) /\ old = <<pt>> \o new
  BY <1>4, <1>5, EmitFacts
<1>7. PICK pt \in Point : merged' = Append(merged, pt) /\ old = <<pt>> \o new
  BY <1>6
<1>8. new \in Seq(Point) /\ rest \in Seq(Point)
  <2>1. u.series \in Nat
    BY <1>5 DEF IsUnit
  <2>2. QED
    BY <1>5, <2>1, LeftPoints, UnitPoints
<1>9. ToCome(units, pos') = new \o rest
  BY <1>1 DEF ToCome
<1> HIDE DEF u, rest, all, old, new
<1> DEFINE one == <<pt>>
<1>10. one \in Seq(Point) /\ merged' = merged \o one
  BY <1>4, <1>7
<1>11. merged' \in Seq(Point)
  BY <1>4, <1>7
<1> HIDE DEF one
<1>12. Regroups(one, new, rest) /\ new \o rest \in Seq(Point)
  BY <1>8, <1>10, Associative
<1> DEFINE tail == new \o rest
<1>13. old \o rest = one \o tail
  BY <1>7, <1>12 DEF Regroups, one
<1>14. tail \in Seq(Point)
  BY <1>12
<1> HIDE DEF tail
<1>15. Regroups(merged, one, tail)
  BY <1>4, <1>10, <1>14, Associative
<1>16. merged' \o tail = all
  BY <1>4, <1>10, <1>13, <1>15 DEF Regroups
<1>17. Emitting(units, pos', merged', all)
  BY <1>4, <1>6, <1>9, <1>11, <1>16 DEF Emitting, tail, u
<1>18. Emitting(units', pos', merged', SM!Expected')
  BY <1>3, <1>6, <1>17 DEF all
<1>19. QED
  BY SMTT(30), <1>1, <1>2, <1>3, <1>18 DEF MergeInv

LEMMA NextUnitKeeps ==
  ASSUME MergeInv, SM!NextUnit
  PROVE  MergeInv'
<1>1. /\ stage = "merge" /\ units # <<>> /\ SM!Open = {}
      /\ units' = Tail(units) /\ pos' = SM!AtStart(Tail(units))
      /\ stage' = stage /\ shard' = shard /\ query' = query /\ merged' = merged
  BY DEF SM!NextUnit
<1>2. /\ shard \in StoredShards /\ query \in Queries /\ ~ SM!Malformed
      /\ Emitting(units, pos, merged, SM!Expected)
  BY <1>1 DEF MergeInv
<1>3. ~ SM!Malformed' /\ SM!Expected' = SM!Expected
  BY <1>1, <1>2, ExpectedStays DEF SM!Malformed
<1> DEFINE u == Head(units)
           t == Tail(units)
           p == SM!AtStart(t)
           rest == Output(t)
           old == Points(u.series, Left(u, pos))
           all == SM!Expected
<1>4. /\ units \in Seq(MergeUnits) /\ IsPos(u, pos) /\ merged \in Seq(Point)
      /\ merged \o (old \o rest) = all
  BY <1>1, <1>2 DEF Emitting, ToCome
<1>5. t \in Seq(MergeUnits) /\ IsUnit(u)
  BY <1>1, <1>4, UntouchedFacts
<1>6. Left(u, pos) = {}
  <2>1. \A i \in 1 .. Len(u.streams) : ~ (pos[i] < Len(u.streams[i].vals))
    BY <1>1 DEF SM!Open, SM!Streams
  <2>2. \A i \in 1 .. Len(u.streams) : pos[i] \in Nat
    BY <1>4 DEF IsPos
  <2>3. \A i \in 1 .. Len(u.streams) : Len(u.streams[i].vals) \in Nat
    BY <1>5, UnitFacts
  <2> HIDE DEF u
  <2>4. \A i \in 1 .. Len(u.streams) : pos[i] + 1 .. Len(u.streams[i].vals) = {}
    BY <2>1, <2>2, <2>3
  <2>5. QED
    BY <2>4 DEF Left
<1>7. old = <<>>
  BY <1>6, PointsNone
<1>8. ToCome(t, p) = rest
  BY <1>5, ToComeAtStart
<1>9. t # <<>> => IsPos(Head(t), p)
  BY <1>5, UntouchedFacts
<1>10. rest \in Seq(Point)
  BY <1>5, UnitPoints
<1> HIDE DEF u, t, p, rest, old, all
<1>11. old \o rest = rest
  BY <1>7, <1>10
<1>12. Emitting(t, p, merged, all)
  BY <1>4, <1>5, <1>8, <1>9, <1>11 DEF Emitting
<1>13. Emitting(units', pos', merged', SM!Expected')
  BY <1>1, <1>3, <1>12 DEF t, p, all
<1>14. QED
  BY <1>1, <1>2, <1>3, <1>13 DEF MergeInv

LEMMA FinishKeeps ==
  ASSUME MergeInv, SM!Finish
  PROVE  MergeInv'
<1>1. /\ stage = "merge" /\ units = <<>> /\ stage' = "done"
      /\ shard' = shard /\ query' = query /\ merged' = merged
  BY DEF SM!Finish
<1>2. /\ shard \in StoredShards /\ query \in Queries /\ ~ SM!Malformed
      /\ Emitting(units, pos, merged, SM!Expected)
  BY <1>1 DEF MergeInv
<1>3. ~ SM!Malformed' /\ SM!Expected' = SM!Expected
  BY <1>1, <1>2, ExpectedStays DEF SM!Malformed
<1>4. merged \in Seq(Point) /\ merged \o <<>> = SM!Expected
  BY <1>1, <1>2 DEF Emitting, ToCome
<1>5. merged = SM!Expected
  BY <1>4
<1>6. QED
  BY <1>1, <1>2, <1>3, <1>4, <1>5 DEF MergeInv

LEMMA MergeStutters ==
  ASSUME MergeInv, UNCHANGED SM!vars
  PROVE  MergeInv'
<1>1. UNCHANGED <<shard, query, windows, stage, segments, wal, units, pos, merged>>
  BY DEF SM!vars
<1>2. SM!Malformed' <=> SM!Malformed
  BY <1>1 DEF SM!Malformed
<1>3. SM!Expected' = SM!Expected
  BY <1>1, ExpectedStays
<1>4. QED
  BY <1>1, <1>2, <1>3 DEF MergeInv

\* What was merged is where what is expected begins.
LEMMA MergedIsExact ==
  ASSUME MergeInv
  PROVE  SM!OutputExact
<1> DEFINE all == SM!Expected
<1>1. CASE stage = "merge"
  <2> DEFINE u == Head(units)
             come == ToCome(units, pos)
  <2>1. /\ units \in Seq(MergeUnits) /\ merged \in Seq(Point) /\ merged \o come = all
    BY <1>1 DEF MergeInv, Emitting
  <2>2. come \in Seq(Point)
    <3>1. CASE units = <<>>
      BY <3>1 DEF ToCome
    <3>2. CASE units # <<>>
      <4>1. IsUnit(u) /\ Tail(units) \in Seq(MergeUnits)
        BY <2>1, <3>2, UntouchedFacts
      <4>2. u.series \in Nat
        BY <4>1 DEF IsUnit
      <4> DEFINE a == Points(u.series, Left(u, pos))
                 b == Output(Tail(units))
      <4>3. a \in Seq(Point) /\ b \in Seq(Point)
        BY <4>1, <4>2, LeftPoints, UnitPoints
      <4>4. come = a \o b
        BY <3>2 DEF ToCome
      <4> HIDE DEF a, b, come
      <4>5. QED
        BY <4>3, <4>4
    <3>3. QED
      BY <3>1, <3>2
  <2> HIDE DEF come, all
  <2>3. SM!IsPrefix(merged, all)
    <3>1. /\ all \in Seq(Point) /\ Len(merged) \in Nat /\ Len(all) = Len(merged) + Len(come)
          /\ Len(come) \in Nat /\ \A i \in 1 .. Len(merged) : all[i] = merged[i]
      BY <2>1, <2>2, JoinFacts
    <3>2. Len(merged) <= Len(all) /\ SubSeq(merged, 1, Len(merged)) = SubSeq(all, 1, Len(merged))
      BY <2>1, <3>1
    <3>3. QED
      BY <3>2 DEF SM!IsPrefix
  <2>4. QED
    BY <1>1, <2>3 DEF SM!OutputExact, all
<1>2. CASE stage = "done"
  <2>1. merged = all /\ merged \in Seq(Point) /\ ~ SM!Malformed
    BY <1>2 DEF MergeInv
  <2>2. Len(merged) \in Nat
    BY <2>1
  <2>3. SM!IsPrefix(merged, merged)
    BY <2>2 DEF SM!IsPrefix
  <2> HIDE DEF all
  <2>4. QED
    BY <1>2, <2>1, <2>3 DEF SM!OutputExact, all
<1>3. CASE stage \notin {"merge", "done"}
  BY <1>3 DEF SM!OutputExact
<1>4. QED
  BY <1>1, <1>2, <1>3

(* In every reachable state what of the log was read and what is left are  *)
(* the log, and the points given and those still to come are the expected. *)
THEOREM MergeInvariant == MergeSpec => []MergeInv
<1>1. SM!Init => MergeInv
  BY MergeInitially
<1>2. MergeInv /\ [SM!Next]_(SM!vars) => MergeInv'
  BY ReadSegmentKeeps, FailedKeeps, MakePlanKeeps, EmitKeeps, NextUnitKeeps, FinishKeeps,
     MergeStutters DEF SM!Next
<1>3. QED
  BY <1>1, <1>2, PTL DEF MergeSpec, SM!Spec

(* The extraction of a shard gives every (series, timestamp) asked for     *)
(* once, in key and time order, each field with the value written last,    *)
(* for every shard, range, cursor and number of windows.                   *)
THEOREM PointsExact == MergeSpec => []MergeExact
<1>1. MergeInv => MergeExact
  BY MergedIsExact DEF MergeExact
<1>2. QED
  BY <1>1, MergeInvariant, PTL
=============================================================================
