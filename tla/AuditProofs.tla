----------------------------- MODULE AuditProofs -----------------------------
(***************************************************************************)
(* Proofs about ChunkAudit, for every shard and every number of restarts.  *)
(***************************************************************************)
EXTENDS ChunkAudit, SequenceTheorems, FiniteSetTheorems, WellFoundedInduction, TLAPS

-----------------------------------------------------------------------------
(* Induction over the natural numbers, in a form without a parameter.      *)

(* A non-empty set of natural numbers has a least element.                 *)
LEMMA LeastElement ==
  ASSUME NEW T \in SUBSET Nat, T # {}
  PROVE  \E x \in T : \A y \in T : x <= y
<1>1. PICK x \in T : \A y \in T : ~ (<<y, x>> \in OpToRel(<, Nat))
  BY NatLessThanWellFounded, WFMin
<1>2. \A y \in T : ~ (y < x)
  BY <1>1 DEF OpToRel
<1>3. QED
  BY <1>2

(* Induction over the natural numbers.                                     *)
LEMMA SetInduction ==
  ASSUME NEW T, 0 \in T, \A n \in T \cap Nat : n + 1 \in T
  PROVE  Nat \subseteq T
<1>1. SUFFICES ASSUME Nat \ T # {} PROVE FALSE
  OBVIOUS
<1>2. PICK x \in Nat \ T : \A y \in Nat \ T : x <= y
  BY <1>1, LeastElement
<1>3. x - 1 \in T \cap Nat /\ (x - 1) + 1 = x
  BY <1>2
<1>4. (x - 1) + 1 \in T
  BY <1>3
<1>5. QED
  BY <1>2, <1>3, <1>4

(* A bounded non-empty set of natural numbers has a greatest element.      *)
LEMMA MaxOf ==
  ASSUME NEW n \in Nat, NEW S \in SUBSET (0 .. n), S # {}
  PROVE  Max(S) \in S /\ \A y \in S : y <= Max(S)
<1> DEFINE T == {m \in Nat : \A y \in S : y <= m}
<1>1. n \in T /\ T \in SUBSET Nat
  OBVIOUS
<1>2. PICK m \in T : \A k \in T : m <= k
  BY <1>1, LeastElement
<1>3. m \in S
  <2>1. SUFFICES ASSUME m \notin S PROVE FALSE
    OBVIOUS
  <2>2. \A y \in S : y \in Nat /\ y < m
    BY <1>2, <2>1
  <2>3. m - 1 \in T
    <3>1. m # 0
      <4>1. PICK y : y \in S
        OBVIOUS
      <4>2. y \in Nat /\ y < m
        BY <2>2, <4>1
      <4>3. QED
        BY <4>2
    <3>2. \A y \in S : y <= m - 1
      BY <2>2
    <3>3. QED
      BY <3>1, <3>2
  <2>4. QED
    BY <1>2, <2>3
<1>4. \A y \in S : m >= y
  BY <1>2
<1>5. QED
  BY <1>3, <1>4 DEF Max

-----------------------------------------------------------------------------
(* Sums, by the number of elements of a union of disjoint sets.            *)

LEMMA ImageFinite ==
  ASSUME NEW S, IsFiniteSet(S), NEW g
  PROVE  IsFiniteSet({g[x] : x \in S})
<1> DEFINE f == [x \in S |-> g[x]]
           T == {g[x] : x \in S}
<1>1. f \in Surjection(S, T)
  BY DEF Surjection
<1>2. QED
  BY <1>1, FS_Surjection

(* A sum over a set grows by what is added to the set.                     *)
LEMMA SumProperties ==
  ASSUME NEW D, IsFiniteSet(D), NEW f \in [D -> Nat]
  PROVE  /\ SumOver(f, {}) = 0
         /\ \A S \in SUBSET D : SumOver(f, S) \in Nat
         /\ \A S \in SUBSET D : \A x \in D \ S :
              SumOver(f, S \cup {x}) = SumOver(f, S) + f[x]
<1> DEFINE part == [x \in D |-> {x} \X (1 .. f[x])]
           Parts(S) == UNION {part[x] : x \in S}
<1>1. ASSUME NEW x \in D PROVE IsFiniteSet(part[x]) /\ Cardinality(part[x]) = f[x]
  <2>1. /\ IsFiniteSet({x}) /\ Cardinality({x}) = 1
        /\ IsFiniteSet(1 .. f[x]) /\ Cardinality(1 .. f[x]) = f[x]
    <3>1. IsFiniteSet({x}) /\ Cardinality({x}) = 1
      BY FS_Singleton
    <3>2. f[x] \in Nat /\ 1 \in Int
      OBVIOUS
    <3>3. /\ IsFiniteSet(1 .. f[x])
          /\ Cardinality(1 .. f[x]) = IF 1 > f[x] THEN 0 ELSE f[x] - 1 + 1
      BY <3>2, FS_Interval
    <3>4. QED
      BY <3>1, <3>2, <3>3
  <2>2. IsFiniteSet({x} \X (1 .. f[x])) /\ Cardinality({x} \X (1 .. f[x])) = 1 * f[x]
    BY <2>1, FS_Product, Zenon
  <2>3. QED
    BY <2>2
<1>2. ASSUME NEW S \in SUBSET D PROVE SumOver(f, S) = Cardinality(Parts(S))
  <2>1. {part[x] : x \in S} = {{x} \X (1 .. f[x]) : x \in S}
    OBVIOUS
  <2>2. QED
    BY <2>1 DEF SumOver
<1>3. ASSUME NEW x \in D, NEW y \in D, x # y PROVE part[x] \cap part[y] = {}
  BY <1>3
<1> HIDE DEF part
<1>4. ASSUME NEW S \in SUBSET D PROVE IsFiniteSet(Parts(S))
  <2>1. IsFiniteSet(S)
    BY FS_Subset
  <2>2. IsFiniteSet({part[x] : x \in S})
    BY <2>1, ImageFinite
  <2>3. QED
    BY <1>1, <2>2, FS_UNION
<1>5. ASSUME NEW S \in SUBSET D, NEW x \in D \ S
      PROVE  Cardinality(Parts(S \cup {x})) = Cardinality(Parts(S)) + f[x]
  <2> DEFINE A == Parts(S)
             B == part[x]
  <2>1. Parts(S \cup {x}) = A \cup B
    OBVIOUS
  <2>2. A \cap B = {}
    BY <1>3
  <2>3. /\ IsFiniteSet(A) /\ Cardinality(A) \in Nat
        /\ IsFiniteSet(B) /\ Cardinality(B) = f[x] /\ f[x] \in Nat
    BY <1>1, <1>4, FS_CardinalityType
  <2> HIDE DEF A, B, Parts
  <2>4. Cardinality(A \cup B) = Cardinality(A) + Cardinality(B) - Cardinality(A \cap B)
    BY <2>3, FS_Union
  <2>5. Cardinality(A \cap B) = 0
    BY <2>2, FS_EmptySet
  <2>6. Cardinality(A \cup B) = Cardinality(A) + f[x]
    BY <2>3, <2>4, <2>5
  <2>7. QED
    BY <2>1, <2>6 DEF A
<1>6. Parts({}) = {}
  OBVIOUS
<1>7. \A S \in SUBSET D : Cardinality(Parts(S)) \in Nat
  BY <1>4, FS_CardinalityType
<1> HIDE DEF Parts
<1>8. SumOver(f, {}) = 0
  BY <1>2, <1>6, FS_EmptySet
<1>9. QED
  BY <1>2, <1>5, <1>7, <1>8

-----------------------------------------------------------------------------
(* The chunks of a sequence of points.                                     *)

Start == [open |-> 0, bytes |-> 0, of |-> NoSeq]

\* What point i makes of c, in the words of Cut.
CutNext(p, b, i, c) ==
  IF i \notin Sent(p) THEN c
  ELSE LET overflows == c.bytes > 0 /\ c.bytes + p[i].size > b
           of == IF overflows THEN c.open + 1 ELSE c.open
           bytes == IF overflows THEN p[i].size ELSE c.bytes + p[i].size
       IN  IF bytes >= b THEN [open |-> of + 1, bytes |-> 0, of |-> of]
                         ELSE [open |-> of, bytes |-> bytes, of |-> of]

CutsUpTo(g, p, b, n) ==
  g = [i \in 0 .. n |-> IF i = 0 THEN Start ELSE CutNext(p, b, i, g[i-1])]

LEMMA CutsExist ==
  ASSUME NEW p, NEW b, NEW n \in Nat
  PROVE  \E g : CutsUpTo(g, p, b, n)
<1> DEFINE N == {m \in Nat : \E g : CutsUpTo(g, p, b, m)}
<1>1. 0 \in N
  <2>1. CutsUpTo([i \in 0 .. 0 |-> Start], p, b, 0)
    BY DEF CutsUpTo
  <2>2. QED
    BY <2>1
<1>2. ASSUME NEW m \in N \cap Nat PROVE m + 1 \in N
  <2>1. PICK g : CutsUpTo(g, p, b, m)
    OBVIOUS
  <2> DEFINE last == CutNext(p, b, m + 1, g[m])
             h == [i \in 0 .. m + 1 |-> IF i \in 0 .. m THEN g[i] ELSE last]
  <2>2. ASSUME NEW i \in 0 .. m + 1
        PROVE  h[i] = IF i = 0 THEN Start ELSE CutNext(p, b, i, h[i-1])
    <3>1. CASE i = 0
      BY <2>1, <3>1 DEF CutsUpTo
    <3>2. CASE i \in 1 .. m
      <4>1. h[i] = g[i] /\ h[i-1] = g[i-1] /\ i # 0
        BY <3>2
      <4>2. g[i] = CutNext(p, b, i, g[i-1])
        BY <2>1, <3>2 DEF CutsUpTo
      <4>3. QED
        BY <4>1, <4>2
    <3>3. CASE i = m + 1
      <4>1. h[i] = last /\ h[i-1] = g[m] /\ i # 0
        BY <3>3
      <4>2. QED
        BY <4>1, <3>3
    <3>4. QED
      BY <3>1, <3>2, <3>3
  <2>3. CutsUpTo(h, p, b, m + 1)
    BY <2>2 DEF CutsUpTo
  <2>4. QED
    <3> HIDE DEF h
    <3> QED BY <2>3
<1>3. Nat \subseteq N
  <2> HIDE DEF N
  <2> QED BY <1>1, <1>2, SetInduction
<1>4. QED
  BY <1>3

LEMMA CutSteps ==
  ASSUME NEW p \in Seq(Points), NEW b
  PROVE  /\ Cut(p, b)[0] = Start
         /\ \A i \in 1 .. Len(p) : Cut(p, b)[i] = CutNext(p, b, i, Cut(p, b)[i-1])
<1>1. Len(p) \in Nat
  OBVIOUS
<1>2. PICK g : CutsUpTo(g, p, b, Len(p))
  BY <1>1, CutsExist
<1>3. CutsUpTo(Cut(p, b), p, b, Len(p))
  BY <1>2, Zenon DEF Cut, CutsUpTo, CutNext, Start
<1> DEFINE C == Cut(p, b)
<1> HIDE DEF C
<1>4. C = [i \in 0 .. Len(p) |-> IF i = 0 THEN Start ELSE CutNext(p, b, i, C[i-1])]
  BY <1>3 DEF C, CutsUpTo
<1>5. C[0] = Start /\ \A i \in 1 .. Len(p) : C[i] = CutNext(p, b, i, C[i-1])
  BY <1>1, <1>4
<1>6. QED
  BY <1>5 DEF C

(* A point opens the next chunk unless it fits into one that is not full.  *)
Joins(p, b, i, c) == c.bytes > 0 /\ c.bytes + p[i].size <= b

CutKnown(p, b, i) ==
  LET c == Cut(p, b)[i] IN
  /\ c.of \in NoSeq .. i - 1
  /\ c.bytes \in Nat
  /\ c.open = IF c.bytes = 0 THEN c.of + 1 ELSE c.of

LEMMA CutStep ==
  ASSUME NEW p \in Seq(Points), NEW b \in Nat \ {0}, NEW i \in 1 .. Len(p),
         CutKnown(p, b, i - 1)
  PROVE  /\ CutKnown(p, b, i)
         /\ i \notin Sent(p) => Cut(p, b)[i] = Cut(p, b)[i-1]
         /\ i \in Sent(p) =>
              LET c == Cut(p, b)[i-1]
                  d == Cut(p, b)[i]
                  s == IF Joins(p, b, i, c) THEN c.bytes + p[i].size ELSE p[i].size
              IN  /\ d.of = IF Joins(p, b, i, c) THEN c.of ELSE c.of + 1
                  /\ d.bytes = IF s >= b THEN 0 ELSE s
<1> DEFINE c == Cut(p, b)[i-1]
           d == Cut(p, b)[i]
<1>1. d = CutNext(p, b, i, c)
  BY CutSteps
<1>2. c.of \in NoSeq .. i - 2 /\ c.bytes \in Nat /\ c.open = IF c.bytes = 0 THEN c.of + 1 ELSE c.of
  BY DEF CutKnown
<1>3. p[i].size \in Nat \ {0} /\ i \in Nat \ {0}
  <2>1. p[i] \in Points
    BY ElementOfSeq
  <2>2. QED
    BY <2>1 DEF Points
<1>4. CASE i \notin Sent(p)
  <2>1. d = c
    BY <1>1, <1>4 DEF CutNext
  <2>2. QED
    BY <1>2, <1>3, <1>4, <2>1 DEF CutKnown, NoSeq
<1>5. CASE i \in Sent(p)
  <2> DEFINE s == IF Joins(p, b, i, c) THEN c.bytes + p[i].size ELSE p[i].size
             of == IF Joins(p, b, i, c) THEN c.of ELSE c.of + 1
  <2> HIDE DEF c, d
  <2>1. d = IF s >= b THEN [open |-> of + 1, bytes |-> 0, of |-> of]
                      ELSE [open |-> of, bytes |-> s, of |-> of]
    <3>1. CASE Joins(p, b, i, c)
      <4>1. c.open = c.of /\ c.bytes > 0 /\ c.bytes + p[i].size <= b
        BY <1>2, <3>1 DEF Joins
      <4>2. QED
        BY <1>1, <1>2, <1>3, <1>5, <3>1, <4>1 DEF CutNext
    <3>2. CASE ~Joins(p, b, i, c)
      BY <1>1, <1>2, <1>3, <1>5, <3>2, SMTT(20) DEF CutNext, Joins
    <3>3. QED
      BY <3>1, <3>2
  <2>2. s \in Nat \ {0} /\ of \in NoSeq .. i - 1
    BY <1>2, <1>3, SMTT(20) DEF Joins, NoSeq
  <2> HIDE DEF s, of
  <2>3. d.of = of /\ d.bytes = (IF s >= b THEN 0 ELSE s)
        /\ d.open = IF s >= b THEN of + 1 ELSE of
    BY <2>1
  <2>4. CutKnown(p, b, i)
    BY <2>2, <2>3 DEF CutKnown, d
  <2>5. QED
    BY <1>5, <2>3, <2>4 DEF s, of, d, c
<1>6. QED
  BY <1>4, <1>5

LEMMA CutsKnown ==
  ASSUME NEW p \in Seq(Points), NEW b \in Nat \ {0}
  PROVE  \A i \in 0 .. Len(p) : CutKnown(p, b, i)
<1> DEFINE N == {i \in Nat : i <= Len(p) => CutKnown(p, b, i)}
<1>1. 0 \in N
  BY CutSteps DEF CutKnown, Start, NoSeq
<1>2. ASSUME NEW i \in N \cap Nat PROVE i + 1 \in N
  <2>1. SUFFICES ASSUME i + 1 <= Len(p) PROVE CutKnown(p, b, i + 1)
    OBVIOUS
  <2>2. i + 1 \in 1 .. Len(p) /\ CutKnown(p, b, (i + 1) - 1)
    BY <2>1
  <2>3. QED
    BY <2>2, CutStep
<1>3. Nat \subseteq N
  <2> HIDE DEF N
  <2> QED BY <1>1, <1>2, SetInduction
<1>4. QED
  BY <1>3

(* Chunks are numbered in order, and a full one takes no more lines.       *)
LEMMA CutOrder ==
  ASSUME NEW p \in Seq(Points), NEW b \in Nat \ {0},
         NEW i \in 0 .. Len(p), NEW j \in i .. Len(p)
  PROVE  /\ Cut(p, b)[i].of <= Cut(p, b)[j].of
         /\ Cut(p, b)[i].bytes = 0 /\ j \in Sent(p) /\ j # i
              => Cut(p, b)[j].of > Cut(p, b)[i].of
<1> DEFINE C == Cut(p, b)
           Quiet(k) == C[k] = C[i] /\ \A l \in i + 1 .. k : l \notin Sent(p)
           Later(k) == /\ C[i].of <= C[k].of
                       /\ C[i].bytes = 0 => C[k].of > C[i].of \/ Quiet(k)
           N == {n \in Nat : i + n <= Len(p) => Later(i + n)}
<1>1. \A k \in 0 .. Len(p) : CutKnown(p, b, k)
  BY CutsKnown
<1>2. \A k \in 0 .. Len(p) : C[k].of \in Int /\ C[k].bytes \in Nat
  BY <1>1 DEF CutKnown, NoSeq
<1>3. ASSUME NEW k \in i .. Len(p) - 1, Later(k) PROVE Later(k + 1)
  <2>1. k + 1 \in 1 .. Len(p) /\ (k + 1) - 1 = k /\ k \in 0 .. Len(p)
    OBVIOUS
  <2>2. CASE k + 1 \notin Sent(p)
    <3>1. C[k + 1] = C[k]
      BY <1>1, <2>1, <2>2, CutStep
    <3>2. Quiet(k) => Quiet(k + 1)
      BY <2>2, <3>1
    <3>3. QED
      BY <1>3, <3>1, <3>2
  <2>3. CASE k + 1 \in Sent(p)
    <3>1. C[k + 1].of = IF Joins(p, b, k + 1, C[k]) THEN C[k].of ELSE C[k].of + 1
      BY <1>1, <2>1, <2>3, CutStep
    <3> DEFINE x == C[i].of
               y == C[k].of
               z == C[k + 1].of
    <3>2. x \in Int /\ y \in Int /\ z \in Int /\ x <= y
      BY <1>2, <1>3, <2>1
    <3>3. C[k].bytes = 0 => z = y + 1
      BY <3>1 DEF Joins
    <3>4. z = y \/ z = y + 1
      BY <3>1
    <3>5. C[i].bytes = 0 => y > x \/ (C[k].bytes = 0 /\ y = x)
      BY <1>3
    <3> HIDE DEF x, y, z
    <3>6. x <= z /\ (C[i].bytes = 0 => z > x)
      BY <3>2, <3>3, <3>4, <3>5
    <3>7. QED
      BY <3>6 DEF x, y, z
  <2>4. QED
    BY <2>2, <2>3
<1>4. 0 \in N
  BY <1>2
<1>5. ASSUME NEW n \in N \cap Nat PROVE n + 1 \in N
  <2>1. SUFFICES ASSUME i + (n + 1) <= Len(p) PROVE Later(i + (n + 1))
    OBVIOUS
  <2>2. i + n \in i .. Len(p) - 1 /\ Later(i + n) /\ i + (n + 1) = (i + n) + 1
    BY <2>1
  <2> HIDE DEF Later
  <2>3. QED
    BY <1>3, <2>2
<1>6. Nat \subseteq N
  <2> HIDE DEF N
  <2> QED BY <1>4, <1>5, SetInduction
<1>7. Later(j)
  <2>1. j - i \in N /\ i + (j - i) = j
    BY <1>6
  <2> HIDE DEF Later
  <2>2. QED
    BY <2>1
<1>8. j \in Sent(p) /\ j # i => ~Quiet(j)
  OBVIOUS
<1>9. QED
  BY <1>7, <1>8

(* No chunk is empty.                                                      *)
LEMMA CutFilled ==
  ASSUME NEW p \in Seq(Points), NEW b \in Nat \ {0}, NEW i \in 0 .. Len(p),
         NEW k \in 0 .. Cut(p, b)[i].of
  PROVE  \E j \in 1 .. i : j \in Sent(p) /\ Cut(p, b)[j].of = k
<1> DEFINE C == Cut(p, b)
           Has(n) == \A l \in 0 .. C[n].of : \E j \in 1 .. n : j \in Sent(p) /\ C[j].of = l
           N == {n \in Nat : n <= Len(p) => Has(n)}
<1>1. \A n \in 0 .. Len(p) : CutKnown(p, b, n) /\ C[n].of \in Int
  BY CutsKnown DEF CutKnown, NoSeq
<1>2. 0 \in N
  <2>1. C[0].of = NoSeq
    BY CutSteps DEF Start
  <2>2. QED
    BY <2>1 DEF NoSeq
<1>3. ASSUME NEW n \in N \cap Nat PROVE n + 1 \in N
  <2>1. SUFFICES ASSUME n + 1 <= Len(p), NEW l \in 0 .. C[n+1].of
                 PROVE  \E j \in 1 .. n + 1 : j \in Sent(p) /\ C[j].of = l
    OBVIOUS
  <2>2. n + 1 \in 1 .. Len(p) /\ (n + 1) - 1 = n /\ n \in 0 .. Len(p) /\ Has(n)
    BY <2>1
  <2>3. CASE n + 1 \notin Sent(p) \/ Joins(p, b, n + 1, C[n])
    <3>1. C[n+1].of = C[n].of
      BY <1>1, <2>2, <2>3, CutStep
    <3>2. QED
      BY <2>2, <3>1
  <2>4. CASE n + 1 \in Sent(p) /\ ~Joins(p, b, n + 1, C[n])
    <3>1. C[n+1].of = C[n].of + 1
      BY <1>1, <2>2, <2>4, CutStep
    <3>2. l \in 0 .. C[n].of \/ l = C[n+1].of
      BY <1>1, <2>2, <3>1
    <3>3. QED
      BY <2>2, <2>4, <3>2
  <2>5. QED
    BY <2>3, <2>4
<1>4. Nat \subseteq N
  <2> HIDE DEF N
  <2> QED BY <1>2, <1>3, SetInduction
<1>5. Has(i)
  BY <1>4
<1>6. QED
  BY <1>5

\* The position of the last line of chunk k.
EndOf(p, b, k) == IF k = NoSeq THEN NoCur ELSE Max(ChunkLines(p, b, k))

(* The last line of a chunk, and what it says of the chunks around it.     *)
LEMMA ChunkEnd ==
  ASSUME NEW p \in Seq(Points), NEW b \in Nat \ {0}, NEW k \in 0 .. NumChunks(p, b) - 1
  PROVE  /\ EndOf(p, b, k) \in Sent(p)
         /\ EndOf(p, b, k) \in 1 .. Len(p)
         /\ Cut(p, b)[EndOf(p, b, k)].of = k
         /\ \A y \in ChunkLines(p, b, k) : y <= EndOf(p, b, k)
         /\ EndOf(p, b, k) = Max(ChunkLines(p, b, k))
<1>1. Len(p) \in 0 .. Len(p) /\ Len(p) \in Nat /\ DOMAIN p = 1 .. Len(p)
  BY LenProperties
<1>2. Cut(p, b)[Len(p)].of \in Int
  BY <1>1, CutsKnown DEF CutKnown, NoSeq
<1>3. k \in 0 .. Cut(p, b)[Len(p)].of
  BY <1>2 DEF NumChunks
<1>4. PICK j \in 1 .. Len(p) : j \in Sent(p) /\ Cut(p, b)[j].of = k
  BY <1>1, <1>3, CutFilled
<1>5. ChunkLines(p, b, k) # {} /\ ChunkLines(p, b, k) \subseteq 1 .. Len(p)
  BY <1>1, <1>4 DEF ChunkLines, Sent
<1>6. ChunkLines(p, b, k) \in SUBSET (0 .. Len(p))
  BY <1>5
<1>7. /\ Max(ChunkLines(p, b, k)) \in ChunkLines(p, b, k)
      /\ \A y \in ChunkLines(p, b, k) : y <= Max(ChunkLines(p, b, k))
  BY <1>1, <1>5, <1>6, MaxOf
<1>8. EndOf(p, b, k) = Max(ChunkLines(p, b, k))
  BY DEF EndOf, NoSeq
<1>9. EndOf(p, b, k) \in ChunkLines(p, b, k) /\ \A y \in ChunkLines(p, b, k) : y <= EndOf(p, b, k)
  BY <1>7, <1>8
<1>10. EndOf(p, b, k) \in Sent(p) /\ Cut(p, b)[EndOf(p, b, k)].of = k
  BY <1>9 DEF ChunkLines
<1>11. QED
  BY <1>1, <1>5, <1>8, <1>9, <1>10

-----------------------------------------------------------------------------
(* Counting points and adding up their sizes.                              *)

LEMMA Counts ==
  ASSUME NEW p \in Seq(Points), NEW m, NEW i \in Int, NEW j \in Int, i <= j
  PROVE  /\ Count(p, i, m) \in Nat
         /\ Count(p, i, m) <= Count(p, j, m)
         /\ Count(p, 0, m) = 0
<1> DEFINE S(n) == {k \in DOMAIN p : k <= n /\ p[k].m = m}
<1>1. DOMAIN p = 1 .. Len(p) /\ IsFiniteSet(DOMAIN p)
  BY LenProperties, FS_Interval
<1>2. S(j) \subseteq DOMAIN p /\ S(i) \subseteq S(j) /\ S(0) = {}
  BY <1>1
<1>3. IsFiniteSet(S(j))
  BY <1>1, <1>2, FS_Subset
<1>4. IsFiniteSet(S(i)) /\ Cardinality(S(i)) <= Cardinality(S(j))
  <2> HIDE DEF S
  <2> QED BY <1>2, <1>3, FS_Subset
<1>5. Cardinality(S(i)) \in Nat /\ Cardinality(S(0)) = 0
  <2> HIDE DEF S
  <2> QED BY <1>2, <1>4, FS_CardinalityType, FS_EmptySet
<1>6. QED
  BY <1>4, <1>5 DEF Count

LEMMA CountNext ==
  ASSUME NEW p \in Seq(Points), NEW m, NEW i \in 1 .. Len(p)
  PROVE  Count(p, i, m) = Count(p, i - 1, m) + (IF p[i].m = m THEN 1 ELSE 0)
<1> DEFINE S(n) == {k \in DOMAIN p : k <= n /\ p[k].m = m}
<1>1. DOMAIN p = 1 .. Len(p) /\ IsFiniteSet(DOMAIN p)
  BY LenProperties, FS_Interval
<1>2. S(i - 1) \subseteq DOMAIN p /\ i \notin S(i - 1)
  BY <1>1
<1>3. S(i) = IF p[i].m = m THEN S(i - 1) \cup {i} ELSE S(i - 1)
  BY <1>1
<1>4. IsFiniteSet(S(i - 1))
  BY <1>1, <1>2, FS_Subset
<1>5. Cardinality(S(i - 1)) \in Nat /\ Cardinality(S(i - 1) \cup {i}) = Cardinality(S(i - 1)) + 1
  <2> HIDE DEF S
  <2> QED BY <1>2, <1>4, FS_CardinalityType, FS_AddElement
<1>6. Cardinality(S(i)) = Cardinality(S(i - 1)) + (IF p[i].m = m THEN 1 ELSE 0)
  <2>1. CASE p[i].m = m
    <3>1. S(i) = S(i - 1) \cup {i}
      BY <1>3, <2>1
    <3> HIDE DEF S
    <3>2. QED
      BY <1>5, <2>1, <3>1
  <2>2. CASE p[i].m # m
    <3>1. S(i) = S(i - 1)
      BY <1>3, <2>2
    <3> HIDE DEF S
    <3>2. QED
      BY <1>5, <2>2, <3>1
  <2>3. QED
    BY <2>1, <2>2
<1>7. QED
  BY <1>6 DEF Count

LEMMA Sizes ==
  ASSUME NEW p \in Seq(Points)
  PROVE  LET f == [i \in DOMAIN p |-> p[i].size] IN
         /\ SumOver(f, {}) = 0
         /\ \A S \in SUBSET DOMAIN p : SumOver(f, S) \in Nat
         /\ \A S \in SUBSET DOMAIN p : \A i \in DOMAIN p \ S :
              SumOver(f, S \cup {i}) = SumOver(f, S) + p[i].size
<1> DEFINE f == [i \in DOMAIN p |-> p[i].size]
<1>1. DOMAIN p = 1 .. Len(p) /\ IsFiniteSet(DOMAIN p)
  BY LenProperties, FS_Interval
<1>2. f \in [DOMAIN p -> Nat]
  <2>1. \A i \in DOMAIN p : p[i] \in Points
    BY <1>1, ElementOfSeq
  <2>2. QED
    BY <2>1 DEF Points
<1>3. \A i \in DOMAIN p : f[i] = p[i].size
  OBVIOUS
<1> HIDE DEF f
<1>4. /\ SumOver(f, {}) = 0
      /\ \A S \in SUBSET DOMAIN p : SumOver(f, S) \in Nat
      /\ \A S \in SUBSET DOMAIN p : \A x \in DOMAIN p \ S :
           SumOver(f, S \cup {x}) = SumOver(f, S) + f[x]
  BY <1>1, <1>2, SumProperties, SMTT(20)
<1>5. QED
  BY <1>3, <1>4 DEF f

-----------------------------------------------------------------------------
(* The chunks that an uninterrupted run would cut.                         *)

Cuts     == Cut(points, chunkSize)
Of(j)    == Cut(points, chunkSize)[j].of
Lines(k) == ChunkLines(points, chunkSize, k)

End(k) == EndOf(points, chunkSize, k)

Loading == phase \in {"extract", "append", "full", "drain"}

-----------------------------------------------------------------------------
(* Nothing is kept of a run that is not loading; the settings of one that  *)
(* is are the recorded ones, and its shard is not done.                    *)
Settings ==
  /\ ~Loading => /\ outbox = <<>> /\ maps = <<>> /\ tally = Nil /\ baseline = Nil
                 /\ marker = NoMarker /\ ~shared /\ buf = {}
  /\ Loading \/ phase = "progress" => maxBytes = chunkSize /\ chunkSize # 0
  /\ Loading \/ phase \in {"progress", "config"} => version = 2
  /\ phase \in {"alter", "alter2", "delete", "stamp"} => version = 1
  /\ phase = "alter" => columns = 0
  /\ phase = "alter2" => columns = 1
  /\ Loading => ~ckDone

\* A checkpoint on which no configuration is recorded is empty.
Fresh ==
  /\ chunkSize = 0 => ckSeq = NoSeq /\ ckCur = NoCur /\ ~ckDone
  /\ origin = "new" /\ version = 1 => ckSeq = NoSeq /\ ~ckDone
  /\ origin \in {"interrupted", "orphaned"} => ckSeq # NoSeq
  /\ origin = "finished" => ckDone

(* What is committed, in terms of the chunks of an uninterrupted run.      *)
Committed ==
  /\ ckSeq = NoSeq \/ (chunkSize # 0 /\ ckSeq \in 0 .. NumChunks(points, chunkSize) - 1)
  /\ ckCur # NoCur => ckSeq # NoSeq /\ ckCur = End(ckSeq)
  /\ origin = "new" => ckCur = End(ckSeq)
  /\ ckDone => ckTotal = NumChunks(points, chunkSize)

(* Where the accumulator is: its lines are those of chunk seq among the    *)
(* points read, and the points to come belong to it or to later chunks.    *)
Aligned ==
  Loading =>
    /\ buf = {j \in Sent(points) : j < at /\ Of(j) = seq}
    /\ Of(at - 1) = IF buf = {} THEN seq - 1 ELSE seq
    /\ phase # "full" =>
         /\ \A j \in Sent(points) : j >= at => Of(j) >= seq
         /\ buf # {} => Cuts[at-1].bytes > 0 /\ Cuts[at-1].bytes = Bytes(buf)
    /\ phase = "full" => buf # {} /\ Cuts[at-1].bytes = 0
    /\ phase = "append" => at \in Sent(points)
    /\ phase = "drain" => at = Len(points) + 1 /\ buf = {}
    /\ buf # {} => marker.cur \in buf /\ \A j \in buf : j <= marker.cur

\* The points counted by bump: the one being appended is among them.
Seen == IF phase = "append" THEN at ELSE at - 1

(* The chunks on their way follow the committed one, without a gap.        *)
Pipeline ==
  Loading =>
    /\ IF seq <= committed THEN outbox = <<>> /\ ckSeq = committed
                           ELSE ckSeq + Len(outbox) = seq - 1
    /\ \A i \in DOMAIN outbox :
         /\ outbox[i].seq = ckSeq + i
         /\ outbox[i].lines = Lines(ckSeq + i) /\ outbox[i].cur = End(ckSeq + i)
         /\ \A m \in Acted :
              outbox[i].deltas[m] = Count(points, End(ckSeq + i), m)
                                    - Count(points, End(ckSeq + i - 1), m)

(* A map that a marker or the baseline holds is not counted on.            *)
Unshared == ~shared /\ tally # Nil => baseline # tally /\ marker.tally # tally

(* The tallies count from the last line of the chunk before.               *)
Tallies ==
  Loading =>
    \A m \in Acted :
      /\ Tallied(tally)[m] = Tallied(baseline)[m]
                             + Count(points, Seen, m) - Count(points, End(seq - 1), m)
      /\ buf # {} =>
           Tallied(marker.tally)[m] = Tallied(baseline)[m]
             + Count(points, marker.cur, m) - Count(points, End(seq - 1), m)

(* The audit counts the points up to the committed chunk's last line, or   *)
(* fewer, where an earlier version committed chunks and counted nothing.   *)
AuditKept ==
  \A m \in Acted :
    /\ origin = "new" =>
         audit[m] = Count(points, IF ckDone THEN Len(points) ELSE End(ckSeq), m)
    /\ origin # "chunkless" => audit[m] <= Count(points, Len(points), m)
    /\ origin # "chunkless" /\ ~ckDone /\ (version = 2 \/ phase = "stamp") =>
         audit[m] <= Count(points, End(ckSeq), m)

IInv ==
  /\ TypeOK /\ Settings /\ Fresh /\ Committed /\ Aligned /\ Pipeline
  /\ Unshared /\ Tallies /\ AuditKept

-----------------------------------------------------------------------------
(* What the invariant says of the state at hand.                           *)

LEMMA Settled ==
  ASSUME TypeOK
  PROVE  /\ points \in Seq(Points) /\ Len(points) \in Nat /\ DOMAIN points = 1 .. Len(points)
         /\ chunkSize # 0 => chunkSize \in Nat \ {0}
         /\ ZeroCounts \in [Meas -> Nat]
<1>1. points \in Seq(Points)
  BY ShardsAssumption DEF TypeOK
<1>2. chunkSize # 0 => chunkSize \in Nat \ {0}
  BY ShardsAssumption DEF TypeOK
<1>3. QED
  BY <1>1, <1>2, LenProperties DEF ZeroCounts

LEMMA ChunksBound ==
  ASSUME NEW p \in Seq(Points), NEW b \in Nat \ {0}
  PROVE  NumChunks(p, b) \in 0 .. Len(p)
<1>1. Len(p) \in Nat /\ Len(p) \in 0 .. Len(p)
  BY LenProperties
<1>2. CutKnown(p, b, Len(p))
  BY <1>1, CutsKnown
<1>3. QED
  BY <1>1, <1>2 DEF CutKnown, NumChunks, NoSeq

\* The accumulator's chunk is one of the shard's, or the one after them.
LEMMA Position ==
  ASSUME TypeOK, Settings, Aligned, Loading
  PROVE  /\ chunkSize \in Nat \ {0} /\ maxBytes = chunkSize
         /\ Of(at - 1) \in NoSeq .. at - 2
         /\ seq <= NumChunks(points, chunkSize)
         /\ buf # {} => seq <= NumChunks(points, chunkSize) - 1 /\ seq + 1 <= Len(points)
         /\ phase = "drain" => seq = NumChunks(points, chunkSize)
<1>1. /\ chunkSize \in Nat \ {0} /\ maxBytes = chunkSize
      /\ points \in Seq(Points) /\ Len(points) \in Nat
  BY Settled DEF Settings
<1>2. at - 1 \in 0 .. Len(points) /\ Len(points) \in (at - 1) .. Len(points) /\ at \in Int
  BY <1>1 DEF TypeOK
<1>3. Of(at - 1) \in NoSeq .. at - 2
  <2>1. CutKnown(points, chunkSize, at - 1)
    BY <1>1, <1>2, CutsKnown
  <2>2. QED
    BY <1>2, <2>1 DEF CutKnown, Of
<1>4. Of(at - 1) <= Of(Len(points))
  BY <1>1, <1>2, CutOrder DEF Of
<1>5. NumChunks(points, chunkSize) = Of(Len(points)) + 1 /\ NumChunks(points, chunkSize) \in 0 .. Len(points)
  BY <1>1, ChunksBound DEF NumChunks, Of
<1>6. Of(Len(points)) \in Int
  <2>1. CutKnown(points, chunkSize, Len(points))
    BY <1>1, <1>2, CutsKnown
  <2>2. QED
    BY <1>1, <2>1 DEF CutKnown, Of, NoSeq
<1>7. Of(at - 1) = IF buf = {} THEN seq - 1 ELSE seq
  BY DEF Aligned
<1>8. seq \in Int
  BY DEF TypeOK
<1>9. phase = "drain" => at - 1 = Len(points) /\ buf = {}
  BY <1>1 DEF Aligned
<1>10. PICK o, q, z, n, l, a \in Int : /\ o = Of(at - 1) /\ q = seq /\ z = Of(Len(points)) /\ a = at
                                 /\ n = NumChunks(points, chunkSize) /\ l = Len(points)
  BY <1>1, <1>2, <1>3, <1>5, <1>6, <1>8 DEF NoSeq
<1>11. /\ q <= n
       /\ buf # {} => q <= n - 1 /\ q + 1 <= l
       /\ phase = "drain" => q = n
  <2>1. o <= z /\ n = z + 1 /\ o <= a - 2 /\ a - 1 <= l
    BY <1>2, <1>3, <1>4, <1>5, <1>10 DEF NoSeq
  <2>2. IF buf = {} THEN o = q - 1 ELSE o = q
    BY <1>7, <1>10
  <2>3. phase = "drain" => o = z /\ buf = {}
    BY <1>9, <1>10
  <2>4. QED
    BY <1>10, <2>1, <2>2, <2>3
<1>12. QED
  BY <1>1, <1>3, <1>10, <1>11

(* The chunk before the accumulator's ends where the points read do, or    *)
(* before.                                                                 *)
LEMMA BeforeIsInt ==
  ASSUME TypeOK, Settings, Aligned, Loading
  PROVE  End(seq - 1) \in 0 .. Len(points)
<1>1. /\ points \in Seq(Points) /\ Len(points) \in Nat /\ seq \in Nat
      /\ chunkSize \in Nat \ {0} /\ seq <= NumChunks(points, chunkSize)
      /\ NumChunks(points, chunkSize) \in Int
  <2>1. /\ points \in Seq(Points) /\ Len(points) \in Nat /\ seq \in Nat
        /\ chunkSize \in Nat \ {0} /\ seq <= NumChunks(points, chunkSize)
    BY Settled, Position, SMTT(20) DEF TypeOK
  <2>2. QED
    BY <2>1, ChunksBound
<1>2. CASE seq = 0
  BY <1>1, <1>2 DEF End, EndOf, NoSeq, NoCur
<1>3. CASE seq # 0
  <2>1. seq - 1 \in 0 .. NumChunks(points, chunkSize) - 1
    BY <1>1, <1>3
  <2>2. End(seq - 1) \in 1 .. Len(points)
    BY <1>1, <2>1, ChunkEnd DEF End
  <2>3. QED
    BY <1>1, <2>2
<1>4. QED
  BY <1>2, <1>3

\* A flush closes the chunk: the lines to come go into later ones.
Closing == Loading /\ buf # {} /\ \A j \in Sent(points) : j >= at => Of(j) > seq

LEMMA Closed ==
  ASSUME TypeOK, Settings, Aligned, Closing
  PROVE  /\ Lines(seq) = buf
         /\ End(seq) = marker.cur
         /\ marker.cur \in Nat /\ marker.cur < at
         /\ End(seq - 1) \in Nat /\ End(seq - 1) <= marker.cur
<1>1. Loading /\ buf # {}
  BY DEF Closing
<1>2. /\ chunkSize \in Nat \ {0} /\ points \in Seq(Points) /\ Len(points) \in Nat
      /\ seq <= NumChunks(points, chunkSize) - 1 /\ NumChunks(points, chunkSize) \in Int
  BY <1>1, Position, Settled, ChunksBound
<1>3. seq \in Nat /\ at \in Int
  BY DEF TypeOK
<1>4. buf = {j \in Sent(points) : j < at /\ Of(j) = seq}
  BY <1>1 DEF Aligned
<1>5. \A j \in Sent(points) : j \in 1 .. Len(points) /\ j \in Int
  BY Settled DEF Sent
<1>6. Lines(seq) = buf
  <2>1. ASSUME NEW j \in Sent(points), Of(j) = seq PROVE j < at
    <3>1. ~ (j >= at)
      BY <1>3, <2>1 DEF Closing
    <3>2. QED
      BY <1>3, <1>5, <3>1
  <2>2. Lines(seq) = {j \in Sent(points) : Of(j) = seq}
    BY DEF Lines, ChunkLines, Of
  <2>3. QED
    BY <1>4, <2>1, <2>2
<1>7. marker.cur \in buf /\ \A j \in buf : j <= marker.cur
  BY <1>1 DEF Aligned
<1>8. marker.cur \in 1 .. Len(points) /\ marker.cur < at /\ Of(marker.cur) = seq
  BY <1>4, <1>5, <1>7
<1>9. seq \in 0 .. NumChunks(points, chunkSize) - 1
  BY <1>2, <1>3
<1>10. End(seq) \in buf /\ \A y \in buf : y <= End(seq)
  <2>1. End(seq) \in Lines(seq) /\ \A y \in Lines(seq) : y <= End(seq)
    BY <1>2, <1>9, ChunkEnd DEF End, Lines, ChunkLines
  <2>2. QED
    BY <1>6, <2>1
<1>11. End(seq) = marker.cur
  <2>1. End(seq) \in Int /\ marker.cur \in Int
    BY <1>4, <1>5, <1>7, <1>10
  <2>2. QED
    BY <1>7, <1>10, <2>1
<1>12. End(seq - 1) \in Nat /\ End(seq - 1) <= marker.cur
  <2>1. CASE seq = 0
    BY <1>8, <2>1 DEF End, EndOf, NoSeq, NoCur
  <2>2. CASE seq # 0
    <3>1. seq - 1 \in 0 .. NumChunks(points, chunkSize) - 1
      BY <1>2, <1>3, <2>2
    <3>2. End(seq - 1) \in 1 .. Len(points) /\ Of(End(seq - 1)) = seq - 1
      BY <1>2, <3>1, ChunkEnd DEF End, Of
    <3>3. SUFFICES ASSUME marker.cur <= End(seq - 1) PROVE FALSE
      BY <1>8, <3>2
    <3>4. Of(marker.cur) <= Of(End(seq - 1))
      <4>1. marker.cur \in 0 .. Len(points) /\ End(seq - 1) \in marker.cur .. Len(points)
        BY <1>8, <3>2, <3>3
      <4>2. QED
        BY <1>2, <4>1, CutOrder DEF Of
    <3>5. QED
      BY <1>3, <1>8, <3>2, <3>4
  <2>3. QED
    BY <2>1, <2>2
<1>13. QED
  BY <1>6, <1>8, <1>11, <1>12

\* The three places that flush a chunk with lines.
Flushing ==
  Closing /\ \E after \in {"append", "extract", "drain"} :
                /\ Flush(after)
                /\ after = "append" <=> phase = "append"
                /\ after = "drain" => at = Len(points) + 1

LEMMA Flushes ==
  ASSUME TypeOK, Settings, Aligned,
         FlushBefore \/ FlushFull \/ (EndOfPoints /\ buf # {})
  PROVE  Flushing
<1>1. /\ points \in Seq(Points) /\ Len(points) \in Nat /\ DOMAIN points = 1 .. Len(points)
      /\ at \in 1 .. Len(points) + 1 /\ at \in Int /\ seq \in Nat
  BY Settled DEF TypeOK
<1>2. Loading /\ buf # {}
  BY DEF Loading, FlushBefore, FlushFull, EndOfPoints, Overflows, Aligned
<1>3. chunkSize \in Nat \ {0} /\ maxBytes = chunkSize
  BY <1>2, Position
<1>4. \A j \in Sent(points) : j \in 1 .. Len(points)
  BY <1>1 DEF Sent
<1>5. Of(at - 1) = seq
  BY <1>2 DEF Aligned
<1>6. CASE FlushBefore
  <2>1. /\ phase = "append" /\ at \in Sent(points) /\ Cuts[at-1].bytes = Bytes(buf)
        /\ Bytes(buf) + points[at].size > maxBytes
    BY <1>2, <1>6 DEF FlushBefore, Aligned, Overflows
  <2>2. at \in 1 .. Len(points) /\ at - 1 \in 0 .. Len(points)
    BY <1>4, <2>1
  <2>3. ~Joins(points, chunkSize, at, Cuts[at-1])
    <3>1. points[at].size \in Nat
      <4>1. points[at] \in Points
        BY <1>1, <2>2, ElementOfSeq
      <4>2. QED
        BY <4>1 DEF Points
    <3>2. CutKnown(points, chunkSize, at - 1)
      BY <1>1, <1>3, <2>2, CutsKnown
    <3>3. Cuts[at-1].bytes \in Nat
      BY <3>2 DEF CutKnown, Cuts
    <3>4. QED
      BY <1>3, <2>1, <3>1, <3>3 DEF Joins
  <2>4. Of(at) = Of(at - 1) + 1
    <3>1. CutKnown(points, chunkSize, at - 1)
      BY <1>1, <1>3, <2>2, CutsKnown
    <3>2. QED
      BY <1>1, <1>3, <2>1, <2>2, <2>3, <3>1, CutStep DEF Of, Cuts
  <2>5. ASSUME NEW j \in Sent(points), j >= at PROVE Of(j) > seq
    <3>1. at \in 0 .. Len(points) /\ j \in at .. Len(points)
      BY <1>4, <2>2, <2>5
    <3>2. Of(at) <= Of(j) /\ CutKnown(points, chunkSize, j)
      BY <1>1, <1>3, <3>1, CutOrder, CutsKnown DEF Of
    <3>3. Of(j) \in Int
      BY <3>1, <3>2 DEF CutKnown, Of, NoSeq
    <3>4. QED
      BY <1>1, <1>5, <2>4, <3>2, <3>3
  <2>6. QED
    BY <1>2, <1>6, <2>1, <2>5 DEF Flushing, Closing, FlushBefore
<1>7. CASE FlushFull
  <2>1. phase = "full" /\ Cuts[at-1].bytes = 0
    BY <1>2, <1>7 DEF FlushFull, Aligned
  <2>2. ASSUME NEW j \in Sent(points), j >= at PROVE Of(j) > seq
    <3>1. at - 1 \in 0 .. Len(points) /\ j \in (at - 1) .. Len(points) /\ j # at - 1
      BY <1>1, <1>4, <2>2
    <3>2. Of(j) > Of(at - 1)
      BY <1>1, <1>3, <2>1, <3>1, CutOrder DEF Of, Cuts
    <3>3. QED
      BY <1>5, <3>2
  <2>3. QED
    BY <1>2, <1>7, <2>1, <2>2 DEF Flushing, Closing, FlushFull
<1>8. CASE EndOfPoints /\ buf # {}
  <2>1. at = Len(points) + 1 /\ Flush("drain") /\ phase # "append"
    BY <1>1, <1>8 DEF EndOfPoints
  <2>2. QED
    BY <1>1, <1>2, <1>4, <2>1 DEF Flushing, Closing
<1>9. QED
  BY <1>2, <1>6, <1>7, <1>8

-----------------------------------------------------------------------------
(* The tally maps.                                                         *)

LEMMA BumpMaps ==
  ASSUME TypeOK, NEW m \in Meas, Bump(m)
  PROVE  /\ maps' \in Seq([Meas -> Nat])
         /\ tally' \in 0 .. Len(maps')
         /\ Len(maps) <= Len(maps') /\ Len(maps') \in Nat /\ Len(maps) \in Nat
         /\ baseline' = baseline /\ shared' \in BOOLEAN
<1>1. maps \in Seq([Meas -> Nat]) /\ Len(maps) \in Nat /\ tally \in 0 .. Len(maps)
  BY LenProperties DEF TypeOK, Nil
<1>2. CASE MustClone
  <2>1. Tallied(tally) \in [Meas -> Nat]
    BY <1>1, ElementOfSeq, Settled DEF Tallied, Nil
  <2> DEFINE new == [Tallied(tally) EXCEPT ![m] = @ + 1]
  <2>2. new \in [Meas -> Nat]
    BY <2>1
  <2>3. maps' = Append(maps, new) /\ tally' = Len(maps) + 1 /\ shared' = FALSE /\ baseline' = baseline
    BY <1>2 DEF Bump
  <2> HIDE DEF new
  <2>4. maps' \in Seq([Meas -> Nat]) /\ Len(maps') = Len(maps) + 1
    BY <1>1, <2>2, <2>3, AppendProperties
  <2>5. PICK n \in Nat : n = Len(maps)
    BY <1>1
  <2>6. tally' \in 0 .. Len(maps')
    <3>1. tally' = n + 1 /\ Len(maps') = n + 1
      BY <2>3, <2>4, <2>5
    <3>2. QED
      BY <3>1
  <2>7. Len(maps) <= Len(maps') /\ Len(maps') \in Nat
    BY <2>4, <2>5
  <2>8. QED
    BY <1>1, <2>3, <2>4, <2>6, <2>7
<1>3. CASE ~MustClone
  <2>1. tally \in 1 .. Len(maps)
    BY <1>1, <1>3 DEF MustClone, Nil
  <2>2. maps[tally] \in [Meas -> Nat]
    BY <1>1, <2>1, ElementOfSeq
  <2> DEFINE new == [maps[tally] EXCEPT ![m] = @ + 1]
  <2>3. new \in [Meas -> Nat]
    BY <2>2
  <2>4. maps' = [maps EXCEPT ![tally] = new] /\ UNCHANGED <<tally, shared, baseline>>
    BY <1>3 DEF Bump
  <2> HIDE DEF new
  <2>5. maps' \in Seq([Meas -> Nat]) /\ Len(maps') = Len(maps)
    BY <1>1, <2>1, <2>3, <2>4, ExceptSeq
  <2>6. QED
    BY <1>1, <2>4, <2>5 DEF TypeOK
<1>4. QED
  BY <1>2, <1>3

(* Counting a point leaves what a marker or the baseline holds alone.      *)
LEMMA BumpCounts ==
  ASSUME TypeOK, Unshared, NEW m \in Meas, Bump(m)
  PROVE  /\ \A x \in Meas : Tallied(tally)'[x] = Tallied(tally)[x] + (IF x = m THEN 1 ELSE 0)
         /\ Tallied(baseline)' = Tallied(baseline)
         /\ marker' = marker => Tallied(marker.tally)' = Tallied(marker.tally)
<1>1. /\ maps \in Seq([Meas -> Nat]) /\ Len(maps) \in Nat /\ tally \in 0 .. Len(maps)
      /\ baseline \in 0 .. Len(maps) /\ marker.tally \in 0 .. Len(maps)
  BY LenProperties DEF TypeOK, Nil
<1>2. Tallied(tally) \in [Meas -> Nat]
  BY <1>1, ElementOfSeq, Settled DEF Tallied, Nil
<1>3. CASE MustClone
  <2> DEFINE new == [Tallied(tally) EXCEPT ![m] = @ + 1]
  <2>1. new \in [Meas -> Nat] /\ \A x \in Meas : new[x] = Tallied(tally)[x] + (IF x = m THEN 1 ELSE 0)
    BY <1>2
  <2>2. maps' = Append(maps, new) /\ tally' = Len(maps) + 1 /\ baseline' = baseline
    BY <1>3 DEF Bump
  <2> HIDE DEF new
  <2>3. maps'[Len(maps) + 1] = new /\ \A r \in 1 .. Len(maps) : maps'[r] = maps[r]
    BY <1>1, <2>1, <2>2, AppendProperties
  <2>4. Tallied(tally)' = new
    BY <1>1, <2>2, <2>3 DEF Tallied, Nil
  <2>5. Tallied(baseline)' = Tallied(baseline)
    BY <1>1, <2>2, <2>3 DEF Tallied, Nil
  <2>6. marker' = marker => Tallied(marker.tally)' = Tallied(marker.tally)
    BY <1>1, <2>3 DEF Tallied, Nil
  <2>7. QED
    BY <2>1, <2>4, <2>5, <2>6
<1>4. CASE ~MustClone
  <2>1. tally \in 1 .. Len(maps) /\ baseline # tally /\ marker.tally # tally
    BY <1>1, <1>4 DEF MustClone, Nil, Unshared
  <2> DEFINE new == [maps[tally] EXCEPT ![m] = @ + 1]
  <2>2. new \in [Meas -> Nat] /\ \A x \in Meas : new[x] = Tallied(tally)[x] + (IF x = m THEN 1 ELSE 0)
    BY <1>2, <2>1 DEF Tallied, Nil
  <2>3. maps' = [maps EXCEPT ![tally] = new] /\ UNCHANGED <<tally, shared, baseline>>
    BY <1>4 DEF Bump
  <2> HIDE DEF new
  <2>4. maps'[tally] = new /\ \A r \in 1 .. Len(maps) : r # tally => maps'[r] = maps[r]
    BY <1>1, <2>1, <2>2, <2>3, ExceptSeq
  <2>5. Tallied(tally)' = new
    BY <1>1, <2>1, <2>3, <2>4 DEF Tallied, Nil
  <2>6. Tallied(baseline)' = Tallied(baseline)
    BY <1>1, <2>1, <2>3, <2>4 DEF Tallied, Nil
  <2>7. marker' = marker => Tallied(marker.tally)' = Tallied(marker.tally)
    BY <1>1, <2>1, <2>4 DEF Tallied, Nil
  <2>8. QED
    BY <2>2, <2>5, <2>6, <2>7
<1>5. QED
  BY <1>3, <1>4

-----------------------------------------------------------------------------
(* One lemma per conjunct of the invariant.                                *)

LEMMA ForgetTypes ==
  ASSUME TypeOK, ForgetLocals, points' = points
  PROVE  /\ maxBytes' = 0
         /\ committed' \in NoSeq .. Len(points')
         /\ at' \in 1 .. Len(points') + 1
         /\ seq' \in 0 .. Len(points')
         /\ buf' \subseteq DOMAIN points'
         /\ marker' \in [cur : NoCur .. Len(points'), tally : Nil .. Len(maps')]
         /\ maps' \in Seq([Meas -> Nat])
         /\ tally' \in Nil .. Len(maps') /\ baseline' \in Nil .. Len(maps')
         /\ shared' \in BOOLEAN
         /\ outbox' \in Seq(Chunks')
<1>1. Len(points) \in Nat
  BY Settled
<1>2. maps' = <<>> /\ Len(maps') = 0 /\ maps' \in Seq([Meas -> Nat])
  BY EmptySeq DEF ForgetLocals
<1>3. marker' \in [cur : NoCur .. Len(points'), tally : Nil .. Len(maps')]
  BY <1>1, <1>2 DEF ForgetLocals, NoMarker, NoCur, Nil
<1>4. outbox' = <<>> /\ outbox' \in Seq(Chunks')
  BY EmptySeq DEF ForgetLocals
<1>5. /\ maxBytes' = 0 /\ committed' = NoSeq /\ at' = 1 /\ seq' = 0 /\ buf' = {}
      /\ tally' = Nil /\ baseline' = Nil /\ shared' = FALSE
  BY DEF ForgetLocals
<1>6. Len(points') \in Nat
  BY <1>1
<1>7. /\ committed' \in NoSeq .. Len(points')
      /\ at' \in 1 .. Len(points') + 1
      /\ seq' \in 0 .. Len(points')
  BY ONLY <1>5, <1>6 DEF NoSeq
<1>8. tally' \in Nil .. Len(maps') /\ baseline' \in Nil .. Len(maps')
  BY ONLY <1>2, <1>5 DEF Nil
<1>9. QED
  BY <1>2, <1>3, <1>4, <1>5, <1>7, <1>8

LEMMA DeltasType ==
  ASSUME TypeOK, NEW cur \in Nil .. Len(maps), NEW base \in Nil .. Len(maps)
  PROVE  /\ Tallied(cur) \in [Meas -> Nat] /\ Tallied(base) \in [Meas -> Nat]
         /\ Deltas(cur, base) \in [Meas -> Nat]
<1>1. maps \in Seq([Meas -> Nat]) /\ Len(maps) \in Nat
  BY LenProperties DEF TypeOK
<1>2. \A r \in 1 .. Len(maps) : maps[r] \in [Meas -> Nat]
  BY <1>1, ElementOfSeq
<1>3. Tallied(cur) \in [Meas -> Nat] /\ Tallied(base) \in [Meas -> Nat]
  BY <1>1, <1>2, Settled DEF Tallied, Nil
<1>4. QED
  BY <1>3 DEF Deltas

LEMMA TypeNext ==
  ASSUME TypeOK, Settings, Fresh, Committed, Aligned, Pipeline, Next
  PROVE  TypeOK'
<1>l. /\ points \in Seq(Points) /\ Len(points) \in Nat /\ DOMAIN points = 1 .. Len(points)
      /\ ZeroCounts \in [Meas -> Nat]
  BY Settled
<1>1. CASE Open
  BY <1>1, ShardsAssumption DEF Open, TypeOK, Phases, shard, schema, ckpt, locals, Chunks
<1>2. CASE AddColumn
  <2>1. columns + 1 \in 0 .. 2
    BY <1>2 DEF AddColumn, TypeOK, Settings
  <2>2. QED
    BY <1>2, <2>1 DEF AddColumn, TypeOK, Phases, shard, ckpt, locals, Chunks
<1>3. CASE DeleteOrphans
  BY <1>3, <1>l DEF DeleteOrphans, TypeOK, Phases, shard, schema, locals, Chunks
<1>4. CASE StampVersion
  BY <1>4 DEF StampVersion, TypeOK, Phases, shard, ckpt, locals, Chunks
<1>5. ASSUME NEW b \in ChunkSizes, CheckConfig(b) PROVE TypeOK'
  BY <1>5 DEF CheckConfig, TypeOK, Phases, shard, schema, ckpt, accum, counts, Chunks
<1>6. CASE StartShard
  <2>1. ckSeq + 1 <= Len(points) /\ StartSeq \in 0 .. Len(points)
    <3>1. CASE ckSeq = NoSeq
      BY <1>l, <3>1 DEF StartSeq, Seekable, NoSeq
    <3>2. CASE ckSeq # NoSeq
      <4>1. ckSeq \in 0 .. NumChunks(points, chunkSize) - 1 /\ chunkSize \in Nat \ {0}
        BY <3>2, Settled DEF Committed
      <4>2. NumChunks(points, chunkSize) \in 0 .. Len(points)
        BY <1>l, <4>1, ChunksBound
      <4>3. QED
        BY <1>l, <4>1, <4>2 DEF StartSeq
    <3>3. QED
      BY <3>1, <3>2
  <2>2. StartAt \in 1 .. Len(points) + 1
    BY <1>l DEF StartAt, TypeOK, NoCur, Seekable
  <2>3. QED
    BY <1>6, <2>1, <2>2 DEF StartShard, TypeOK, Phases, shard, schema, ckpt, counts, Chunks
<1>7. CASE StartEnds
  BY <1>7, ForgetTypes DEF StartEnds, TypeOK, Phases, shard, schema, ckpt
<1>8. CASE SkipPoint
  <2>1. points[at].m \in Meas /\ at + 1 \in 1 .. Len(points) + 1
    <3>1. at \in 1 .. Len(points)
      BY <1>8, <1>l DEF SkipPoint, TypeOK
    <3>2. points[at] \in Points
      BY <1>l, <3>1, ElementOfSeq
    <3>3. QED
      BY <1>l, <3>1, <3>2 DEF Points
  <2>2. Bump(points[at].m)
    BY <1>8 DEF SkipPoint
  <2>3. /\ maps' \in Seq([Meas -> Nat]) /\ tally' \in 0 .. Len(maps')
        /\ Len(maps) <= Len(maps') /\ Len(maps') \in Nat /\ Len(maps) \in Nat
        /\ baseline' = baseline /\ shared' \in BOOLEAN
    BY <2>1, <2>2, BumpMaps
  <2>4. baseline' \in Nil .. Len(maps') /\ marker.tally \in Nil .. Len(maps')
    BY <2>3, SMTT(20) DEF TypeOK, Nil
  <2>5. QED
    BY <1>8, <2>1, <2>3, <2>4 DEF SkipPoint, TypeOK, Phases, shard, schema, ckpt, accum, Chunks, Nil
<1>9. CASE ReadPoint
  <2>1. points[at].m \in Meas
    <3>1. at \in 1 .. Len(points)
      BY <1>9, <1>l DEF ReadPoint, TypeOK
    <3>2. points[at] \in Points
      BY <1>l, <3>1, ElementOfSeq
    <3>3. QED
      BY <3>2 DEF Points
  <2>2. Len(maps) \in Nat
    BY LenProperties DEF TypeOK
  <2>3. /\ maps' \in Seq([Meas -> Nat]) /\ tally' \in 0 .. Len(maps')
        /\ Len(maps) <= Len(maps') /\ Len(maps') \in Nat /\ Len(maps) \in Nat
        /\ baseline' = baseline /\ shared' \in BOOLEAN
    <3>1. CASE Bump(points[at].m)
      BY <2>1, <3>1, BumpMaps
    <3>2. CASE UNCHANGED counts
      BY <2>2, <3>2 DEF counts, TypeOK, Nil
    <3>3. QED
      BY <1>9, <3>1, <3>2 DEF ReadPoint
  <2>4. QED
    BY <1>9, <2>3, SMTT(20) DEF ReadPoint, TypeOK, Phases, shard, schema, ckpt, accum, Chunks, Nil
<1>10. CASE Flushing
  <2>1. PICK after \in {"append", "extract", "drain"} : Flush(after)
    BY <1>10 DEF Flushing
  <2>2. seq + 1 \in 0 .. Len(points) /\ seq \in 0 .. Len(points)
    BY <1>10, <1>l, Position, SMTT(20) DEF Flushing, Closing, TypeOK
  <2> DEFINE job == [seq |-> seq, lines |-> buf, cur |-> ChunkCursor,
                     deltas |-> Deltas(marker.tally, baseline)]
  <2>3. job \in Chunks
    <3>1. Deltas(marker.tally, baseline) \in [Meas -> Nat]
      BY DeltasType DEF TypeOK
    <3>2. marker.cur \in NoCur .. Len(points) /\ buf \subseteq DOMAIN points
      BY DEF TypeOK
    <3>3. QED
      BY <2>2, <3>1, <3>2 DEF Chunks, ChunkCursor
  <2>4. /\ outbox' = IF seq <= committed THEN outbox ELSE Append(outbox, job)
        /\ baseline' = marker.tally /\ seq' = seq + 1 /\ buf' = {} /\ phase' = after
        /\ UNCHANGED <<shard, schema, chunkSize, ckpt, maxBytes, committed, at, marker,
                 maps, tally, shared, runs>>
    BY <2>1 DEF Flush
  <2> HIDE DEF job
  <2>5. outbox' \in Seq(Chunks)
    BY <2>3, <2>4, AppendProperties DEF TypeOK
  <2>6. QED
    BY <2>2, <2>4, <2>5 DEF TypeOK, Phases, shard, schema, ckpt, Chunks
<1>11. CASE AppendLine
  <2>1. at \in DOMAIN points /\ at + 1 \in 1 .. Len(points) + 1 /\ at \in NoCur .. Len(points)
    BY <1>11, <1>l DEF AppendLine, Aligned, Loading, Sent, NoCur
  <2>2. QED
    BY <1>11, <2>1 DEF AppendLine, TypeOK, Phases, shard, schema, ckpt, Chunks
<1>12. CASE EndOfPoints /\ buf = {}
  BY <1>12 DEF EndOfPoints, TypeOK, Phases, shard, schema, ckpt, accum, counts, Chunks
<1>13. CASE Commit
  <2>1. /\ outbox \in Seq(Chunks) /\ outbox # <<>>
    BY <1>13 DEF Commit, TypeOK
  <2>2. Head(outbox) \in Chunks /\ Tail(outbox) \in Seq(Chunks)
    BY <2>1, HeadTailProperties
  <2>3. /\ Head(outbox).seq \in 0 .. Len(points) /\ Head(outbox).cur \in NoCur .. Len(points)
        /\ Head(outbox).deltas \in [Meas -> Nat]
    BY <2>2 DEF Chunks
  <2>4. Plus(audit, Head(outbox).deltas) \in [Meas -> Nat]
    <3>1. PICK f, g \in [Meas -> Nat] : f = audit /\ g = Head(outbox).deltas
      BY <2>3 DEF TypeOK
    <3>2. Plus(f, g) \in [Meas -> Nat]
      BY DEF Plus
    <3>3. QED
      BY <3>1, <3>2
  <2>5. /\ ckSeq' \in NoSeq .. Len(points) /\ ckCur' \in NoCur .. Len(points)
        /\ audit' \in [Meas -> Nat] /\ outbox' \in Seq(Chunks)
    <3>1. /\ ckSeq' = IF Head(outbox).seq > ckSeq THEN Head(outbox).seq ELSE ckSeq
          /\ ckCur' = IF Head(outbox).seq >= ckSeq THEN Head(outbox).cur ELSE ckCur
          /\ audit' = Plus(audit, Head(outbox).deltas)
          /\ outbox' = Tail(outbox)
      BY <1>13 DEF Commit
    <3>2. ckSeq \in NoSeq .. Len(points) /\ ckCur \in NoCur .. Len(points)
      BY DEF TypeOK
    <3>3. Head(outbox).seq \in NoSeq .. Len(points)
      BY <2>3 DEF NoSeq
    <3>4. QED
      BY <2>2, <2>3, <2>4, <3>1, <3>2, <3>3
  <2>6. QED
    BY <1>13, <2>5 DEF Commit, TypeOK, Phases, shard, schema, accum, counts, Chunks, NoSeq
<1>14. CASE FinishShard
  <2>1. FinalDeltas \in [Meas -> Nat]
    BY DeltasType DEF TypeOK, FinalDeltas
  <2>2. Plus(audit, FinalDeltas) \in [Meas -> Nat]
    BY <2>1, SMTT(20) DEF Plus, TypeOK
  <2>3. QED
    BY <1>14, <2>2, ForgetTypes DEF FinishShard, TypeOK, Phases, shard, schema
<1>15. CASE Abort
  BY <1>15, ForgetTypes DEF Abort, TypeOK, Phases, shard, schema, ckpt
<1>16. QED
  BY <1>1, <1>2, <1>3, <1>4, <1>5, <1>6, <1>7, <1>8, <1>9, <1>10, <1>11, <1>12, <1>13,
     <1>14, <1>15, Flushes DEF Next

LEMMA SettingsNext ==
  ASSUME TypeOK, Settings, Aligned, Next
  PROVE  Settings'
<1>1. CASE Open
  <2>1. version \in {1, 2}
    BY DEF TypeOK
  <2>2. QED
    BY <1>1, <2>1 DEF Open, shard, schema, ckpt, locals, Settings, Loading, NoMarker
<1>2. CASE AddColumn
  BY <1>2 DEF AddColumn, shard, ckpt, locals, Settings, Loading, NoMarker
<1>3. CASE DeleteOrphans
  BY <1>3 DEF DeleteOrphans, shard, schema, locals, Settings, Loading, NoMarker
<1>4. CASE StampVersion
  BY <1>4 DEF StampVersion, shard, ckpt, locals, Settings, Loading, NoMarker
<1>5. ASSUME NEW b \in ChunkSizes, CheckConfig(b) PROVE Settings'
  <2>1. b # 0 /\ (SameConfig(b) => chunkSize \in {0, b})
    BY ShardsAssumption DEF SameConfig
  <2>2. QED
    BY <1>5, <2>1 DEF CheckConfig, shard, schema, ckpt, accum, counts, Settings, Loading, NoMarker
<1>6. CASE StartShard
  BY <1>6 DEF StartShard, NothingToLoad, shard, schema, ckpt, counts, Settings, Loading, NoMarker
<1>7. CASE StartEnds
  BY <1>7 DEF StartEnds, ForgetLocals, shard, schema, ckpt, Settings, Loading, NoMarker
<1>8. CASE SkipPoint
  BY <1>8 DEF SkipPoint, shard, schema, ckpt, accum, Settings, Loading, NoMarker
<1>9. CASE ReadPoint
  BY <1>9 DEF ReadPoint, shard, schema, ckpt, accum, counts, Settings, Loading, NoMarker
<1>10. CASE Flushing
  <2>1. PICK after \in {"append", "extract", "drain"} : Flush(after)
    BY <1>10 DEF Flushing
  <2>2. QED
    BY <1>10, <2>1 DEF Flushing, Closing, Flush, shard, schema, ckpt, Settings, Loading, NoMarker
<1>11. CASE AppendLine
  BY <1>11 DEF AppendLine, shard, schema, ckpt, Settings, Loading, NoMarker
<1>12. CASE EndOfPoints /\ buf = {}
  BY <1>12 DEF EndOfPoints, shard, schema, ckpt, accum, counts, Settings, Loading, NoMarker
<1>13. CASE Commit
  BY <1>13 DEF Commit, shard, schema, accum, counts, Settings, Loading, NoMarker
<1>14. CASE FinishShard
  BY <1>14 DEF FinishShard, ForgetLocals, shard, schema, Settings, Loading, NoMarker
<1>15. CASE Abort
  BY <1>15 DEF Abort, ForgetLocals, shard, schema, ckpt, Settings, Loading, NoMarker
<1>16. QED
  BY <1>1, <1>2, <1>3, <1>4, <1>5, <1>6, <1>7, <1>8, <1>9, <1>10, <1>11, <1>12, <1>13, <1>14, <1>15,
     Flushes DEF Next

LEMMA FreshNext ==
  ASSUME TypeOK, Settings, Aligned, Fresh, Pipeline, Next
  PROVE  Fresh'
<1>1. CASE Open
  BY <1>1 DEF Open, shard, schema, ckpt, locals, Fresh, Settings, Loading
<1>2. CASE AddColumn
  BY <1>2 DEF AddColumn, shard, ckpt, locals, Fresh, Settings, Loading
<1>3. CASE DeleteOrphans
  BY <1>3 DEF DeleteOrphans, shard, schema, locals, Fresh, Settings, Loading
<1>4. CASE StampVersion
  BY <1>4 DEF StampVersion, shard, ckpt, locals, Fresh, Settings, Loading
<1>5. ASSUME NEW b \in ChunkSizes, CheckConfig(b) PROVE Fresh'
  BY <1>5 DEF CheckConfig, shard, schema, ckpt, accum, counts, Fresh, Settings, Loading
<1>6. CASE StartShard
  BY <1>6 DEF StartShard, shard, schema, ckpt, counts, Fresh, Settings, Loading
<1>7. CASE StartEnds
  BY <1>7 DEF StartEnds, ForgetLocals, shard, schema, ckpt, Fresh, Settings, Loading
<1>8. CASE SkipPoint
  BY <1>8 DEF SkipPoint, shard, schema, ckpt, accum, Fresh, Settings, Loading
<1>9. CASE ReadPoint
  BY <1>9 DEF ReadPoint, shard, schema, ckpt, accum, counts, Fresh, Settings, Loading
<1>10. CASE Flushing
  <2>1. PICK after \in {"append", "extract", "drain"} : Flush(after)
    BY <1>10 DEF Flushing
  <2>2. QED
    BY <1>10, <2>1 DEF Flushing, Closing, Flush, shard, schema, ckpt, Fresh, Settings, Loading
<1>11. CASE AppendLine
  BY <1>11 DEF AppendLine, shard, schema, ckpt, Fresh, Settings, Loading
<1>12. CASE EndOfPoints /\ buf = {}
  BY <1>12 DEF EndOfPoints, shard, schema, ckpt, accum, counts, Fresh, Settings, Loading
<1>13. CASE Commit
  <2>1. Loading /\ chunkSize # 0 /\ version = 2 /\ ~ckDone
    BY <1>13 DEF Commit, Settings, Loading
  <2>2. Head(outbox).seq # NoSeq
    <3>1. Head(outbox) \in Chunks
      BY <1>13, HeadTailProperties DEF Commit, TypeOK
    <3>2. QED
      BY <3>1 DEF Chunks, NoSeq
  <2>3. ckSeq' \in {ckSeq, Head(outbox).seq} /\ UNCHANGED <<origin, version, ckDone, chunkSize>>
    BY <1>13 DEF Commit, shard, schema
  <2>4. QED
    BY <2>1, <2>2, <2>3 DEF Fresh
<1>14. CASE FinishShard
  BY <1>14 DEF FinishShard, ForgetLocals, shard, schema, Fresh, Settings, Loading
<1>15. CASE Abort
  BY <1>15 DEF Abort, ForgetLocals, shard, schema, ckpt, Fresh, Settings, Loading
<1>16. QED
  BY <1>1, <1>2, <1>3, <1>4, <1>5, <1>6, <1>7, <1>8, <1>9, <1>10, <1>11, <1>12, <1>13, <1>14, <1>15,
     Flushes DEF Next

(* The next commit is that of the chunk after the last one committed.      *)
LEMMA CommitNext ==
  ASSUME TypeOK, Settings, Committed, Aligned, Pipeline, Commit
  PROVE  /\ Loading /\ chunkSize \in Nat \ {0} /\ version = 2 /\ ~ckDone /\ seq > committed
         /\ ckSeq' = ckSeq + 1 /\ ckCur' = End(ckSeq + 1)
         /\ ckSeq \in NoSeq .. NumChunks(points, chunkSize) - 2
         /\ ckSeq + 1 \in 0 .. NumChunks(points, chunkSize) - 1
         /\ \A m \in Acted : audit'[m] = audit[m] + (Count(points, End(ckSeq + 1), m)
                                                    - Count(points, End(ckSeq), m))
<1>1. Loading /\ chunkSize \in Nat \ {0} /\ version = 2 /\ ~ckDone
  BY Settled DEF Commit, Settings, Loading
<1>2. outbox \in Seq(Chunks) /\ outbox # <<>> /\ Head(outbox) = outbox[1] /\ 1 \in DOMAIN outbox
      /\ Len(outbox) \in Nat \ {0}
  BY HeadTailProperties, LenProperties, EmptySeq DEF Commit, TypeOK
<1>3. ~ (seq <= committed) /\ ckSeq + Len(outbox) = seq - 1
  BY <1>1, <1>2 DEF Pipeline
<1>4. /\ Head(outbox).seq = ckSeq + 1 /\ Head(outbox).cur = End(ckSeq + 1)
      /\ \A m \in Acted : Head(outbox).deltas[m] = Count(points, End(ckSeq + 1), m)
                                                   - Count(points, End(ckSeq + 1 - 1), m)
  BY <1>1, <1>2 DEF Pipeline
<1>5. ckSeq \in NoSeq .. Len(points) /\ ckSeq \in Int /\ seq \in Nat /\ committed \in Int
  BY Settled DEF TypeOK, NoSeq
<1>6. seq <= NumChunks(points, chunkSize) /\ NumChunks(points, chunkSize) \in Int
  BY <1>1, Position, Settled, ChunksBound
<1>7. /\ ckSeq \in NoSeq .. NumChunks(points, chunkSize) - 2
      /\ ckSeq + 1 \in 0 .. NumChunks(points, chunkSize) - 1
  BY <1>2, <1>3, <1>5, <1>6 DEF NoSeq
<1>8. ckSeq' = ckSeq + 1 /\ ckCur' = End(ckSeq + 1)
  <2>1. /\ ckSeq' = IF Head(outbox).seq > ckSeq THEN Head(outbox).seq ELSE ckSeq
        /\ ckCur' = IF Head(outbox).seq >= ckSeq THEN Head(outbox).cur ELSE ckCur
    BY DEF Commit
  <2>2. QED
    BY <1>4, <1>5, <2>1
<1>9. ckSeq + 1 - 1 = ckSeq
  BY <1>5
<1>10. \A m \in Acted : audit'[m] = audit[m] + Head(outbox).deltas[m]
  BY DEF Commit, Plus, Acted
<1>11. QED
  BY <1>1, <1>3, <1>4, <1>5, <1>7, <1>8, <1>9, <1>10

LEMMA CommittedNext ==
  ASSUME TypeOK, Settings, Fresh, Committed, Aligned, Pipeline, Next
  PROVE  Committed'
<1>1. CASE Open
  BY <1>1 DEF Open, shard, schema, ckpt, locals, Committed, End
<1>2. CASE AddColumn
  BY <1>2 DEF AddColumn, shard, ckpt, locals, Committed, End
<1>3. CASE DeleteOrphans
  BY <1>3 DEF DeleteOrphans, shard, schema, locals, Committed, End
<1>4. CASE StampVersion
  BY <1>4 DEF StampVersion, shard, ckpt, locals, Committed, End
<1>5. ASSUME NEW b \in ChunkSizes, CheckConfig(b) PROVE Committed'
  <2>1. CASE chunkSize' = chunkSize
    BY <1>5, <2>1 DEF CheckConfig, shard, schema, ckpt, Committed, End
  <2>2. CASE chunkSize' # chunkSize
    <3>1. chunkSize = 0
      BY <1>5, <2>2 DEF CheckConfig
    <3>2. ckSeq = NoSeq /\ ckCur = NoCur /\ ~ckDone
      BY <3>1 DEF Fresh
    <3>3. UNCHANGED <<ckSeq, ckCur, ckDone>>
      BY <1>5 DEF CheckConfig, ckpt
    <3>4. QED
      BY <3>2, <3>3 DEF Committed, End, EndOf
  <2>3. QED
    BY <2>1, <2>2
<1>6. CASE StartShard
  BY <1>6 DEF StartShard, shard, schema, ckpt, counts, Committed, End
<1>7. CASE StartEnds
  BY <1>7 DEF StartEnds, ForgetLocals, shard, schema, ckpt, Committed, End
<1>8. CASE SkipPoint
  BY <1>8 DEF SkipPoint, shard, schema, ckpt, accum, Committed, End
<1>9. CASE ReadPoint
  BY <1>9 DEF ReadPoint, shard, schema, ckpt, accum, counts, Committed, End
<1>10. CASE Flushing
  <2>1. PICK after \in {"append", "extract", "drain"} : Flush(after)
    BY <1>10 DEF Flushing
  <2>2. QED
    BY <1>10, <2>1 DEF Flushing, Closing, Flush, shard, schema, ckpt, Committed, End
<1>11. CASE AppendLine
  BY <1>11 DEF AppendLine, shard, schema, ckpt, Committed, End
<1>12. CASE EndOfPoints /\ buf = {}
  BY <1>12 DEF EndOfPoints, shard, schema, ckpt, accum, counts, Committed, End
<1>13. CASE Commit
  <2>1. /\ chunkSize # 0 /\ ckSeq' = ckSeq + 1 /\ ckCur' = EndOf(points, chunkSize, ckSeq + 1)
        /\ ckSeq + 1 \in 0 .. NumChunks(points, chunkSize) - 1 /\ ~ckDone
    BY <1>13, CommitNext DEF End
  <2>2. ckSeq + 1 # NoSeq
    BY <2>1 DEF NoSeq
  <2>3. UNCHANGED <<points, origin, chunkSize, ckDone, ckTotal>>
    BY <1>13 DEF Commit, shard
  <2>4. QED
    BY <2>1, <2>2, <2>3 DEF Committed, End
<1>14. CASE FinishShard
  <2>1. Loading /\ phase = "drain"
    BY <1>14 DEF FinishShard, Loading
  <2>2. seq = NumChunks(points, chunkSize)
    BY <2>1, Position
  <2>3. UNCHANGED <<points, origin, chunkSize, ckSeq, ckCur>> /\ ckTotal' = seq
    BY <1>14 DEF FinishShard, shard
  <2>4. QED
    BY <2>2, <2>3 DEF Committed, End
<1>15. CASE Abort
  BY <1>15 DEF Abort, ForgetLocals, shard, schema, ckpt, Committed, End
<1>16. QED
  BY <1>1, <1>2, <1>3, <1>4, <1>5, <1>6, <1>7, <1>8, <1>9, <1>10, <1>11, <1>12, <1>13, <1>14, <1>15,
     Flushes DEF Next

(* The line fits its chunk, which it fills up or not.                      *)
LEMMA LineFits ==
  ASSUME TypeOK, Settings, Aligned, AppendLine
  PROVE  /\ at \in 1 .. Len(points) /\ at \in Sent(points) /\ at \notin buf
         /\ Of(at) = seq
         /\ Bytes(buf \cup {at}) = Bytes(buf) + points[at].size
         /\ Bytes(buf) + points[at].size \in Nat \ {0}
         /\ Cuts[at].bytes = IF Bytes(buf) + points[at].size >= maxBytes THEN 0
                             ELSE Bytes(buf) + points[at].size
<1>1. Loading /\ phase = "append"
  BY DEF AppendLine, Loading
<1>2. /\ points \in Seq(Points) /\ Len(points) \in Nat /\ DOMAIN points = 1 .. Len(points)
      /\ chunkSize \in Nat \ {0} /\ maxBytes = chunkSize /\ seq \in Int
  <2>1. seq \in Int
    BY DEF TypeOK
  <2>2. QED
    BY <1>1, <2>1, Settled, Position
<1>3. at \in Sent(points) /\ at \in 1 .. Len(points) /\ at - 1 \in 0 .. Len(points)
  BY <1>1, <1>2 DEF Aligned, Sent
<1>4. points[at].size \in Nat \ {0}
  <2>1. points[at] \in Points
    BY <1>2, <1>3, ElementOfSeq
  <2>2. QED
    BY <2>1 DEF Points
<1>5. at \notin buf /\ buf \in SUBSET DOMAIN points
  BY <1>1, <1>3, SMTT(20) DEF Aligned, TypeOK
<1>6. /\ Bytes({}) = 0 /\ Bytes(buf) \in Nat
      /\ Bytes(buf \cup {at}) = Bytes(buf) + points[at].size
  BY <1>2, <1>3, <1>5, Sizes DEF Bytes
<1>7. CutKnown(points, chunkSize, at - 1)
  BY <1>2, <1>3, CutsKnown
<1> DEFINE c == Cut(points, chunkSize)[at-1]
           d == Cut(points, chunkSize)[at]
           s == IF Joins(points, chunkSize, at, c) THEN c.bytes + points[at].size
                ELSE points[at].size
<1>8. /\ d.of = IF Joins(points, chunkSize, at, c) THEN c.of ELSE c.of + 1
      /\ d.bytes = IF s >= chunkSize THEN 0 ELSE s
  BY <1>2, <1>3, <1>7, CutStep
<1>9. c.of \in Int /\ c.bytes \in Nat
  BY <1>3, <1>7 DEF CutKnown, NoSeq
<1> HIDE DEF c, d
<1>10. /\ c.of = IF buf = {} THEN seq - 1 ELSE seq
       /\ d.of >= seq
       /\ buf # {} => c.bytes > 0 /\ c.bytes = Bytes(buf)
  BY <1>1, <1>3 DEF Aligned, Of, Cuts, c, d
<1>11. buf # {} => Bytes(buf) + points[at].size <= chunkSize
  BY <1>2, <1>4, <1>6 DEF AppendLine, Overflows
<1>12. d.of = seq /\ s = Bytes(buf) + points[at].size
  <2>1. CASE buf = {}
    <3>1. ~Joins(points, chunkSize, at, c)
      BY <1>2, <1>8, <1>9, <1>10, <2>1
    <3>2. QED
      BY <1>2, <1>4, <1>6, <1>8, <1>10, <2>1, <3>1
  <2>2. CASE buf # {}
    <3>1. Joins(points, chunkSize, at, c)
      BY <1>10, <1>11, <2>2 DEF Joins
    <3>2. QED
      BY <1>8, <1>10, <2>2, <3>1
  <2>3. QED
    BY <2>1, <2>2
<1>13. Bytes(buf) + points[at].size \in Nat \ {0}
  BY <1>4, <1>6
<1> HIDE DEF s
<1>14. QED
  BY <1>2, <1>3, <1>5, <1>6, <1>8, <1>12, <1>13 DEF Of, Cuts, d

Stops == \/ Open \/ AddColumn \/ DeleteOrphans \/ StampVersion \/ StartEnds
         \/ FinishShard \/ Abort \/ \E b \in ChunkSizes : CheckConfig(b)

LEMMA NotLoading ==
  ASSUME Stops
  PROVE  ~Loading'
<1>1. CASE Open
  BY <1>1 DEF Open, Loading
<1>2. CASE AddColumn
  BY <1>2 DEF AddColumn, Loading
<1>3. CASE DeleteOrphans \/ StampVersion \/ StartEnds \/ FinishShard \/ Abort
  BY <1>3 DEF DeleteOrphans, StampVersion, StartEnds, FinishShard, Abort, Loading
<1>4. CASE \E b \in ChunkSizes : CheckConfig(b)
  BY <1>4 DEF CheckConfig, Loading
<1>5. QED
  BY <1>1, <1>2, <1>3, <1>4 DEF Stops

LEMMA AlignedNext ==
  ASSUME TypeOK, Settings, Fresh, Committed, Aligned, Pipeline, Next
  PROVE  Aligned'
<1>l. /\ points \in Seq(Points) /\ Len(points) \in Nat /\ DOMAIN points = 1 .. Len(points)
      /\ at \in 1 .. Len(points) + 1 /\ at \in Int /\ seq \in Int
      /\ \A j \in Sent(points) : j \in 1 .. Len(points) /\ j \in Int
  BY Settled, SMTT(20) DEF TypeOK, Sent
<1> DEFINE C == Cut(points, chunkSize)
<1>1. CASE ~Loading'
  BY <1>1 DEF Aligned
<1>2. CASE StartShard
  <2>1. /\ chunkSize \in Nat \ {0} /\ phase = "progress" /\ phase' = "extract" /\ buf = {}
    BY <1>2, Settled DEF StartShard, Settings, Loading
  <2>2. UNCHANGED <<points, chunkSize, buf, marker>> /\ seq' = StartSeq /\ at' = StartAt
    BY <1>2 DEF StartShard, shard
  <2>3. \A j \in 0 .. Len(points) : CutKnown(points, chunkSize, j) /\ C[j].of \in Int
    BY <1>l, <2>1, CutsKnown DEF CutKnown, NoSeq
  <2>4. /\ StartAt - 1 \in 0 .. Len(points) /\ C[StartAt - 1].of = StartSeq - 1
        /\ \A j \in Sent(points) : j >= StartAt => C[j].of >= StartSeq
    <3>1. CASE Seekable
      <4>1. StartSeq = ckSeq + 1 /\ StartAt = ckCur + 1 /\ ckSeq \in Nat /\ ckCur # NoCur
        BY <3>1 DEF StartSeq, StartAt, Seekable, TypeOK, NoSeq
      <4>2. /\ ckCur = EndOf(points, chunkSize, ckSeq)
            /\ ckSeq \in 0 .. NumChunks(points, chunkSize) - 1
        BY <4>1 DEF Committed, End, NoSeq
      <4>3. /\ ckCur \in 1 .. Len(points) /\ C[ckCur].of = ckSeq
            /\ \A y \in ChunkLines(points, chunkSize, ckSeq) : y <= ckCur
        BY <1>l, <2>1, <4>2, ChunkEnd
      <4>4. ASSUME NEW j \in Sent(points), j >= StartAt PROVE C[j].of >= StartSeq
        <5>1. ckCur \in 0 .. Len(points) /\ j \in ckCur .. Len(points)
          BY <1>l, <4>1, <4>3, <4>4
        <5>2. C[ckCur].of <= C[j].of
          BY <1>l, <2>1, <5>1, CutOrder
        <5>3. C[j].of # ckSeq
          BY <1>l, <4>1, <4>3, <4>4 DEF ChunkLines
        <5>4. C[j].of \in Int
          BY <1>l, <2>3
        <5>5. QED
          BY <4>1, <4>3, <5>2, <5>3, <5>4
      <4>5. QED
        BY <4>1, <4>3, <4>4
    <3>2. CASE ~Seekable
      <4>1. StartSeq = 0 /\ StartAt = 1
        BY <3>2 DEF StartSeq, StartAt
      <4>2. C[0].of = -1 /\ C[0].bytes = 0
        BY <1>l, CutSteps DEF Start, NoSeq
      <4>3. ASSUME NEW j \in Sent(points) PROVE C[j].of >= 0
        <5>1. 0 \in 0 .. Len(points) /\ j \in 0 .. Len(points) /\ j # 0
          BY <1>l
        <5>2. C[j].of > C[0].of
          BY <1>l, <2>1, <4>2, <5>1, CutOrder
        <5>3. QED
          BY <2>3, <4>2, <5>1, <5>2
      <4>4. QED
        BY <1>l, <4>1, <4>2, <4>3
    <3>3. QED
      BY <3>1, <3>2
  <2>5. {j \in Sent(points) : j < StartAt /\ C[j].of = StartSeq} = {}
    <3>1. SUFFICES ASSUME NEW j \in Sent(points), j < StartAt, C[j].of = StartSeq PROVE FALSE
      OBVIOUS
    <3>2. StartAt \in Int /\ StartSeq \in Int
      BY DEF StartAt, StartSeq, TypeOK, NoCur, NoSeq
    <3>3. j \in 0 .. Len(points) /\ StartAt - 1 \in j .. Len(points)
      BY <1>l, <2>4, <3>1, <3>2
    <3>4. C[j].of <= C[StartAt - 1].of
      BY <1>l, <2>1, <3>3, CutOrder
    <3>5. QED
      BY <2>4, <3>1, <3>2, <3>4
  <2> HIDE DEF C
  <2>6. /\ buf' = {j \in Sent(points) : j < at' /\ C[j].of = seq'}
        /\ C[at' - 1].of = seq' - 1 /\ buf' = {}
        /\ \A j \in Sent(points) : j >= at' => C[j].of >= seq'
    BY <2>1, <2>2, <2>4, <2>5
  <2>7. QED
    BY <2>1, <2>2, <2>6 DEF Aligned, Of, C
<1>3. CASE SkipPoint
  <2>1. /\ Loading /\ phase = "extract" /\ at \in 1 .. Len(points) /\ at \notin Sent(points)
        /\ UNCHANGED <<points, chunkSize, phase, seq, buf, marker>> /\ at' = at + 1
        /\ chunkSize \in Nat \ {0}
    BY <1>3, <1>l, Position DEF SkipPoint, Loading, Sent, shard, accum
  <2>2. CutKnown(points, chunkSize, at - 1)
    BY <1>l, <2>1, CutsKnown
  <2>3. C[at] = C[at - 1] /\ (at + 1) - 1 = at
    BY <1>l, <2>1, <2>2, CutStep
  <2>4. \A j \in Sent(points) : (j < at <=> j < at + 1) /\ (j >= at <=> j >= at + 1)
    BY <1>l, <2>1
  <2> HIDE DEF C
  <2>5. QED
    BY <2>1, <2>3, <2>4 DEF Aligned, Of, Cuts, Bytes, C
<1>4. CASE ReadPoint
  <2>1. /\ Loading /\ phase = "extract" /\ at \in Sent(points)
        /\ UNCHANGED <<points, chunkSize, seq, buf, marker, at>> /\ phase' = "append"
    BY <1>4, <1>l DEF ReadPoint, Loading, Sent, shard, accum
  <2>2. QED
    BY <2>1 DEF Aligned, Of, Cuts, Bytes
<1>5. CASE Flushing
  <2>1. PICK after \in {"append", "extract", "drain"} :
           /\ Flush(after)
           /\ after = "append" <=> phase = "append"
           /\ after = "drain" => at = Len(points) + 1
    BY <1>5 DEF Flushing
  <2>2. /\ Loading /\ buf # {} /\ \A j \in Sent(points) : j >= at => Of(j) > seq
        /\ UNCHANGED <<points, chunkSize, marker, at>> /\ phase' = after
        /\ seq' = seq + 1 /\ buf' = {}
    BY <1>5, <2>1 DEF Flushing, Closing, Flush, shard
  <2>3. chunkSize \in Nat \ {0} /\ Of(at - 1) = seq
    BY <2>2, Position DEF Aligned
  <2>4. \A j \in Sent(points) : Of(j) \in Int
    <3>1. \A j \in Sent(points) : CutKnown(points, chunkSize, j)
      BY <1>l, <2>3, CutsKnown
    <3>2. QED
      BY <1>l, <3>1 DEF CutKnown, Of, NoSeq
  <2>5. ASSUME NEW j \in Sent(points), j < at PROVE Of(j) <= seq
    <3>1. j \in 0 .. Len(points) /\ at - 1 \in j .. Len(points)
      BY <1>l, <2>5
    <3>2. QED
      BY <1>l, <2>3, <3>1, CutOrder DEF Of
  <2>6. /\ {j \in Sent(points) : j < at /\ Of(j) = seq + 1} = {}
        /\ Of(at - 1) = (seq + 1) - 1
        /\ \A j \in Sent(points) : j >= at => Of(j) >= seq + 1
    BY <1>l, <2>2, <2>3, <2>4, <2>5
  <2>7. phase = "append" => at \in Sent(points)
    BY <2>2 DEF Aligned
  <2>8. QED
    BY <2>1, <2>2, <2>6, <2>7 DEF Aligned, Of
<1>6. CASE AppendLine
  <2>1. /\ Loading /\ phase = "append" /\ UNCHANGED <<points, chunkSize, seq>>
        /\ buf' = buf \cup {at} /\ marker' = [cur |-> at, tally |-> tally]
        /\ at' = at + 1
        /\ phase' = IF Bytes(buf) + points[at].size >= maxBytes THEN "full" ELSE "extract"
    BY <1>6 DEF AppendLine, Loading, shard
  <2>2. /\ at \in 1 .. Len(points) /\ at \in Sent(points)
        /\ Of(at) = seq
        /\ Bytes(buf \cup {at}) = Bytes(buf) + points[at].size
        /\ Bytes(buf) + points[at].size \in Nat \ {0}
        /\ Cuts[at].bytes = IF Bytes(buf) + points[at].size >= maxBytes THEN 0
                             ELSE Bytes(buf) + points[at].size
    BY <1>6, LineFits
  <2>3. /\ buf = {j \in Sent(points) : j < at /\ Of(j) = seq}
        /\ \A j \in Sent(points) : j >= at => Of(j) >= seq
    BY <2>1 DEF Aligned
  <2>4. buf \cup {at} = {j \in Sent(points) : j < at + 1 /\ Of(j) = seq}
    <3>1. \A j \in Sent(points) : j < at + 1 <=> j < at \/ j = at
      BY <1>l
    <3>2. QED
      BY <2>2, <2>3, <3>1
  <2>5. (at + 1) - 1 = at /\ \A j \in Sent(points) : j >= at + 1 => Of(j) >= seq
    BY <1>l, <2>3
  <2>6. at \in buf \cup {at} /\ \A j \in buf \cup {at} : j <= at
    BY <1>l, <2>3
  <2> DEFINE s == Bytes(buf) + points[at].size
  <2> HIDE DEF s
  <2>7. /\ phase' = IF s >= maxBytes THEN "full" ELSE "extract"
        /\ Bytes(buf \cup {at}) = s /\ s > 0
        /\ Cuts[at].bytes = IF s >= maxBytes THEN 0 ELSE s
    BY <2>1, <2>2 DEF s
  <2>8. /\ buf' = {j \in Sent(points) : j < at' /\ Of(j) = seq}
        /\ Of(at' - 1) = seq /\ buf' # {}
        /\ \A j \in Sent(points) : j >= at' => Of(j) >= seq
        /\ Cuts[at'-1].bytes = IF s >= maxBytes THEN 0 ELSE s
        /\ Bytes(buf') = s
        /\ marker'.cur \in buf' /\ \A j \in buf' : j <= marker'.cur
    BY <2>1, <2>2, <2>4, <2>5, <2>6, <2>7
  <2>9. /\ UNCHANGED <<points, chunkSize, seq>> /\ phase' \in {"full", "extract"}
    BY <2>1
  <2>10. QED
    BY <2>7, <2>8, <2>9 DEF Aligned, Of, Cuts, Bytes
<1>7. CASE EndOfPoints /\ buf = {}
  <2>1. /\ Loading /\ phase = "extract" /\ phase' = "drain" /\ at = Len(points) + 1
        /\ UNCHANGED <<points, chunkSize, seq, buf, marker, at>>
    BY <1>7, <1>l DEF EndOfPoints, Loading, shard, accum
  <2>2. QED
    BY <1>7, <2>1 DEF Aligned, Of, Cuts, Bytes
<1>8. CASE Commit
  <2>1. Loading /\ UNCHANGED <<points, chunkSize, phase, seq, buf, marker, at>>
    BY <1>8 DEF Commit, Settings, shard, accum
  <2>2. QED
    BY <2>1 DEF Aligned, Of, Cuts, Bytes, Loading
<1>9. CASE Stops
  BY <1>1, <1>9, NotLoading
<1>10. QED
  BY <1>2, <1>3, <1>4, <1>5, <1>6, <1>7, <1>8, <1>9, Flushes DEF Next, Stops

(* What a marker's map counts beyond the baseline is what the chunk holds. *)
LEMMA ChunkDeltas ==
  ASSUME TypeOK, Settings, Aligned, Tallies, Closing, NEW m \in Acted
  PROVE  Deltas(marker.tally, baseline)[m] = Count(points, End(seq), m) - Count(points, End(seq - 1), m)
<1>1. m \in Meas
  BY DEF Acted
<1>2. Tallied(marker.tally)[m] = Tallied(baseline)[m]
             + Count(points, marker.cur, m) - Count(points, End(seq - 1), m)
  BY DEF Tallies, Closing
<1>3. /\ End(seq) = marker.cur /\ marker.cur \in Int
      /\ End(seq - 1) \in Int /\ End(seq - 1) <= marker.cur
  BY Closed
<1>4. PICK a, b, x, y \in Nat : /\ a = Count(points, End(seq - 1), m) /\ b = Count(points, marker.cur, m)
                                /\ x = Tallied(marker.tally)[m] /\ y = Tallied(baseline)[m]
  <2>1. Count(points, End(seq - 1), m) \in Nat /\ Count(points, marker.cur, m) \in Nat
    BY <1>3, Counts, Settled
  <2>2. Tallied(marker.tally)[m] \in Nat /\ Tallied(baseline)[m] \in Nat
    BY <1>1, DeltasType DEF TypeOK
  <2>3. QED
    BY <2>1, <2>2
<1>5. a <= b
  BY <1>3, <1>4, Counts, Settled
<1>6. x = y + b - a
  BY <1>2, <1>4
<1>7. Deltas(marker.tally, baseline)[m] = IF x > y THEN x - y ELSE 0
  BY <1>1, <1>4 DEF Deltas
<1>8. Deltas(marker.tally, baseline)[m] = b - a
  BY ONLY <1>5, <1>6, <1>7, a \in Nat, b \in Nat, x \in Nat, y \in Nat
<1>9. QED
  BY <1>3, <1>4, <1>8

LEMMA PipelineNext ==
  ASSUME TypeOK, Settings, Fresh, Committed, Aligned, Pipeline, Tallies, Next
  PROVE  Pipeline'
<1>l. /\ points \in Seq(Points) /\ ckSeq \in Int /\ seq \in Nat /\ committed \in Int
      /\ outbox \in Seq(Chunks) /\ Len(outbox) \in Nat /\ DOMAIN outbox = 1 .. Len(outbox)
  BY Settled, LenProperties DEF TypeOK, NoSeq
<1> DEFINE Fits(o, q, k) ==
         /\ o[q].seq = k + q
         /\ o[q].lines = ChunkLines(points, chunkSize, k + q)
         /\ o[q].cur = EndOf(points, chunkSize, k + q)
         /\ \A m \in Acted :
              o[q].deltas[m] = Count(points, EndOf(points, chunkSize, k + q), m)
                               - Count(points, EndOf(points, chunkSize, k + q - 1), m)
<1>1. ASSUME UNCHANGED <<points, chunkSize>>,
             IF seq' <= committed' THEN outbox' = <<>> /\ ckSeq' = committed'
                                   ELSE ckSeq' + Len(outbox') = seq' - 1,
             \A q \in DOMAIN outbox' : Fits(outbox', q, ckSeq')
      PROVE  Pipeline'
  BY <1>1 DEF Pipeline, Lines, End
<1>2. Loading => \A q \in DOMAIN outbox : Fits(outbox, q, ckSeq)
  BY DEF Pipeline, Lines, End
<1> HIDE DEF Fits
<1>3. CASE Stops
  BY <1>3, NotLoading DEF Pipeline
<1>4. CASE StartShard
  <2>1. outbox = <<>> /\ UNCHANGED <<points, chunkSize, outbox, ckSeq>>
        /\ seq' = StartSeq /\ committed' = ckSeq
    BY <1>4 DEF StartShard, Settings, Loading, shard, ckpt
  <2>2. StartSeq = ckSeq + 1 \/ (StartSeq = 0 /\ ckSeq >= 0) \/ (StartSeq = 0 /\ ckSeq = -1)
    BY <1>l DEF StartSeq, TypeOK, NoSeq
  <2>3. Len(<<>>) = 0 /\ DOMAIN <<>> = {}
    OBVIOUS
  <2>4. QED
    BY <1>1, <1>l, <2>1, <2>2, <2>3
<1>5. CASE SkipPoint \/ ReadPoint \/ AppendLine \/ (EndOfPoints /\ buf = {})
  <2>1. Loading
    BY <1>5 DEF SkipPoint, ReadPoint, AppendLine, EndOfPoints, Loading
  <2>2. UNCHANGED <<points, chunkSize, seq, committed, outbox, ckSeq>>
    <3>1. CASE SkipPoint
      BY <3>1 DEF SkipPoint, shard, ckpt, accum
    <3>2. CASE ReadPoint
      BY <3>2 DEF ReadPoint, shard, ckpt, accum
    <3>3. CASE AppendLine
      BY <3>3 DEF AppendLine, shard, ckpt
    <3>4. CASE EndOfPoints /\ buf = {}
      BY <3>4 DEF EndOfPoints, shard, ckpt, accum
    <3>5. QED
      BY <1>5, <3>1, <3>2, <3>3, <3>4
  <2>3. QED
    BY <1>2, <2>1, <2>2, <1>1 DEF Pipeline
<1>6. CASE Flushing
  <2> DEFINE job == [seq |-> seq, lines |-> buf, cur |-> ChunkCursor,
                     deltas |-> Deltas(marker.tally, baseline)]
  <2>1. /\ Loading /\ Closing /\ UNCHANGED <<points, chunkSize, committed, ckSeq>>
        /\ seq' = seq + 1
        /\ outbox' = IF seq <= committed THEN outbox ELSE Append(outbox, job)
    BY <1>6 DEF Flushing, Closing, Flush, shard, ckpt
  <2>2. CASE seq <= committed
    <3>1. outbox = <<>> /\ ckSeq = committed /\ outbox' = <<>>
      BY <2>1, <2>2 DEF Pipeline
    <3>2. Len(<<>>) = 0 /\ DOMAIN <<>> = {}
      OBVIOUS
    <3> HIDE DEF job
    <3>3. QED
      BY <1>1, <1>l, <2>1, <2>2, <3>1, <3>2
  <2>3. CASE seq > committed
    <3>1. /\ job.seq = seq /\ job.lines = ChunkLines(points, chunkSize, seq)
          /\ job.cur = EndOf(points, chunkSize, seq)
      BY <2>1, Closed DEF Lines, End, ChunkCursor
    <3>2. \A m \in Acted : job.deltas[m] = Count(points, EndOf(points, chunkSize, seq), m)
                               - Count(points, EndOf(points, chunkSize, seq - 1), m)
      BY <2>1, ChunkDeltas DEF End
    <3> HIDE DEF job
    <3>3. PICK n \in Nat : n = Len(outbox)
      BY <1>l
    <3>4. ckSeq + n = seq - 1 /\ outbox' = Append(outbox, job)
      <4>1. ~ (seq <= committed)
        BY <1>l, <2>3
      <4>2. ckSeq + Len(outbox) = seq - 1
        BY <2>1, <4>1 DEF Pipeline
      <4>3. QED
        BY <2>1, <3>3, <4>1, <4>2
    <3>5. /\ Len(outbox') = n + 1 /\ DOMAIN outbox' = 1 .. n + 1
          /\ \A q \in 1 .. n : outbox'[q] = outbox[q]
          /\ outbox'[n + 1] = job
      BY <1>l, <3>3, <3>4, AppendProperties
    <3>6. ckSeq + (n + 1) = seq /\ ckSeq + (n + 1) - 1 = seq - 1
      BY <1>l, <3>4
    <3>7. Fits(outbox', n + 1, ckSeq)
      BY <3>1, <3>2, <3>5, <3>6 DEF Fits
    <3>8. ASSUME NEW q \in 1 .. n PROVE Fits(outbox', q, ckSeq)
      <4>1. Fits(outbox, q, ckSeq) /\ outbox'[q] = outbox[q]
        BY <1>2, <1>l, <2>1, <3>3, <3>5
      <4>2. QED
        BY <4>1 DEF Fits
    <3>9. ASSUME NEW q \in DOMAIN outbox' PROVE Fits(outbox', q, ckSeq')
      <4>1. q \in 1 .. n \/ q = n + 1
        BY <3>5
      <4>2. QED
        BY <2>1, <3>7, <3>8, <4>1
    <3>10. ~ (seq' <= committed') /\ ckSeq' + Len(outbox') = seq' - 1
      BY <1>l, <2>1, <2>3, <3>3, <3>5, <3>6
    <3>11. QED
      BY <1>1, <2>1, <3>9, <3>10
  <2>4. QED
    BY <1>l, <2>2, <2>3
<1>7. CASE Commit
  <2>1. /\ Loading /\ outbox # <<>> /\ outbox' = Tail(outbox) /\ ckSeq' = ckSeq + 1 /\ seq > committed
        /\ UNCHANGED <<points, chunkSize, seq, committed>>
    BY <1>7, CommitNext DEF Commit, shard, accum
  <2>2. PICK n \in Nat : n = Len(outbox)
    BY <1>l
  <2>3. /\ Len(outbox') = n - 1 /\ DOMAIN outbox' = 1 .. n - 1
        /\ \A q \in 1 .. n - 1 : outbox'[q] = outbox[q + 1]
    BY <1>l, <2>1, <2>2, HeadTailProperties, LenProperties
  <2>4. ckSeq + n = seq - 1
    BY <1>l, <2>1, <2>2 DEF Pipeline
  <2>5. ASSUME NEW q \in 1 .. n - 1 PROVE Fits(outbox', q, ckSeq + 1)
    <3>1. /\ q + 1 \in DOMAIN outbox /\ ckSeq + (q + 1) = (ckSeq + 1) + q
          /\ ckSeq + (q + 1) - 1 = (ckSeq + 1) + q - 1
      BY <1>l, <2>2
    <3>2. Fits(outbox, q + 1, ckSeq) /\ outbox'[q] = outbox[q + 1]
      BY <1>2, <2>1, <2>3, <3>1
    <3>3. QED
      BY <3>1, <3>2 DEF Fits
  <2>6. ~ (seq' <= committed') /\ ckSeq' + Len(outbox') = seq' - 1
    <3>1. ~ (seq' <= committed')
      BY <1>l, <2>1
    <3>2. (ckSeq + 1) + (n - 1) = seq - 1
      BY <1>l, <2>4
    <3>3. QED
      BY <2>1, <2>3, <3>1, <3>2
  <2>7. QED
    BY <1>1, <2>1, <2>3, <2>5, <2>6
<1>8. QED
  BY <1>3, <1>4, <1>5, <1>6, <1>7, Flushes DEF Next, Stops

LEMMA UnsharedNext ==
  ASSUME TypeOK, Settings, Aligned, Unshared, Next
  PROVE  Unshared'
<1>l. Len(maps) \in Nat /\ baseline \in 0 .. Len(maps) /\ marker.tally \in 0 .. Len(maps)
  BY LenProperties DEF TypeOK, Nil
<1>b. ASSUME NEW m \in Meas, Bump(m), marker' = marker PROVE Unshared'
  <2>1. CASE MustClone
    <3>1. tally' = Len(maps) + 1 /\ baseline' = baseline
      BY <1>b, <2>1 DEF Bump
    <3>2. QED
      BY <1>l, <1>b, <3>1 DEF Unshared
  <2>2. CASE ~MustClone
    BY <1>b, <2>2 DEF Bump, Unshared
  <2>3. QED
    BY <2>1, <2>2
<1>p. at <= Len(points) => points[at].m \in Meas
  <2>1. SUFFICES ASSUME at <= Len(points) PROVE points[at].m \in Meas
    OBVIOUS
  <2>2. at \in 1 .. Len(points)
    BY <2>1, Settled DEF TypeOK
  <2>3. points[at] \in Points
    BY <2>2, Settled, ElementOfSeq
  <2>4. QED
    BY <2>3 DEF Points
<1>1. CASE SkipPoint
  BY <1>1, <1>b, <1>p DEF SkipPoint, accum
<1>2. CASE ReadPoint
  <2>1. marker' = marker /\ (Bump(points[at].m) \/ UNCHANGED counts)
    BY <1>2 DEF ReadPoint, accum
  <2>2. CASE UNCHANGED counts
    BY <2>1, <2>2 DEF Unshared, counts
  <2>3. QED
    BY <1>2, <1>b, <1>p, <2>1, <2>2 DEF ReadPoint
<1>3. CASE Flushing
  BY <1>3 DEF Flushing, Flush, Unshared
<1>4. CASE AppendLine
  BY <1>4 DEF AppendLine, Unshared
<1>5. CASE StartEnds \/ FinishShard \/ Abort
  BY <1>5 DEF StartEnds, FinishShard, Abort, ForgetLocals, Unshared
<1>6. CASE Open
  BY <1>6 DEF Open, locals, Unshared
<1>7. CASE AddColumn
  BY <1>7 DEF AddColumn, locals, Unshared
<1>8. CASE DeleteOrphans
  BY <1>8 DEF DeleteOrphans, locals, Unshared
<1>9. CASE StampVersion
  BY <1>9 DEF StampVersion, locals, Unshared
<1>10. ASSUME NEW b \in ChunkSizes, CheckConfig(b) PROVE Unshared'
  BY <1>10 DEF CheckConfig, accum, counts, Unshared
<1>11. CASE StartShard
  BY <1>11 DEF StartShard, counts, Unshared
<1>12. CASE EndOfPoints /\ buf = {}
  BY <1>12 DEF EndOfPoints, accum, counts, Unshared
<1>13. CASE Commit
  BY <1>13 DEF Commit, accum, counts, Unshared
<1>14. QED
  BY <1>1, <1>2, <1>3, <1>4, <1>5, <1>6, <1>7, <1>8, <1>9, <1>10, <1>11, <1>12, <1>13,
     Flushes DEF Next

LEMMA TalliesNext ==
  ASSUME TypeOK, Settings, Fresh, Committed, Aligned, Pipeline, Unshared, Tallies, Next
  PROVE  Tallies'
<1>l. /\ points \in Seq(Points) /\ Len(points) \in Nat /\ seq \in Nat
      /\ at \in 1 .. Len(points) + 1 /\ at \in Int
  BY Settled DEF TypeOK
<1> DEFINE Before(k) == EndOf(points, chunkSize, k - 1)
           N(n, m) == Count(points, n, m)
<1>1. CASE Stops
  BY <1>1, NotLoading DEF Tallies
<1>2. CASE StartShard
  <2>1. /\ buf = {} /\ tally = Nil /\ baseline = Nil
        /\ UNCHANGED <<points, chunkSize, buf, maps, tally, baseline>>
        /\ seq' = StartSeq /\ at' = StartAt /\ phase' = "extract"
    BY <1>2 DEF StartShard, Settings, Loading, shard, counts
  <2>2. StartAt - 1 = Before(StartSeq) /\ StartAt - 1 \in Int
    <3>1. CASE Seekable
      <4>1. StartSeq - 1 = ckSeq /\ StartAt - 1 = ckCur /\ ckCur = EndOf(points, chunkSize, ckSeq)
            /\ ckCur \in Int
        BY <3>1 DEF StartSeq, StartAt, Seekable, TypeOK, Committed, End, NoSeq, NoCur
      <4>2. QED
        BY <4>1
    <3>2. CASE ~Seekable
      <4>1. StartSeq - 1 = NoSeq /\ StartAt - 1 = NoCur
        BY <3>2 DEF StartSeq, StartAt, NoSeq, NoCur
      <4>2. QED
        BY <4>1 DEF EndOf, NoCur
    <3>3. QED
      BY <3>1, <3>2
  <2>3. ASSUME NEW m \in Acted
        PROVE  ZeroCounts[m] = ZeroCounts[m] + N(StartAt - 1, m) - N(Before(StartSeq), m)
    <3>1. N(StartAt - 1, m) \in Nat
      BY <1>l, <2>2, Counts
    <3>2. ZeroCounts[m] = 0
      BY DEF ZeroCounts, Acted
    <3>3. QED
      BY <2>2, <3>1, <3>2
  <2> HIDE DEF Before, N
  <2>4. QED
    BY <2>1, <2>3 DEF Tallies, Tallied, Seen, End, Before, N
<1>3. ASSUME at <= Len(points), Bump(points[at].m), phase = "extract", marker' = marker,
             UNCHANGED <<points, chunkSize, buf, seq>>, Seen' = at
      PROVE  Tallies'
  <2>1. at \in 1 .. Len(points) /\ Loading
    BY <1>3, <1>l DEF Loading
  <2>2. points[at].m \in Meas
    <3>1. points[at] \in Points
      BY <1>l, <2>1, ElementOfSeq
    <3>2. QED
      BY <3>1 DEF Points
  <2>3. /\ \A x \in Meas : Tallied(tally)'[x] = Tallied(tally)[x] + (IF x = points[at].m THEN 1 ELSE 0)
        /\ Tallied(baseline)' = Tallied(baseline)
        /\ Tallied(marker.tally)' = Tallied(marker.tally)
    BY <1>3, <2>2, BumpCounts
  <2>4. ASSUME NEW m \in Acted
        PROVE  Tallied(tally)'[m] = Tallied(baseline)[m] + N(at, m) - N(Before(seq), m)
    <3>1. m \in Meas
      BY DEF Acted
    <3>2. N(at, m) = N(at - 1, m) + (IF points[at].m = m THEN 1 ELSE 0)
      BY <1>l, <2>1, CountNext
    <3>3. Tallied(tally)[m] = Tallied(baseline)[m] + N(at - 1, m) - N(Before(seq), m)
      BY <1>3, <2>1 DEF Tallies, Seen, End
    <3>4. Before(seq) \in Int
      BY <2>1, BeforeIsInt DEF End
    <3>5. PICK a, b, c, d \in Nat : /\ a = Tallied(tally)[m] /\ b = Tallied(baseline)[m]
                                    /\ c = N(at - 1, m) /\ d = N(Before(seq), m)
      <4>1. Tallied(tally)[m] \in Nat /\ Tallied(baseline)[m] \in Nat
        BY <3>1, DeltasType DEF TypeOK
      <4>2. N(at - 1, m) \in Nat /\ N(Before(seq), m) \in Nat
        BY <1>l, <3>4, Counts
      <4> HIDE DEF N, Before
      <4>3. QED
        BY <4>1, <4>2
    <3>6. PICK e \in {0, 1} : e = IF points[at].m = m THEN 1 ELSE 0
      OBVIOUS
    <3>7. Tallied(tally)'[m] = a + e
      BY <2>3, <3>1, <3>5, <3>6
    <3> HIDE DEF N, Before
    <3>8. N(at, m) = c + e /\ a = b + c - d
      BY <3>2, <3>3, <3>5, <3>6
    <3>9. QED
      BY <3>5, <3>7, <3>8
  <2>5. \A m \in Acted : buf # {} =>
          Tallied(marker.tally)[m] = Tallied(baseline)[m] + N(marker.cur, m) - N(Before(seq), m)
    BY <2>1 DEF Tallies, End
  <2> HIDE DEF Before, N
  <2>6. QED
    BY <1>3, <2>3, <2>4, <2>5 DEF Tallies, End, Before, N
<1>4. CASE SkipPoint
  <2>1. Seen' = at
    <3>1. at' = at + 1 /\ phase' = "extract"
      BY <1>4 DEF SkipPoint
    <3>2. QED
      BY <1>l, <3>1 DEF Seen
  <2>2. QED
    BY <1>3, <1>4, <2>1 DEF SkipPoint, shard, accum
<1>5. CASE ReadPoint
  <2>1. /\ at \in 1 .. Len(points) /\ phase = "extract" /\ Loading /\ phase' = "append"
        /\ UNCHANGED <<points, chunkSize, buf, seq, at, marker>>
    BY <1>5, <1>l DEF ReadPoint, shard, accum, Loading
  <2>2. Seen' = at
    BY <2>1 DEF Seen
  <2>3. CASE Bump(points[at].m)
    BY <1>3, <2>1, <2>2, <2>3
  <2>4. CASE Resolution[points[at].m] = "kept" /\ UNCHANGED counts
    <3>1. ASSUME NEW m \in Acted PROVE N(at, m) = N(at - 1, m)
      <4>1. points[at].m # m
        BY <2>4 DEF Acted
      <4>2. N(at - 1, m) \in Nat
        BY <1>l, Counts
      <4>3. N(at, m) = N(at - 1, m) + (IF points[at].m = m THEN 1 ELSE 0)
        BY <1>l, <2>1, CountNext
      <4> HIDE DEF N
      <4>4. QED
        BY <4>1, <4>2, <4>3
    <3>2. /\ UNCHANGED <<maps, tally, baseline>> /\ Seen = at - 1
      BY <2>1, <2>4 DEF counts, Seen
    <3>3. QED
      BY <2>1, <2>2, <3>1, <3>2 DEF Tallies, Tallied, End
  <2>5. QED
    BY <1>5, <2>3, <2>4 DEF ReadPoint
<1>6. CASE Flushing
  <2>1. PICK after \in {"append", "extract", "drain"} :
           /\ Flush(after)
           /\ after = "append" <=> phase = "append"
    BY <1>6 DEF Flushing
  <2>2. /\ Closing /\ Loading /\ buf # {}
        /\ UNCHANGED <<points, chunkSize, at, marker, maps, tally>>
        /\ baseline' = marker.tally /\ seq' = seq + 1 /\ buf' = {} /\ phase' = after
    BY <1>6, <2>1 DEF Flushing, Closing, Flush, shard
  <2>3. /\ Seen' = Seen /\ (seq + 1) - 1 = seq /\ Seen \in Int
    BY <1>l, <2>1, <2>2 DEF Seen
  <2>4. /\ marker.cur = End(seq) /\ marker.cur \in Int /\ End(seq - 1) \in Int
    BY <2>2, Closed
  <2>5. ASSUME NEW m \in Acted
        PROVE  Tallied(tally)[m] = Tallied(marker.tally)[m] + N(Seen, m) - N(End(seq), m)
    <3>1. /\ Tallied(tally)[m] = Tallied(baseline)[m] + N(Seen, m) - N(End(seq - 1), m)
          /\ Tallied(marker.tally)[m] = Tallied(baseline)[m] + N(End(seq), m) - N(End(seq - 1), m)
      BY <2>2, <2>4 DEF Tallies
    <3>2. /\ N(Seen, m) \in Nat /\ N(End(seq), m) \in Nat /\ N(End(seq - 1), m) \in Nat
      BY <1>l, <2>3, <2>4, Counts
    <3>3. /\ Tallied(tally)[m] \in Nat /\ Tallied(baseline)[m] \in Nat
          /\ Tallied(marker.tally)[m] \in Nat
      BY DeltasType DEF TypeOK, Acted
    <3> HIDE DEF N
    <3>4. QED
      BY ONLY <3>1, <3>2, <3>3
  <2>6. QED
    BY <2>2, <2>3, <2>5 DEF Tallies, Tallied, End
<1>7. CASE AppendLine
  <2>1. /\ phase = "append" /\ Loading /\ phase' \in {"full", "extract"} /\ at' = at + 1
        /\ marker' = [cur |-> at, tally |-> tally]
        /\ UNCHANGED <<points, chunkSize, seq, maps, tally, baseline>>
    BY <1>7 DEF AppendLine, Loading, shard
  <2>2. Seen = at /\ Seen' = at
    BY <1>l, <2>1 DEF Seen
  <2>3. marker'.cur = at /\ marker'.tally = tally
    BY <2>1
  <2>4. QED
    BY <2>1, <2>2, <2>3 DEF Tallies, Tallied, End
<1>8. CASE EndOfPoints /\ buf = {}
  <2>1. /\ phase = "extract" /\ Loading /\ phase' = "drain"
        /\ UNCHANGED <<points, chunkSize, seq, buf, marker, at, maps, tally, baseline>>
    BY <1>8 DEF EndOfPoints, Loading, shard, accum, counts
  <2>2. Seen' = Seen
    BY <2>1 DEF Seen
  <2>3. QED
    BY <2>1, <2>2 DEF Tallies, Tallied, End
<1>9. CASE Commit
  <2>1. Loading /\ UNCHANGED <<points, chunkSize, seq, buf, marker, at, maps, tally, baseline, phase>>
    BY <1>9 DEF Commit, Settings, shard, accum, counts
  <2>2. Seen' = Seen
    BY <2>1 DEF Seen
  <2>3. QED
    BY <2>1, <2>2 DEF Tallies, Tallied, End
<1>10. QED
  BY <1>1, <1>2, <1>4, <1>5, <1>6, <1>7, <1>8, <1>9, Flushes DEF Next, Stops

(* The points behind the last chunk, at the end of the extraction.         *)
LEMMA LastDeltas ==
  ASSUME TypeOK, Settings, Fresh, Committed, Aligned, Pipeline, Tallies, FinishShard
  PROVE  /\ Loading /\ version = 2 /\ ~ckDone /\ ckSeq = seq - 1
         /\ End(ckSeq) \in 0 .. Len(points)
         /\ \A m \in Acted : FinalDeltas[m] = Count(points, Len(points), m)
                                              - Count(points, End(ckSeq), m)
<1>l. /\ points \in Seq(Points) /\ Len(points) \in Nat /\ seq \in Nat
      /\ ckSeq \in Int /\ committed \in Int
  BY Settled DEF TypeOK, NoSeq
<1>1. /\ Loading /\ version = 2 /\ ~ckDone /\ phase = "drain" /\ outbox = <<>> /\ chunkSize \in Nat \ {0}
  BY Settled DEF FinishShard, Settings, Loading
<1>2. seq = NumChunks(points, chunkSize)
  BY <1>1, Position
<1>3. ckSeq = seq - 1
  <2>1. ckSeq <= seq - 1
    <3>1. CASE ckSeq = NoSeq
      BY <1>l, <3>1 DEF NoSeq
    <3>2. CASE ckSeq \in 0 .. NumChunks(points, chunkSize) - 1
      BY <1>l, <1>2, <3>2
    <3>3. QED
      BY <3>1, <3>2 DEF Committed
  <2>2. CASE seq <= committed
    <3>1. ckSeq = committed
      BY <1>1, <2>2 DEF Pipeline
    <3>2. QED
      BY <1>l, <2>1, <2>2, <3>1
  <2>3. CASE ~ (seq <= committed)
    <3>1. ckSeq + Len(outbox) = seq - 1 /\ Len(outbox) = 0
      BY <1>1, <2>3, EmptySeq DEF Pipeline
    <3>2. QED
      BY <1>l, <3>1
  <2>4. QED
    BY <2>2, <2>3
<1>4. End(ckSeq) \in 0 .. Len(points)
  BY <1>1, <1>3, BeforeIsInt
<1>5. Seen = Len(points)
  <2>1. at = Len(points) + 1
    BY <1>1 DEF Aligned
  <2>2. QED
    BY <1>l, <1>1, <2>1 DEF Seen
<1>6. ASSUME NEW m \in Acted
      PROVE  FinalDeltas[m] = Count(points, Len(points), m) - Count(points, End(ckSeq), m)
  <2>1. m \in Meas
    BY DEF Acted
  <2>2. Tallied(tally)[m] = Tallied(baseline)[m] + Count(points, Len(points), m)
                            - Count(points, End(ckSeq), m)
    BY <1>1, <1>3, <1>5 DEF Tallies
  <2>3. PICK a, b, x, y \in Nat : /\ a = Count(points, End(ckSeq), m) /\ b = Count(points, Len(points), m)
                                  /\ x = Tallied(tally)[m] /\ y = Tallied(baseline)[m]
    <3>1. Count(points, End(ckSeq), m) \in Nat /\ Count(points, Len(points), m) \in Nat
      BY <1>l, <1>4, Counts
    <3>2. Tallied(tally)[m] \in Nat /\ Tallied(baseline)[m] \in Nat
      BY <2>1, DeltasType DEF TypeOK
    <3>3. QED
      BY <3>1, <3>2
  <2>4. a <= b
    <3>1. End(ckSeq) \in Int /\ Len(points) \in Int /\ End(ckSeq) <= Len(points)
      BY <1>l, <1>4
    <3>2. QED
      BY <1>l, <2>3, <3>1, Counts
  <2>5. x = y + b - a
    BY <2>2, <2>3
  <2>6. FinalDeltas[m] = IF x > y THEN x - y ELSE 0
    BY <2>1, <2>3 DEF Deltas, FinalDeltas
  <2>7. FinalDeltas[m] = b - a
    BY ONLY <2>4, <2>5, <2>6, a \in Nat, b \in Nat, x \in Nat, y \in Nat
  <2>8. QED
    BY <2>3, <2>7
<1>7. QED
  BY <1>1, <1>3, <1>4, <1>6

LEMMA AuditNext ==
  ASSUME TypeOK, Settings, Fresh, Committed, Aligned, Pipeline, Tallies, AuditKept, Next
  PROVE  AuditKept'
<1>l. /\ points \in Seq(Points) /\ Len(points) \in Nat /\ version \in {1, 2}
      /\ audit \in [Meas -> Nat] /\ \A m \in Acted : m \in Meas /\ audit[m] \in Nat
  BY Settled DEF TypeOK, Acted
<1> DEFINE N(n, m) == Count(points, n, m)
           All(m) == N(Len(points), m)
           Upto(m) == N(EndOf(points, chunkSize, ckSeq), m)
<1>1. ASSUME UNCHANGED <<points, origin, audit, ckSeq, ckDone>>,
             EndOf(points, chunkSize', ckSeq) = EndOf(points, chunkSize, ckSeq),
             version' = 2 \/ phase' = "stamp" => version = 2 \/ phase = "stamp"
      PROVE  AuditKept'
  BY <1>1 DEF AuditKept, End
<1>2. CASE Open
  BY <1>1, <1>2 DEF Open, shard, schema, ckpt
<1>3. CASE AddColumn
  BY <1>1, <1>3 DEF AddColumn, shard, ckpt
<1>4. CASE StampVersion
  BY <1>1, <1>4 DEF StampVersion, shard, ckpt
<1>5. CASE DeleteOrphans
  <2>1. UNCHANGED <<points, origin, chunkSize, ckSeq, ckDone>>
        /\ audit' = IF Orphaned THEN ZeroCounts ELSE audit
    BY <1>5 DEF DeleteOrphans, shard, schema
  <2>2. version = 1
    BY <1>5 DEF DeleteOrphans, Settings
  <2>3. CASE Orphaned
    <3>1. /\ \A m \in Acted : audit'[m] = 0 /\ origin # "new" /\ ~ckDone
      BY <2>1, <2>2, <2>3 DEF ZeroCounts, Acted, Orphaned, Fresh
    <3>2. EndOf(points, chunkSize, ckSeq) \in Int
      <4>1. ckSeq \in 0 .. NumChunks(points, chunkSize) - 1 /\ chunkSize \in Nat \ {0}
        BY <2>3, Settled DEF Orphaned, Committed
      <4>2. QED
        BY <1>l, <4>1, ChunkEnd
    <3>3. \A m \in Acted : Upto(m) \in Nat /\ All(m) \in Nat
      BY <1>l, <3>2, Counts
    <3> HIDE DEF N
    <3>4. QED
      BY <2>1, <3>1, <3>3 DEF AuditKept, End, N
  <2>4. CASE ~Orphaned
    <3>1. audit' = audit
      BY <2>1, <2>4
    <3>2. ASSUME NEW m \in Acted, origin # "chunkless", ~ckDone PROVE audit[m] <= Upto(m)
      <4>1. ckSeq = NoSeq
        BY <2>4, <3>2 DEF Orphaned
      <4>2. origin = "new"
        BY <3>2, <4>1, ShardsAssumption DEF Fresh, TypeOK
      <4>3. audit[m] = Upto(m)
        BY <3>2, <4>2 DEF AuditKept, End
      <4>4. QED
        BY <1>l, <4>3
    <3>3. QED
      BY <2>1, <3>1, <3>2 DEF AuditKept, End
  <2>5. QED
    BY <2>3, <2>4
<1>6. ASSUME NEW b \in ChunkSizes, CheckConfig(b) PROVE AuditKept'
  <2>1. EndOf(points, chunkSize', ckSeq) = EndOf(points, chunkSize, ckSeq)
    <3>1. CASE chunkSize = 0
      BY <3>1 DEF Fresh, EndOf
    <3>2. CASE chunkSize # 0
      BY <1>6, <3>2 DEF CheckConfig
    <3>3. QED
      BY <3>1, <3>2
  <2>2. UNCHANGED <<points, origin, audit, ckSeq, ckDone, version>> /\ phase' # "stamp"
    BY <1>6 DEF CheckConfig, shard, schema, ckpt
  <2>3. QED
    BY <1>1, <2>1, <2>2
<1>7. CASE StartShard
  BY <1>1, <1>7 DEF StartShard, shard, schema, ckpt
<1>8. CASE StartEnds
  BY <1>1, <1>8 DEF StartEnds, shard, schema, ckpt
<1>9. CASE SkipPoint
  BY <1>1, <1>9 DEF SkipPoint, shard, schema, ckpt
<1>10. CASE ReadPoint
  BY <1>1, <1>10 DEF ReadPoint, shard, schema, ckpt
<1>11. CASE Flushing
  BY <1>1, <1>11 DEF Flushing, Flush, shard, schema, ckpt
<1>12. CASE AppendLine
  BY <1>1, <1>12 DEF AppendLine, shard, schema, ckpt
<1>13. CASE EndOfPoints /\ buf = {}
  BY <1>1, <1>13 DEF EndOfPoints, shard, schema, ckpt
<1>14. CASE Commit
  <2>1. /\ chunkSize \in Nat \ {0} /\ version = 2 /\ ~ckDone /\ ckSeq' = ckSeq + 1
        /\ ckSeq \in NoSeq .. NumChunks(points, chunkSize) - 2
        /\ ckSeq + 1 \in 0 .. NumChunks(points, chunkSize) - 1
        /\ \A m \in Acted : audit'[m] = audit[m] + (N(End(ckSeq + 1), m) - N(End(ckSeq), m))
    BY <1>14, CommitNext
  <2>2. UNCHANGED <<points, origin, chunkSize, ckDone, version, phase>>
    BY <1>14 DEF Commit, shard, schema
  <2>3. End(ckSeq + 1) \in 1 .. Len(points)
    BY <1>l, <2>1, ChunkEnd DEF End
  <2>4. End(ckSeq) \in Int
    <3>1. CASE ckSeq = NoSeq
      BY <3>1 DEF End, EndOf, NoCur
    <3>2. CASE ckSeq # NoSeq
      <4>1. NumChunks(points, chunkSize) \in Int
        BY <1>l, <2>1, ChunksBound
      <4>2. ckSeq \in 0 .. NumChunks(points, chunkSize) - 1
        BY <2>1, <3>2, <4>1 DEF NoSeq
      <4>3. QED
        BY <1>l, <2>1, <4>2, ChunkEnd DEF End
    <3>3. QED
      BY <3>1, <3>2
  <2>5. ASSUME NEW m \in Acted
        PROVE  /\ origin = "new" => audit'[m] = N(End(ckSeq + 1), m)
               /\ origin # "chunkless" => audit'[m] <= N(End(ckSeq + 1), m) /\ audit'[m] <= All(m)
    <3>1. /\ N(End(ckSeq + 1), m) \in Nat /\ N(End(ckSeq), m) \in Nat /\ All(m) \in Nat
          /\ N(End(ckSeq + 1), m) <= All(m)
      <4>1. End(ckSeq + 1) \in Int /\ Len(points) \in Int /\ End(ckSeq + 1) <= Len(points)
        BY <1>l, <2>3
      <4>2. QED
        BY <1>l, <2>4, <4>1, Counts
    <3>2. /\ origin = "new" => audit[m] = N(End(ckSeq), m)
          /\ origin # "chunkless" => audit[m] <= N(End(ckSeq), m)
      BY <2>1 DEF AuditKept
    <3>3. audit'[m] = audit[m] + (N(End(ckSeq + 1), m) - N(End(ckSeq), m)) /\ audit[m] \in Nat
      BY <1>l, <2>1
    <3> HIDE DEF N
    <3>4. QED
      BY <3>1, <3>2, <3>3
  <2>6. QED
    BY <2>1, <2>2, <2>5 DEF AuditKept, End
<1>15. CASE FinishShard
  <2>1. /\ version = 2 /\ ~ckDone /\ End(ckSeq) \in 0 .. Len(points)
        /\ \A m \in Acted : FinalDeltas[m] = All(m) - N(End(ckSeq), m)
    BY <1>15, LastDeltas
  <2>2. UNCHANGED <<points, origin, chunkSize, ckSeq>> /\ ckDone' = TRUE
        /\ audit' = Plus(audit, FinalDeltas)
    BY <1>15 DEF FinishShard, shard
  <2>3. ASSUME NEW m \in Acted
        PROVE  /\ origin = "new" => audit'[m] = All(m)
               /\ origin # "chunkless" => audit'[m] <= All(m)
    <3>1. N(End(ckSeq), m) \in Nat /\ All(m) \in Nat
      BY <1>l, <2>1, Counts
    <3>2. /\ origin = "new" => audit[m] = N(End(ckSeq), m)
          /\ origin # "chunkless" => audit[m] <= N(End(ckSeq), m)
      BY <2>1 DEF AuditKept
    <3>3. audit'[m] = audit[m] + (All(m) - N(End(ckSeq), m)) /\ audit[m] \in Nat
      BY <1>l, <2>1, <2>2 DEF Plus
    <3> HIDE DEF N
    <3>4. QED
      BY <3>1, <3>2, <3>3
  <2>4. QED
    BY <2>2, <2>3 DEF AuditKept
<1>16. CASE Abort
  BY <1>1, <1>16 DEF Abort, shard, schema, ckpt
<1>17. QED
  BY <1>2, <1>3, <1>4, <1>5, <1>6, <1>7, <1>8, <1>9, <1>10, <1>11, <1>12, <1>13, <1>14,
     <1>15, <1>16, Flushes DEF Next

-----------------------------------------------------------------------------
(* The invariant is inductive.                                             *)

LEMMA IInvInit ==
  ASSUME Init
  PROVE  IInv
<1> DEFINE n == NumChunks(points, chunkSize)
<1>1. points \in Seq(Points) /\ Len(points) \in Nat /\ DOMAIN points = 1 .. Len(points)
  BY ShardsAssumption, LenProperties DEF Init
<1>2. /\ points \in Shards /\ origin \in Origins /\ columns \in {0, 2} /\ version = 1
      /\ chunkSize \in (IF origin = "new" THEN {0} ELSE ChunkSizes)
      /\ ckCur = NoCur /\ ckDone = (origin = "finished")
      /\ ckTotal = (IF ckDone THEN ckSeq + 1 ELSE 0)
      /\ audit = (IF origin \in {"new", "interrupted"} THEN ZeroCounts ELSE FullCounts(points))
      /\ phase = "down" /\ maxBytes = 0 /\ committed = NoSeq /\ at = 1 /\ seq = 0 /\ buf = {}
      /\ marker = NoMarker /\ maps = <<>> /\ tally = Nil /\ shared = FALSE /\ baseline = Nil
      /\ outbox = <<>> /\ runs = 0
  BY DEF Init
<1>3. origin # "new" => chunkSize \in Nat \ {0} /\ n \in 0 .. Len(points)
  BY <1>1, <1>2, ChunksBound, ShardsAssumption
<1>4. /\ origin = "new" => ckSeq = NoSeq
      /\ origin = "interrupted" => ckSeq \in 0 .. n - 1
      /\ origin = "orphaned" => n > 0 /\ ckSeq = n - 1
      /\ origin = "chunkless" => n = 0 /\ ckSeq = NoSeq
      /\ origin = "finished" => ckSeq = n - 1
  <2> HIDE DEF n
  <2>1. CASE origin = "new"
    BY <2>1 DEF Init
  <2>2. CASE origin = "interrupted"
    BY <2>2 DEF Init, n
  <2>3. CASE origin = "orphaned"
    BY <2>3 DEF Init, n
  <2>4. CASE origin = "chunkless"
    BY <2>4 DEF Init, n
  <2>5. CASE origin = "finished"
    BY <2>5 DEF Init, n
  <2>6. QED
    BY <1>2, <2>1, <2>2, <2>3, <2>4, <2>5, ShardsAssumption
<1> HIDE DEF n
<1>5. /\ origin \in {"new", "interrupted", "orphaned", "chunkless", "finished"}
  BY <1>2, ShardsAssumption
<1>6. /\ ckSeq \in NoSeq .. Len(points)
      /\ ckSeq = NoSeq \/ (chunkSize # 0 /\ ckSeq \in 0 .. n - 1)
      /\ ckDone => ckTotal = n
      /\ ckTotal \in 0 .. Len(points)
  <2>1. CASE origin = "new" \/ origin = "chunkless"
    <3>1. ~ckDone /\ ckTotal = 0 /\ ckSeq = NoSeq
      BY <1>2, <1>4, <2>1
    <3>2. QED
      BY <1>1, <3>1 DEF NoSeq
  <2>2. CASE origin = "interrupted" \/ origin = "orphaned"
    <3>1. n \in 0 .. Len(points) /\ chunkSize # 0 /\ ckSeq \in 0 .. n - 1
      BY <1>1, <1>3, <1>4, <2>2
    <3>2. ~ckDone /\ ckTotal = 0
      BY <1>2, <2>2
    <3>3. QED
      BY <1>1, <3>1, <3>2 DEF NoSeq
  <2>3. CASE origin = "finished"
    <3>1. n \in 0 .. Len(points) /\ chunkSize # 0 /\ ckSeq = n - 1
      BY <1>3, <1>4, <2>3
    <3>2. ckTotal = ckSeq + 1
      BY <1>2, <2>3
    <3>3. QED
      BY <1>1, <3>1, <3>2 DEF NoSeq
  <2>4. QED
    BY <1>5, <2>1, <2>2, <2>3
<1>7. \A m \in Meas : Count(points, Len(points), m) \in Nat
  BY <1>1, Counts
<1>8. FullCounts(points) \in [Meas -> Nat] /\ ZeroCounts \in [Meas -> Nat]
  BY <1>7 DEF FullCounts, ZeroCounts
<1>9. TypeOK
  <2>1. maps \in Seq([Meas -> Nat]) /\ Len(maps) = 0 /\ outbox \in Seq(Chunks)
    BY <1>2, EmptySeq
  <2>2. marker \in [cur : NoCur .. Len(points), tally : Nil .. Len(maps)]
    BY <1>1, <1>2, <2>1 DEF NoMarker, NoCur, Nil
  <2>3. /\ committed \in NoSeq .. Len(points) /\ at \in 1 .. Len(points) + 1 /\ seq \in 0 .. Len(points)
        /\ ckCur \in NoCur .. Len(points) /\ ckTotal \in 0 .. Len(points)
        /\ {tally, baseline} \subseteq Nil .. Len(maps)
    BY <1>1, <1>2, <1>6, <2>1 DEF NoSeq, NoCur, Nil
  <2>4. /\ runs \in 0 .. MaxRuns /\ phase \in Phases /\ columns \in 0 .. 2 /\ version \in {1, 2}
    BY <1>2, ShardsAssumption DEF Phases
  <2>5. /\ chunkSize \in {0} \cup ChunkSizes /\ audit \in [Meas -> Nat] /\ ckDone \in BOOLEAN
    BY <1>2, <1>8
  <2>6. QED
    BY <1>2, <1>6, <2>1, <2>2, <2>3, <2>4, <2>5 DEF TypeOK
<1>10. Settings
  BY <1>2 DEF Settings, Loading
<1>11. Fresh
  <2>1. chunkSize = 0 => origin = "new"
    BY <1>2, <1>3
  <2>2. origin = "interrupted" \/ origin = "orphaned" => ckSeq # NoSeq
    BY <1>3, <1>4 DEF NoSeq
  <2>3. QED
    BY <1>2, <1>4, <2>1, <2>2 DEF Fresh
<1>12. Committed
  <2>1. origin = "new" => ckCur = End(ckSeq)
    BY <1>2, <1>4 DEF End, EndOf
  <2>2. QED
    BY <1>2, <1>6, <2>1 DEF Committed, n
<1>13. Aligned /\ Pipeline /\ Tallies
  BY <1>2 DEF Aligned, Pipeline, Tallies, Loading
<1>14. Unshared
  BY <1>2 DEF Unshared
<1>15. AuditKept
  <2>1. origin = "new" => ~ckDone /\ EndOf(points, chunkSize, ckSeq) = 0
    BY <1>2, <1>4 DEF EndOf, NoCur
  <2>2. ASSUME NEW m \in Acted
        PROVE  /\ audit[m] <= Count(points, Len(points), m)
               /\ origin = "new" => audit[m] = 0 /\ Count(points, 0, m) = 0
    <3>1. m \in Meas /\ Count(points, Len(points), m) \in Nat /\ Count(points, 0, m) = 0
      BY <1>1, <1>7, Counts DEF Acted
    <3>2. audit[m] \in {0, Count(points, Len(points), m)} /\ (origin = "new" => audit[m] = 0)
      BY <1>2, <3>1 DEF FullCounts, ZeroCounts
    <3>3. QED
      BY <3>1, <3>2
  <2>3. QED
    BY <1>2, <2>1, <2>2 DEF AuditKept, End
<1>16. QED
  BY <1>9, <1>10, <1>11, <1>12, <1>13, <1>14, <1>15 DEF IInv

LEMMA IInvNext ==
  ASSUME IInv, [Next]_vars
  PROVE  IInv'
<1>1. CASE Next
  BY <1>1, TypeNext, SettingsNext, FreshNext, CommittedNext, AlignedNext, PipelineNext,
     UnsharedNext, TalliesNext, AuditNext DEF IInv
<1>2. CASE UNCHANGED vars
  <2>1. TypeOK'
    BY <1>2 DEF vars, IInv, TypeOK, Chunks
  <2>2. Settings' /\ Fresh' /\ Committed' /\ Unshared'
    BY <1>2 DEF vars, IInv, Settings, Loading, Fresh, Committed, End, Unshared
  <2>3. Aligned'
    BY <1>2 DEF vars, IInv, Aligned, Loading, Of, Cuts, Bytes
  <2>4. Pipeline'
    BY <1>2 DEF vars, IInv, Pipeline, Loading, Lines, End
  <2>5. Tallies'
    BY <1>2 DEF vars, IInv, Tallies, Loading, Tallied, Seen, End
  <2>6. AuditKept'
    BY <1>2 DEF vars, IInv, AuditKept, End
  <2>7. QED
    BY <2>1, <2>2, <2>3, <2>4, <2>5, <2>6 DEF IInv
<1>3. QED
  BY <1>1, <1>2

LEMMA Inductive == Spec => []IInv
<1>1. Init => IInv
  BY IInvInit
<1>2. IInv /\ [Next]_vars => IInv'
  BY IInvNext
<1>3. QED
  BY <1>1, <1>2, PTL DEF Spec

-----------------------------------------------------------------------------
(* Every variable keeps its type, for every shard and every number of runs. *)
THEOREM AuditTypeCorrect == Spec => []TypeOK
<1>1. IInv => TypeOK
  BY DEF IInv
<1>2. QED
  BY <1>1, Inductive, PTL

(* Wherever a run resumes, the chunks it submits are those that an         *)
(* uninterrupted run cuts: run.go's reader seeks to the cursor or skips    *)
(* the committed chunks, and the accumulator (chunk.go) flushes at the     *)
(* same points either way.                                                 *)
THEOREM Reproduced == Spec => []ChunksReproduced
<1>1. ASSUME IInv PROVE ChunksReproduced
  <2>1. ASSUME NEW i \in DOMAIN outbox
        PROVE  outbox[i].lines = ChunkLines(points, chunkSize, outbox[i].seq)
    <3>1. outbox # <<>>
      OBVIOUS
    <3>2. Loading
      BY <1>1, <3>1 DEF IInv, Settings
    <3>3. outbox[i].seq = ckSeq + i /\ outbox[i].lines = Lines(ckSeq + i)
      BY <1>1, <3>2 DEF IInv, Pipeline
    <3>4. QED
      BY <3>3 DEF Lines
  <2>2. ckCur # NoCur => ckCur = Max(ChunkLines(points, chunkSize, ckSeq))
    BY <1>1 DEF IInv, Committed, End, EndOf
  <2>3. ckDone => ckTotal = NumChunks(points, chunkSize)
    BY <1>1 DEF IInv, Committed
  <2>4. QED
    BY <2>1, <2>2, <2>3 DEF ChunksReproduced
<1>2. QED
  BY <1>1, Inductive, PTL

(* The audit of a checkpoint of this version is exact after every step of  *)
(* every run: checkpoint.go's transactions store a chunk's counts with its *)
(* cursor, and the last points' with the done mark.                        *)
THEOREM AuditIsExact == Spec => []AuditExact
<1>1. ASSUME IInv PROVE AuditExact
  <2>1. SUFFICES ASSUME origin = "new", NEW m \in Acted
                 PROVE  audit[m] = Count(points, IF ckDone THEN Len(points) ELSE ckCur, m)
    BY DEF AuditExact
  <2>2. ckCur = End(ckSeq)
    BY <1>1, <2>1 DEF IInv, Committed
  <2>3. audit[m] = Count(points, IF ckDone THEN Len(points) ELSE End(ckSeq), m)
    BY <1>1, <2>1 DEF IInv, AuditKept
  <2>4. QED
    BY <2>2, <2>3
<1>2. QED
  BY <1>1, Inductive, PTL

(* No point is counted twice, whichever version wrote the checkpoint:      *)
(* checkpoint.go's migrate deletes the counts of a shard that an earlier   *)
(* version left unfinished.  It finds such a shard by its progress row, so *)
(* CountedOnce excepts one that has no chunk.                              *)
THEOREM NeverCountedTwice == Spec => []CountedOnce
<1>1. IInv => CountedOnce
  BY DEF IInv, AuditKept, CountedOnce, AtMostOnce
<1>2. QED
  BY <1>1, Inductive, PTL

(* No step of a later run, and no upgrade, changes what is recorded of a   *)
(* done shard.                                                             *)
THEOREM DoneStaysAsItIs == Spec => DoneIsFinal
<1>1. ASSUME IInv, Next PROVE ckDone => UNCHANGED ckpt
  <2>1. CASE DeleteOrphans
    <3>1. ckDone => ~Orphaned
      BY DEF Orphaned
    <3>2. QED
      BY <2>1, <3>1 DEF DeleteOrphans, ckpt
  <2>2. CASE Commit
    BY <1>1, <2>2, CommitNext DEF IInv
  <2>3. CASE FinishShard
    BY <1>1, <2>3, LastDeltas DEF IInv
  <2>4. CASE Open \/ AddColumn \/ StampVersion \/ \E b \in ChunkSizes : CheckConfig(b)
    BY <2>4 DEF Open, AddColumn, StampVersion, CheckConfig
  <2>5. CASE StartShard \/ StartEnds \/ Abort
    BY <2>5 DEF StartShard, StartEnds, Abort
  <2>6. CASE SkipPoint \/ ReadPoint \/ AppendLine
    BY <2>6 DEF SkipPoint, ReadPoint, AppendLine
  <2>7. CASE FlushBefore \/ FlushFull \/ EndOfPoints
    BY <2>7 DEF FlushBefore, FlushFull, EndOfPoints, Flush
  <2>8. QED
    BY <1>1, <2>1, <2>2, <2>3, <2>4, <2>5, <2>6, <2>7 DEF Next
<1>2. IInv /\ [Next]_vars => [ckDone => UNCHANGED ckpt]_vars
  BY <1>1
<1>3. QED
  BY <1>2, Inductive, PTL DEF Spec, DoneIsFinal
=============================================================================
