------------------------- MODULE V3ExtractionProofs -------------------------
(***************************************************************************)
(* Proofs about V3Extraction, for every table, range and cursor.           *)
(***************************************************************************)
EXTENDS V3Extraction, SequenceTheorems, FiniteSetTheorems, WellFoundedInduction,
        TLAPS

-----------------------------------------------------------------------------
(* Induction over the natural numbers, in a form without a parameter.      *)

(* A non-empty set of natural numbers has a least element.                 *)
LEMMA LeastElement ==
  ASSUME NEW T \in SUBSET Nat, T # {}
  PROVE  \E x \in T : \A y \in T : x <= y
<1>1. PICK x \in T : \A y \in T : ~ (<<y, x>> \in OpToRel(<, Nat))
  BY Zenon, NatLessThanWellFounded, WFMin
<1>2. \A y \in T : ~ (y < x)
  BY <1>1 DEF OpToRel
<1>3. QED
  BY <1>2

(* A set with 0 and each of its elements' successors has every number.     *)
LEMMA SetInduction ==
  ASSUME NEW T, 0 \in T, \A n \in T \cap Nat : n + 1 \in T
  PROVE  Nat \subseteq T
<1>1. SUFFICES ASSUME Nat \ T # {} PROVE FALSE
  OBVIOUS
<1>2. PICK x \in Nat \ T : \A y \in Nat \ T : x <= y
  BY <1>1, LeastElement
<1>3. x - 1 \in T \cap Nat /\ (x - 1) + 1 = x
  BY <1>2
<1>4. (x - 1) + 1 \in T
  BY <1>3
<1>5. QED
  BY <1>2, <1>3, <1>4

-----------------------------------------------------------------------------
(* The order of strings.                                                   *)

LEMMA PrecedesBy ==
  ASSUME NEW a, NEW b, NEW n \in 0 .. Len(b) - 1, n <= Len(a),
         \A i \in 1 .. n : a[i] = b[i],
         n < Len(a) => a[n + 1] < b[n + 1]
  PROVE  Precedes(a, b)
  BY DEF Precedes

LEMMA PrecedesIrreflexive ==
  ASSUME NEW a \in Seq(Int)
  PROVE  ~Precedes(a, a)
<1>1. \A i \in 1 .. Len(a) : a[i] \in Int
  BY ElementOfSeq
<1>2. QED
  BY <1>1 DEF Precedes

LEMMA PrecedesTransitive ==
  ASSUME NEW a \in Seq(Int), NEW b \in Seq(Int), NEW c \in Seq(Int),
         Precedes(a, b), Precedes(b, c)
  PROVE  Precedes(a, c)
<1>1. /\ \A i \in 1 .. Len(a) : a[i] \in Int
      /\ \A i \in 1 .. Len(b) : b[i] \in Int
      /\ \A i \in 1 .. Len(c) : c[i] \in Int
  BY ElementOfSeq
<1>2. Len(a) \in Nat /\ Len(b) \in Nat /\ Len(c) \in Nat
  OBVIOUS
<1>3. PICK n \in 0 .. Len(b) - 1 : /\ n <= Len(a) /\ \A i \in 1 .. n : a[i] = b[i]
                                   /\ n < Len(a) => a[n + 1] < b[n + 1]
  BY DEF Precedes
<1>4. PICK m \in 0 .. Len(c) - 1 : /\ m <= Len(b) /\ \A i \in 1 .. m : b[i] = c[i]
                                   /\ m < Len(b) => b[m + 1] < c[m + 1]
  BY DEF Precedes
<1>5. CASE n < m
  <2>1. \A i \in 1 .. n : a[i] = c[i]
    BY <1>2, <1>3, <1>4, <1>5
  <2>2. n < Len(a) => a[n + 1] < c[n + 1]
    <3>1. n + 1 \in 1 .. m
      BY <1>5
    <3>2. QED
      BY <1>2, <1>3, <1>4, <3>1
  <2>3. n \in 0 .. Len(c) - 1
    BY <1>2, <1>3, <1>4, <1>5
  <2>4. QED
    BY <1>3, <2>1, <2>2, <2>3 DEF Precedes
<1>6. CASE n = m
  <2>1. \A i \in 1 .. n : a[i] = c[i]
    BY <1>2, <1>3, <1>4, <1>6
  <2>2. ASSUME n < Len(a) PROVE a[n + 1] < c[n + 1]
    <3>1. n + 1 \in 1 .. Len(a) /\ n + 1 \in 1 .. Len(b) /\ n + 1 \in 1 .. Len(c) /\ n < Len(b)
      BY <1>2, <1>6, <2>2
    <3>2. a[n + 1] \in Int /\ b[n + 1] \in Int /\ c[n + 1] \in Int
      BY <1>1, <3>1
    <3>3. a[n + 1] < b[n + 1] /\ b[n + 1] < c[n + 1]
      BY <1>3, <1>4, <1>6, <2>2, <3>1, Zenon
    <3>4. QED
      BY <3>2, <3>3
  <2>3. QED
    BY <1>3, <1>4, <1>6, <2>1, <2>2 DEF Precedes
<1>7. CASE m < n
  <2>6. m \in Int /\ n \in Int /\ 0 <= m
    BY <1>2
  <2>7. n <= Len(a) /\ n < Len(b)
    <3>1. n <= Len(a)
      BY <1>3, Zenon
    <3>2. QED
      BY <1>2, <3>1
  <2>1. m + 1 \in 1 .. n /\ m \in 0 .. Len(c) - 1 /\ m < Len(b) /\ m < Len(a)
    <3>1. m + 1 \in 1 .. n
      BY <1>7, <2>6
    <3>2. m < Len(b) /\ m < Len(a)
      BY SMTT(30), <1>2, <1>7, <2>6, <2>7
    <3>3. QED
      BY <3>1, <3>2
  <2>2. ASSUME NEW i \in 1 .. m PROVE a[i] = c[i]
    <3>1. i \in 1 .. n
      BY <1>7, <2>6
    <3>2. a[i] = b[i] /\ b[i] = c[i]
      BY <1>3, <1>4, <3>1, Zenon
    <3>3. QED
      BY <3>2
  <2>3. a[m + 1] < c[m + 1]
    BY <1>3, <1>4, <2>1
  <2>4. m <= Len(a)
    BY <1>2, <2>1
  <2>5. QED
    BY <2>1, <2>2, <2>3, <2>4, PrecedesBy, Zenon
<1>8. QED
  BY <1>5, <1>6, <1>7

LEMMA PrecedesAsymmetric ==
  ASSUME NEW a \in Seq(Int), NEW b \in Seq(Int), Precedes(a, b)
  PROVE  ~Precedes(b, a) /\ a # b
  BY PrecedesIrreflexive, PrecedesTransitive

(* Two different sequences differ first somewhere, or one ends first.      *)
DifferFirst(a, b) ==
  \/ \E n \in 0 .. Len(b) - 1 : n = Len(a) /\ \A i \in 1 .. n : a[i] = b[i]
  \/ \E n \in 0 .. Len(a) - 1 : n = Len(b) /\ \A i \in 1 .. n : a[i] = b[i]
  \/ \E n \in Nat : /\ n < Len(a) /\ n < Len(b) /\ a[n + 1] # b[n + 1]
                    /\ \A i \in 1 .. n : a[i] = b[i]

LEMMA FirstDifference ==
  ASSUME NEW S, NEW a \in Seq(S), NEW b \in Seq(S), a # b
  PROVE  DifferFirst(a, b)
<1> DEFINE D == {n \in Nat : n < Len(a) /\ n < Len(b) /\ a[n + 1] # b[n + 1]}
<1>1. CASE D = {}
  <2>1. \A i \in Nat : i < Len(a) /\ i < Len(b) => a[i + 1] = b[i + 1]
    BY <1>1
  <2>2. ASSUME NEW i \in Nat, 0 < i, i <= Len(a), i <= Len(b) PROVE a[i] = b[i]
    <3>1. i - 1 \in Nat /\ i - 1 < Len(a) /\ i - 1 < Len(b) /\ (i - 1) + 1 = i
      BY <2>2
    <3>2. QED
      BY <2>1, <3>1
  <2>3. Len(a) # Len(b)
    BY <2>2, SeqEqual
  <2>4. QED
    BY <2>2, <2>3 DEF DifferFirst
<1>2. CASE D # {}
  <2>1. PICK n \in D : \A m \in D : n <= m
    BY <1>2, LeastElement
  <2>2. ASSUME NEW i \in 1 .. n PROVE a[i] = b[i]
    <3>1. i - 1 \in Nat /\ i - 1 < n /\ (i - 1) + 1 = i
      BY <2>1
    <3>2. i - 1 \notin D
      BY <2>1, <3>1
    <3>3. i - 1 < Len(a) /\ i - 1 < Len(b)
      BY <2>1, <3>1
    <3>4. QED
      BY <3>1, <3>2, <3>3
  <2>3. QED
    BY <2>1, <2>2 DEF DifferFirst
<1>3. QED
  BY <1>1, <1>2

LEMMA PrecedesTotal ==
  ASSUME NEW a \in Seq(Int), NEW b \in Seq(Int), a # b
  PROVE  Precedes(a, b) \/ Precedes(b, a)
<1>1. CASE \E n \in 0 .. Len(b) - 1 : n = Len(a) /\ \A i \in 1 .. n : a[i] = b[i]
  BY <1>1 DEF Precedes
<1>2. CASE \E n \in 0 .. Len(a) - 1 : n = Len(b) /\ \A i \in 1 .. n : a[i] = b[i]
  <2>1. PICK n \in 0 .. Len(a) - 1 : n = Len(b) /\ \A i \in 1 .. n : b[i] = a[i]
    BY <1>2
  <2>2. n <= Len(b) /\ ~(n < Len(b))
    BY <2>1
  <2>3. QED
    BY <2>1, <2>2, PrecedesBy, Zenon
<1>3. ASSUME NEW n \in Nat, n < Len(a), n < Len(b), a[n + 1] # b[n + 1],
             \A i \in 1 .. n : a[i] = b[i]
      PROVE  Precedes(a, b) \/ Precedes(b, a)
  <2>1. a[n + 1] \in Int /\ b[n + 1] \in Int
    BY <1>3, ElementOfSeq
  <2>2. a[n + 1] < b[n + 1] \/ b[n + 1] < a[n + 1]
    BY <1>3, <2>1
  <2>3. n \in 0 .. Len(b) - 1 /\ n \in 0 .. Len(a) - 1 /\ n <= Len(a) /\ n <= Len(b)
    BY <1>3
  <2>4. CASE a[n + 1] < b[n + 1]
    BY <1>3, <2>3, <2>4, PrecedesBy, Zenon
  <2>5. CASE b[n + 1] < a[n + 1]
    <3>1. \A i \in 1 .. n : b[i] = a[i]
      BY <1>3
    <3>2. QED
      BY <2>3, <2>5, <3>1, PrecedesBy, Zenon
  <2>6. QED
    BY <2>2, <2>4, <2>5
<1>4. QED
  <2>1. DifferFirst(a, b)
    BY FirstDifference
  <2>2. QED
    BY <1>1, <1>2, <1>3, <2>1 DEF DifferFirst

(* What comes before both does not matter.                                 *)
LEMMA PrecedesPushed ==
  ASSUME NEW p \in Seq(Int), NEW a \in Seq(Int), NEW b \in Seq(Int), Precedes(a, b)
  PROVE  Precedes(p \o a, p \o b)
<1>1. /\ Len(p \o a) = Len(p) + Len(a) /\ Len(p \o b) = Len(p) + Len(b)
      /\ \A i \in 1 .. Len(p) : (p \o a)[i] = p[i] /\ (p \o b)[i] = p[i]
      /\ \A i \in 1 .. Len(a) : (p \o a)[Len(p) + i] = a[i]
      /\ \A i \in 1 .. Len(b) : (p \o b)[Len(p) + i] = b[i]
  OBVIOUS
<1>2. Len(p) \in Nat /\ Len(a) \in Nat /\ Len(b) \in Nat
  OBVIOUS
<1>3. PICK n \in 0 .. Len(b) - 1 : /\ n <= Len(a) /\ \A i \in 1 .. n : a[i] = b[i]
                                   /\ n < Len(a) => a[n + 1] < b[n + 1]
  BY DEF Precedes
<1> DEFINE m == Len(p) + n
<1>4. m \in 0 .. Len(p \o b) - 1 /\ m <= Len(p \o a)
  BY <1>1, <1>2, <1>3
<1>5. ASSUME NEW i \in 1 .. m PROVE (p \o a)[i] = (p \o b)[i]
  <2>1. CASE i <= Len(p)
    <3>1. i \in 1 .. Len(p)
      BY <2>1
    <3>2. QED
      BY <1>1, <3>1
  <2>2. CASE i > Len(p)
    <3>1. i - Len(p) \in 1 .. n /\ Len(p) + (i - Len(p)) = i
      BY <1>2, <2>2
    <3>2. i - Len(p) \in 1 .. Len(a) /\ i - Len(p) \in 1 .. Len(b)
      BY <1>2, <1>3, <3>1
    <3>3. QED
      BY <1>1, <1>3, <3>1, <3>2
  <2>3. i <= Len(p) \/ i > Len(p)
    BY <1>2, <1>3
  <2>4. QED
    BY <2>1, <2>2, <2>3
<1>6. m < Len(p \o a) => (p \o a)[m + 1] < (p \o b)[m + 1]
  <2>1. m + 1 = Len(p) + (n + 1)
    BY <1>2
  <2>2. ASSUME m < Len(p \o a) PROVE (p \o a)[m + 1] < (p \o b)[m + 1]
    <3>1. n < Len(a) /\ n + 1 \in 1 .. Len(a) /\ n + 1 \in 1 .. Len(b)
      BY <1>1, <1>2, <1>3, <2>2
    <3>2. (p \o a)[m + 1] = a[n + 1] /\ (p \o b)[m + 1] = b[n + 1]
      BY <1>1, <2>1, <3>1
    <3>3. QED
      BY <1>3, <3>1, <3>2
  <2>3. QED
    BY <2>2
<1> HIDE DEF m
<1>7. QED
  BY <1>4, <1>5, <1>6, PrecedesBy

LEMMA PrecedesBehind ==
  ASSUME NEW p \in Seq(Int), NEW a \in Seq(Int), NEW b \in Seq(Int)
  PROVE  Precedes(p \o a, p \o b) <=> Precedes(a, b)
<1>1. p \o a \in Seq(Int) /\ p \o b \in Seq(Int)
  OBVIOUS
<1>2. CASE a = b
  BY <1>1, <1>2, PrecedesIrreflexive
<1>3. CASE Precedes(a, b)
  BY <1>3, PrecedesPushed
<1>4. CASE Precedes(b, a)
  <2>1. Precedes(p \o b, p \o a)
    BY <1>4, PrecedesPushed
  <2>2. QED
    BY <1>1, <1>4, <2>1, PrecedesAsymmetric
<1>5. QED
  BY <1>2, <1>3, <1>4, PrecedesTotal

(* A smaller first element decides.                                        *)
LEMMA PrecedesAtOnce ==
  ASSUME NEW a \in Seq(Int), NEW b \in Seq(Int), a # <<>>, b # <<>>, a[1] < b[1]
  PROVE  Precedes(a, b)
<1>1. 0 \in 0 .. Len(b) - 1 /\ 0 <= Len(a)
  OBVIOUS
<1>2. \A i \in 1 .. 0 : a[i] = b[i]
  OBVIOUS
<1>3. QED
  BY <1>1, <1>2, PrecedesBy

-----------------------------------------------------------------------------
(* Concatenation of a sequence of sequences.                               *)

Regroups(s, t, u) == s \o (t \o u) = (s \o t) \o u

LEMMA Associative ==
  ASSUME NEW S, NEW s \in Seq(S), NEW t \in Seq(S), NEW u \in Seq(S)
  PROVE  Regroups(s, t, u)
  BY DEF Regroups

(* g has the concatenations of the first n elements of s.                  *)
GluesTo(g, s, S, n) ==
  /\ g \in [0 .. n -> Seq(S)]
  /\ g[0] = <<>>
  /\ \A i \in 1 .. n : g[i] = g[i - 1] \o s[i]

Glued(s, S, n) == \E g : GluesTo(g, s, S, n)
Glues(g, s, S) == GluesTo(g, s, S, Len(s))

LEMMA GluedNone ==
  ASSUME NEW S, NEW s
  PROVE  Glued(s, S, 0)
<1> DEFINE g == [i \in 0 .. 0 |-> <<>>]
<1>1. g \in [0 .. 0 -> Seq(S)] /\ g[0] = <<>> /\ \A i \in 1 .. 0 : g[i] = g[i - 1] \o s[i]
  <2>1. <<>> \in Seq(S)
    BY EmptySeq
  <2>2. QED
    BY <2>1
<1> HIDE DEF g
<1>2. QED
  BY <1>1 DEF Glued, GluesTo

LEMMA GluedNext ==
  ASSUME NEW S, NEW s, NEW n \in Nat, s[n + 1] \in Seq(S), Glued(s, S, n)
  PROVE  Glued(s, S, n + 1)
<1>1. PICK g : GluesTo(g, s, S, n)
  BY DEF Glued
<1>2. g \in [0 .. n -> Seq(S)] /\ g[0] = <<>> /\ \A i \in 1 .. n : g[i] = g[i - 1] \o s[i]
  BY <1>1 DEF GluesTo
<1> DEFINE last == g[n] \o s[n + 1]
           h == [i \in 0 .. n + 1 |-> IF i = n + 1 THEN last ELSE g[i]]
<1>3. last \in Seq(S)
  <2>1. g[n] \in Seq(S)
    BY <1>2
  <2>2. QED
    BY <2>1, ConcatProperties
<1>4. h[n + 1] = last /\ \A i \in 0 .. n : h[i] = g[i]
  <2> HIDE DEF last
  <2>1. n + 1 \in 0 .. n + 1 /\ \A i \in 0 .. n : i \in 0 .. n + 1 /\ i # n + 1
    OBVIOUS
  <2>2. QED
    BY <2>1
<1>5. h \in [0 .. n + 1 -> Seq(S)]
  <2> HIDE DEF last
  <2>1. \A i \in 0 .. n + 1 : i # n + 1 => i \in 0 .. n
    OBVIOUS
  <2>2. QED
    BY <1>2, <1>3, <2>1
<1> HIDE DEF h
<1>6. ASSUME NEW i \in 1 .. n + 1 PROVE h[i] = h[i - 1] \o s[i]
  <2>1. CASE i = n + 1
    <3>1. i - 1 = n /\ n \in 0 .. n
      BY <2>1
    <3>2. QED
      BY <1>4, <2>1, <3>1
  <2>2. CASE i # n + 1
    <3>1. i \in 1 .. n /\ i \in 0 .. n /\ i - 1 \in 0 .. n
      BY <2>2
    <3>2. QED
      BY <1>2, <1>4, <3>1
  <2>3. QED
    BY <2>1, <2>2
<1>7. h[0] = <<>>
  BY <1>2, <1>4
<1>8. QED
  BY <1>5, <1>6, <1>7 DEF Glued, GluesTo

LEMMA GluesExists ==
  ASSUME NEW S, NEW s \in Seq(Seq(S))
  PROVE  \E g : Glues(g, s, S)
<1> DEFINE L == Len(s)
           P == {n \in Nat : n <= L => Glued(s, S, n)}
<1>1. L \in Nat /\ \A n \in Nat : n + 1 <= L => s[n + 1] \in Seq(S)
  <2>1. L \in Nat
    OBVIOUS
  <2>2. ASSUME NEW n \in Nat, n + 1 <= L PROVE s[n + 1] \in Seq(S)
    <3>1. n + 1 \in 1 .. Len(s)
      BY <2>1, <2>2
    <3>2. QED
      BY <3>1, ElementOfSeq
  <2>3. QED
    BY <2>1, <2>2
<1> HIDE DEF L
<1>2. 0 \in P
  BY GluedNone
<1>3. ASSUME NEW n \in P \cap Nat PROVE n + 1 \in P
  BY <1>1, <1>3, GluedNext
<1>4. Nat \subseteq P
  <2> HIDE DEF P
  <2> QED BY <1>2, <1>3, SetInduction
<1>5. Glued(s, S, L)
  BY <1>1, <1>4
<1>6. QED
  BY <1>5 DEF Glued, Glues, L

(* There is only one such function.                                        *)
Follows(g, s, n) == \A i \in 1 .. n : g[i] = g[i - 1] \o s[i]

LEMMA GluesSame ==
  ASSUME NEW s, NEW n \in Nat, NEW g, NEW h, g[0] = h[0],
         Follows(g, s, n), Follows(h, s, n)
  PROVE  g[n] = h[n]
<1> DEFINE P == {k \in Nat : k <= n => g[k] = h[k]}
<1>1. 0 \in P
  OBVIOUS
<1>2. ASSUME NEW k \in P \cap Nat PROVE k + 1 \in P
  <2>1. SUFFICES ASSUME k + 1 <= n PROVE g[k + 1] = h[k + 1]
    OBVIOUS
  <2>2. k + 1 \in 1 .. n /\ (k + 1) - 1 = k /\ g[k] = h[k]
    BY <2>1
  <2>3. g[k + 1] = g[k] \o s[k + 1] /\ h[k + 1] = h[k] \o s[k + 1]
    BY <2>2 DEF Follows
  <2>4. QED
    BY <2>2, <2>3
<1>3. Nat \subseteq P
  <2> HIDE DEF P
  <2> QED BY <1>1, <1>2, SetInduction
<1>4. QED
  BY <1>3

LEMMA FlattenGlues ==
  ASSUME NEW S, NEW s \in Seq(Seq(S)), NEW g, Glues(g, s, S)
  PROVE  FlattenSeq(s) = g[Len(s)]
<1>1. /\ g \in [0 .. Len(s) -> Seq(S)] /\ g[0] = <<>>
      /\ \A i \in 1 .. Len(s) : g[i] = g[i - 1] \o s[i]
  BY DEF Glues, GluesTo
<1>2. Len(s) \in Nat /\ \A i \in 1 .. Len(s) : s[i] \in Seq(S)
  BY ElementOfSeq
<1>3. CASE Len(s) = 0
  <2>1. s = <<>>
    BY <1>3, EmptySeq
  <2>2. QED
    BY <1>1, <1>3, <2>1 DEF FlattenSeq
<1>4. CASE Len(s) # 0
  <2> DEFINE F(f) == [i \in 1 .. Len(s) |-> IF i = 1 THEN s[i] ELSE f[i - 1] \o s[i]]
             h == [i \in 1 .. Len(s) |-> g[i]]
             flatten == CHOOSE f : f = F(f)
  <2>1. FlattenSeq(s) = flatten[Len(s)]
    BY <1>4 DEF FlattenSeq
  <2>2. h = F(h)
    <3>1. ASSUME NEW i \in 1 .. Len(s)
          PROVE  g[i] = IF i = 1 THEN s[i] ELSE h[i - 1] \o s[i]
      <4>1. g[i] = g[i - 1] \o s[i] /\ s[i] \in Seq(S)
        BY <1>1, <1>2
      <4>2. CASE i = 1
        <5>1. g[i - 1] = <<>>
          BY <1>1, <4>2
        <5>2. <<>> \o s[i] = s[i]
          BY <4>1, ConcatEmptySeq
        <5>3. QED
          BY <4>1, <4>2, <5>1, <5>2
      <4>3. CASE i # 1
        <5>1. h[i - 1] = g[i - 1]
          BY <1>2, <4>3
        <5>2. QED
          BY <4>1, <4>3, <5>1
      <4>4. QED
        BY <4>2, <4>3
    <3>2. QED
      BY <3>1
  <2>3. flatten = F(flatten)
    <3> HIDE DEF h, F
    <3> QED BY <2>2, Zenon
  <2> DEFINE k == [i \in 0 .. Len(s) |-> IF i = 0 THEN <<>> ELSE flatten[i]]
  <2> HIDE DEF flatten, h
  <2>4. k[0] = <<>> /\ \A i \in 1 .. Len(s) : k[i] = flatten[i]
    BY <1>2
  <2>5. ASSUME NEW i \in 1 .. Len(s) PROVE k[i] = k[i - 1] \o s[i]
    <3>1. flatten[i] = IF i = 1 THEN s[i] ELSE flatten[i - 1] \o s[i]
      BY <2>3
    <3>2. CASE i = 1
      <4>1. k[i - 1] = <<>>
        BY <2>4, <3>2
      <4>2. <<>> \o s[i] = s[i]
        BY <1>2, ConcatEmptySeq
      <4>3. QED
        BY <2>4, <3>1, <3>2, <4>1, <4>2
    <3>3. CASE i # 1
      <4>1. i - 1 \in 1 .. Len(s)
        BY <1>2, <3>3
      <4>2. QED
        BY <2>4, <3>1, <3>3, <4>1
    <3>4. QED
      BY <3>2, <3>3
  <2>6. k[Len(s)] = flatten[Len(s)]
    BY <1>2, <1>4, <2>4
  <2> HIDE DEF k, F
  <2>7. k[Len(s)] = g[Len(s)]
    <3>1. Follows(g, s, Len(s)) /\ Follows(k, s, Len(s)) /\ k[0] = g[0]
      BY <1>1, <2>4, <2>5 DEF Follows
    <3>2. Len(s) \in Nat
      BY <1>2
    <3>3. QED
      BY <3>1, <3>2, GluesSame
  <2>8. QED
    BY <2>1, <2>6, <2>7
<1>5. QED
  BY <1>3, <1>4

LEMMA FlattenType ==
  ASSUME NEW S, NEW s \in Seq(Seq(S))
  PROVE  FlattenSeq(s) \in Seq(S)
<1>1. PICK g : Glues(g, s, S)
  BY GluesExists
<1>2. FlattenSeq(s) = g[Len(s)]
  BY <1>1, FlattenGlues
<1>3. g \in [0 .. Len(s) -> Seq(S)] /\ Len(s) \in 0 .. Len(s)
  BY <1>1 DEF Glues, GluesTo
<1>4. QED
  BY <1>2, <1>3

LEMMA FlattenEmpty ==
  FlattenSeq(<<>>) = <<>>
  BY DEF FlattenSeq

LEMMA FlattenOne ==
  ASSUME NEW S, NEW x \in Seq(S)
  PROVE  FlattenSeq(<<x>>) = x
<1>1. <<x>> \in Seq(Seq(S)) /\ Len(<<x>>) = 1 /\ <<x>>[1] = x
  OBVIOUS
<1>2. PICK g : Glues(g, <<x>>, S)
  BY <1>1, GluesExists
<1>3. g[1] = g[1 - 1] \o x /\ g[1 - 1] = <<>>
  <2>1. 1 \in 1 .. Len(<<x>>) /\ 1 - 1 = 0
    BY <1>1
  <2>2. g[1] = g[1 - 1] \o <<x>>[1] /\ g[0] = <<>>
    BY <1>2, <2>1 DEF Glues, GluesTo
  <2>3. QED
    BY <1>1, <2>1, <2>2
<1>4. FlattenSeq(<<x>>) = g[1]
  BY <1>1, <1>2, FlattenGlues
<1>5. <<>> \o x = x
  BY ConcatEmptySeq
<1>6. QED
  BY <1>3, <1>4, <1>5

LEMMA FlattenConcat ==
  ASSUME NEW S, NEW a \in Seq(Seq(S)), NEW b \in Seq(Seq(S))
  PROVE  FlattenSeq(a \o b) = FlattenSeq(a) \o FlattenSeq(b)
<1> DEFINE c == a \o b
           A == Len(a)
           B == Len(b)
<1>1. c \in Seq(Seq(S)) /\ Len(c) = A + B /\ A \in Nat /\ B \in Nat
  OBVIOUS
<1>2. /\ \A i \in 1 .. A : c[i] = a[i]
      /\ \A i \in 1 .. B : c[A + i] = b[i]
      /\ \A i \in 1 .. B : b[i] \in Seq(S)
  BY ElementOfSeq
<1>3. PICK f : Glues(f, a, S)
  BY GluesExists
<1>4. PICK g : Glues(g, b, S)
  BY GluesExists
<1>5. PICK h : Glues(h, c, S)
  BY <1>1, GluesExists
<1>6. FlattenSeq(a) = f[A] /\ FlattenSeq(b) = g[B] /\ FlattenSeq(c) = h[A + B]
  BY <1>1, <1>3, <1>4, <1>5, FlattenGlues
<1>7. /\ f \in [0 .. A -> Seq(S)] /\ f[0] = <<>> /\ \A i \in 1 .. A : f[i] = f[i - 1] \o a[i]
      /\ g \in [0 .. B -> Seq(S)] /\ g[0] = <<>> /\ \A i \in 1 .. B : g[i] = g[i - 1] \o b[i]
      /\ h[0] = <<>> /\ \A i \in 1 .. A + B : h[i] = h[i - 1] \o c[i]
  BY <1>1, <1>3, <1>4, <1>5 DEF Glues, GluesTo
<1> HIDE DEF A, B, c
<1>8. h[A] = f[A] /\ f[A] \in Seq(S)
  <2>1. ASSUME NEW i \in 1 .. A PROVE h[i] = h[i - 1] \o a[i]
    <3>1. i \in 1 .. A + B
      BY <1>1
    <3>2. QED
      BY <1>2, <1>7, <3>1
  <2>2. h[0] = f[0] /\ Follows(f, a, A) /\ Follows(h, a, A)
    BY <1>7, <2>1 DEF Follows
  <2>3. h[A] = f[A]
    BY <1>1, <2>2, GluesSame
  <2>4. QED
    BY <1>1, <1>7, <2>3
<1> DEFINE k == [i \in 0 .. B |-> h[A + i]]
           l == [i \in 0 .. B |-> f[A] \o g[i]]
<1>9. ASSUME NEW i \in 1 .. B PROVE k[i] = k[i - 1] \o b[i] /\ l[i] = l[i - 1] \o b[i]
  <2>1. i - 1 \in 0 .. B /\ i \in 0 .. B /\ A + i \in 1 .. A + B /\ (A + i) - 1 = A + (i - 1)
    BY <1>1
  <2>2. h[A + i] = h[A + (i - 1)] \o b[i]
    BY <1>2, <1>7, <2>1
  <2>3. f[A] \o g[i] = (f[A] \o g[i - 1]) \o b[i]
    <3>1. g[i] = g[i - 1] \o b[i] /\ g[i - 1] \in Seq(S) /\ b[i] \in Seq(S)
      BY <1>2, <1>7, <2>1
    <3>2. f[A] \o (g[i - 1] \o b[i]) = (f[A] \o g[i - 1]) \o b[i]
      <4>1. f[A] \in Seq(S) /\ g[i - 1] \in Seq(S) /\ b[i] \in Seq(S)
        BY <1>8, <3>1
      <4> DEFINE x == f[A]
                 y == g[i - 1]
                 z == b[i]
      <4> HIDE DEF x, y, z
      <4>2. x \in Seq(S) /\ y \in Seq(S) /\ z \in Seq(S)
        BY <4>1 DEF x, y, z
      <4>3. x \o (y \o z) = (x \o y) \o z
        BY <4>2, Associative DEF Regroups
      <4>4. QED
        BY <4>3 DEF x, y, z
    <3>3. QED
      BY <3>1, <3>2
  <2>4. QED
    BY <2>1, <2>2, <2>3
<1>10. k[0] = l[0]
  <2>1. f[A] \o <<>> = f[A]
    BY <1>8, ConcatEmptySeq
  <2>2. A + 0 = A /\ 0 \in 0 .. B
    BY <1>1
  <2>3. QED
    BY <1>7, <1>8, <2>1, <2>2
<1>11. k[B] = h[A + B] /\ l[B] = f[A] \o g[B]
  <2>1. B \in 0 .. B
    BY <1>1
  <2>2. QED
    BY <2>1
<1> HIDE DEF k, l
<1>12. k[B] = l[B]
  <2>1. Follows(k, b, B) /\ Follows(l, b, B)
    BY <1>9 DEF Follows
  <2>2. QED
    BY <1>1, <1>10, <2>1, GluesSame
<1>13. QED
  BY <1>6, <1>11, <1>12 DEF c

(* What stands before and behind one element.                              *)
LEMMA FlattenSplit ==
  ASSUME NEW S, NEW s \in Seq(Seq(S)), NEW n \in Nat, n < Len(s)
  PROVE  /\ SubSeq(s, 1, n) \in Seq(Seq(S)) /\ SubSeq(s, n + 2, Len(s)) \in Seq(Seq(S))
         /\ s[n + 1] \in Seq(S)
         /\ FlattenSeq(s) = FlattenSeq(SubSeq(s, 1, n)) \o
                              (s[n + 1] \o FlattenSeq(SubSeq(s, n + 2, Len(s))))
<1> DEFINE a == SubSeq(s, 1, n)
           x == s[n + 1]
           b == SubSeq(s, n + 2, Len(s))
<1>1. Len(s) \in Nat /\ n + 1 \in 1 .. Len(s)
  OBVIOUS
<1>2. x \in Seq(S)
  BY <1>1, ElementOfSeq
<1>3. /\ a \in Seq(Seq(S)) /\ Len(a) = n /\ \A i \in 1 .. n : a[i] = s[i]
      /\ b \in Seq(Seq(S)) /\ Len(b) = Len(s) - (n + 1)
      /\ \A i \in 1 .. Len(s) - (n + 1) : b[i] = s[n + 1 + i]
  BY <1>1
<1> HIDE DEF a, b
<1>4. /\ <<x>> \in Seq(Seq(S)) /\ <<x>> \o b \in Seq(Seq(S)) /\ Len(<<x>> \o b) = Len(s) - n
      /\ (<<x>> \o b)[1] = x
      /\ \A i \in 1 .. Len(s) - (n + 1) : (<<x>> \o b)[i + 1] = b[i]
  BY <1>1, <1>2, <1>3
<1>5. s = a \o (<<x>> \o b)
  <2> DEFINE t == <<x>> \o b
  <2>1. t \in Seq(Seq(S)) /\ Len(t) = Len(s) - n
    BY <1>4
  <2>2. \A i \in 1 .. Len(t) : t[i] = s[n + i]
    <3>1. SUFFICES ASSUME NEW i \in 1 .. Len(t) PROVE t[i] = s[n + i]
      OBVIOUS
    <3>2. CASE i = 1
      BY <1>4, <3>2
    <3>3. CASE i # 1
      <4>1. i - 1 \in 1 .. Len(s) - (n + 1) /\ (i - 1) + 1 = i /\ n + 1 + (i - 1) = n + i
        BY <1>1, <2>1, <3>3
      <4>2. t[(i - 1) + 1] = b[i - 1]
        BY <1>4, <4>1, Zenon
      <4>3. b[i - 1] = s[n + 1 + (i - 1)]
        BY <1>3, <4>1, Zenon
      <4>4. QED
        BY <4>1, <4>2, <4>3, Zenon
    <3>4. QED
      BY <3>2, <3>3
  <2> HIDE DEF t
  <2>3. a \o t \in Seq(Seq(S)) /\ Len(a \o t) = Len(s)
    <3>1. a \o t \in Seq(Seq(S)) /\ Len(a \o t) = Len(a) + Len(t)
      BY <1>3, <2>1, ConcatProperties
    <3>2. QED
      BY <1>1, <1>3, <2>1, <3>1
  <2>4. ASSUME NEW i \in 1 .. Len(s) PROVE s[i] = (a \o t)[i]
    <3>1. (a \o t)[i] = IF i <= n THEN a[i] ELSE t[i - n]
      <4>1. i \in 1 .. Len(a) + Len(t)
        BY <1>1, <1>3, <2>1
      <4>2. QED
        BY <1>3, <2>1, <4>1, ConcatProperties
    <3>2. CASE i <= n
      BY <1>3, <3>1, <3>2
    <3>3. CASE i > n
      <4>1. i - n \in 1 .. Len(t) /\ n + (i - n) = i /\ ~(i <= n)
        BY <1>1, <2>1, <3>3
      <4>2. QED
        BY <2>2, <3>1, <4>1
    <3>4. i <= n \/ i > n
      BY <1>1
    <3>5. QED
      BY <3>2, <3>3, <3>4
  <2>5. s = a \o t
    BY <2>3, <2>4, SeqEqual
  <2>6. QED
    BY <2>5 DEF t
<1> HIDE DEF x
<1>6. FlattenSeq(s) = FlattenSeq(a) \o FlattenSeq(<<x>> \o b)
  BY <1>3, <1>4, <1>5, FlattenConcat
<1>7. FlattenSeq(<<x>> \o b) = FlattenSeq(<<x>>) \o FlattenSeq(b) /\ FlattenSeq(<<x>>) = x
  BY <1>2, <1>3, <1>4, FlattenConcat, FlattenOne
<1>8. QED
  BY <1>2, <1>3, <1>6, <1>7 DEF a, b, x

LEMMA SamePrefix ==
  ASSUME NEW S, NEW s \in Seq(S), NEW t \in Seq(S), NEW n \in Nat, n <= Len(s), n <= Len(t),
         \A i \in 1 .. n : s[i] = t[i]
  PROVE  SubSeq(s, 1, n) = SubSeq(t, 1, n)
  OBVIOUS

-----------------------------------------------------------------------------
(* The key of a series is in the order of its values.                      *)

EscapedByte(x) == IF x = 0 THEN <<0, 255>> ELSE <<x>>
EscapedBytes(v) == [i \in DOMAIN v |-> EscapedByte(v[i])]

LEMMA EscapedParts ==
  ASSUME NEW v \in Seq(Bytes)
  PROVE  /\ Escaped(v) = FlattenSeq(EscapedBytes(v))
         /\ EscapedBytes(v) \in Seq(Seq(Bytes)) /\ Len(EscapedBytes(v)) = Len(v)
         /\ \A i \in 1 .. Len(v) : /\ EscapedBytes(v)[i] = EscapedByte(v[i])
                                   /\ EscapedByte(v[i]) # <<>> /\ EscapedByte(v[i])[1] = v[i]
                                   /\ v[i] \in 0 .. 255
         /\ Escaped(v) \in Seq(Bytes)
<1>1. Escaped(v) = FlattenSeq(EscapedBytes(v))
  BY Zenon DEF Escaped, EscapedBytes, EscapedByte
<1>2. ASSUME NEW x \in Bytes
      PROVE  EscapedByte(x) \in Seq(Bytes) /\ EscapedByte(x) # <<>> /\ EscapedByte(x)[1] = x
  <2>1. <<x>> \in Seq(Bytes) /\ <<x>> # <<>> /\ <<x>>[1] = x
    OBVIOUS
  <2>2. <<0, 255>> \in Seq(Bytes) /\ <<0, 255>> # <<>> /\ <<0, 255>>[1] = 0
    BY DEF Bytes
  <2>3. QED
    BY <2>1, <2>2 DEF EscapedByte
<1>3. \A i \in 1 .. Len(v) : v[i] \in Bytes
  BY ElementOfSeq
<1>4. EscapedBytes(v) \in Seq(Seq(Bytes)) /\ Len(EscapedBytes(v)) = Len(v)
      /\ \A i \in 1 .. Len(v) : EscapedBytes(v)[i] = EscapedByte(v[i])
  <2>1. DOMAIN v = 1 .. Len(v) /\ Len(v) \in Nat
    OBVIOUS
  <2>2. \A i \in 1 .. Len(v) : EscapedByte(v[i]) \in Seq(Bytes)
    BY <1>2, <1>3
  <2>3. EscapedBytes(v) = [i \in 1 .. Len(v) |-> EscapedByte(v[i])]
    BY <2>1 DEF EscapedBytes
  <2>4. EscapedBytes(v) \in [1 .. Len(v) -> Seq(Bytes)]
    BY <2>2, <2>3
  <2>5. EscapedBytes(v) \in Seq(Seq(Bytes)) /\ Len(EscapedBytes(v)) = Len(v)
    BY <2>1, <2>4
  <2>6. QED
    BY <2>3, <2>5
<1>5. Escaped(v) \in Seq(Bytes)
  BY <1>1, <1>4, FlattenType
<1>6. ASSUME NEW i \in 1 .. Len(v)
      PROVE  /\ EscapedByte(v[i]) \in Seq(Bytes) /\ EscapedByte(v[i]) # <<>>
             /\ EscapedByte(v[i])[1] = v[i] /\ v[i] \in 0 .. 255
  BY <1>2, <1>3, Zenon DEF Bytes
<1>7. QED
  BY <1>1, <1>4, <1>5, <1>6, Zenon

EscapesAt(v, i) ==
  /\ EscapedBytes(v)[i] = EscapedByte(v[i]) /\ EscapedByte(v[i]) \in Seq(Bytes)
  /\ EscapedByte(v[i]) # <<>> /\ EscapedByte(v[i])[1] = v[i] /\ v[i] \in 0 .. 255

LEMMA EscapedAt ==
  ASSUME NEW v \in Seq(Bytes), NEW i \in 1 .. Len(v)
  PROVE  EscapesAt(v, i)
<1>1. EscapedBytes(v) \in Seq(Seq(Bytes)) /\ Len(EscapedBytes(v)) = Len(v)
  BY EscapedParts
<1>2. /\ EscapedBytes(v)[i] = EscapedByte(v[i]) /\ v[i] \in 0 .. 255
      /\ EscapedByte(v[i]) # <<>> /\ EscapedByte(v[i])[1] = v[i]
  BY EscapedParts, Zenon
<1>3. EscapedBytes(v)[i] \in Seq(Bytes)
  BY <1>1, ElementOfSeq
<1>4. QED
  BY <1>2, <1>3, Zenon DEF EscapesAt

LEMMA ColumnKeyType ==
  ASSUME NEW x, x = <<>> \/ \E v \in Seq(Bytes) : x = <<v>>
  PROVE  ColumnKey(x) \in Seq(Bytes) /\ ColumnKey(x) # <<>> /\ ColumnKey(x)[1] \in {0, 1}
<1>1. CASE x = <<>>
  BY <1>1 DEF ColumnKey, Bytes
<1>2. ASSUME NEW v \in Seq(Bytes), x = <<v>>
      PROVE  ColumnKey(x) \in Seq(Bytes) /\ ColumnKey(x) # <<>> /\ ColumnKey(x)[1] \in {0, 1}
  <2>1. Escaped(v) \in Seq(Bytes)
    BY EscapedParts
  <2>2. ColumnKey(x) = <<1>> \o Escaped(v) \o <<0>>
    BY <1>2 DEF ColumnKey
  <2>3. <<1>> \in Seq(Bytes) /\ <<0>> \in Seq(Bytes)
    BY DEF Bytes
  <2>4. QED
    BY <2>1, <2>2, <2>3
<1>3. QED
  BY <1>1, <1>2

(* What may follow the key of a column: nothing, or another key.           *)
IsTail(q) == q \in Seq(Bytes) /\ (q # <<>> => q[1] \in {0, 1})

(* The key of a value, behind the first n bytes of the value and with what *)
(* follows it.                                                             *)
Marked(v, n) == <<1>> \o FlattenSeq(SubSeq(EscapedBytes(v), 1, n))

KeyGoesOn(v, n, q) ==
  \E x \in Seq(Bytes) : ColumnKey(<<v>>) \o q = Marked(v, n) \o (EscapedByte(v[n + 1]) \o x)

LEMMA KeyWithin ==
  ASSUME NEW v \in Seq(Bytes), NEW n \in Nat, n < Len(v), NEW q \in Seq(Bytes)
  PROVE  Marked(v, n) \in Seq(Bytes) /\ KeyGoesOn(v, n, q)
<1> DEFINE e == FlattenSeq(SubSeq(EscapedBytes(v), 1, n))
           p == EscapedByte(v[n + 1])
           f == FlattenSeq(SubSeq(EscapedBytes(v), n + 2, Len(v)))
           one == <<1>>
           zq == <<0>> \o q
<1>1. /\ Escaped(v) = FlattenSeq(EscapedBytes(v))
      /\ EscapedBytes(v) \in Seq(Seq(Bytes)) /\ Len(EscapedBytes(v)) = Len(v)
      /\ Len(v) \in Nat /\ n + 1 \in 1 .. Len(v)
      /\ EscapedBytes(v)[n + 1] = p
  <2>1. Len(v) \in Nat /\ n + 1 \in 1 .. Len(v)
    OBVIOUS
  <2>2. QED
    BY <2>1, EscapedParts
<1>2. /\ SubSeq(EscapedBytes(v), 1, n) \in Seq(Seq(Bytes))
      /\ SubSeq(EscapedBytes(v), n + 2, Len(v)) \in Seq(Seq(Bytes))
      /\ p \in Seq(Bytes)
      /\ FlattenSeq(EscapedBytes(v)) = e \o (p \o f)
  <2>1. n < Len(EscapedBytes(v))
    BY <1>1
  <2>2. QED
    BY <1>1, <2>1, FlattenSplit
<1>3. e \in Seq(Bytes) /\ f \in Seq(Bytes)
  BY <1>2, FlattenType
<1>4. ColumnKey(<<v>>) = (one \o (e \o (p \o f))) \o <<0>>
  BY <1>1, <1>2 DEF ColumnKey
<1>5. one \in Seq(Bytes) /\ <<0>> \in Seq(Bytes) /\ zq \in Seq(Bytes)
  BY DEF Bytes
<1>6. Marked(v, n) = one \o e
  BY DEF Marked
<1> HIDE DEF e, f, p, one
<1> DEFINE pf == p \o f
           head == one \o (e \o pf)
<1>7. pf \in Seq(Bytes)
  BY <1>2, <1>3, ConcatProperties
<1>8. head \in Seq(Bytes)
  <2> HIDE DEF pf
  <2>1. e \o pf \in Seq(Bytes)
    BY <1>3, <1>7, ConcatProperties
  <2>2. QED
    BY <1>5, <2>1, ConcatProperties
<1>9. head \o zq = (head \o <<0>>) \o q
  <2> HIDE DEF head
  <2> DEFINE nul == <<0>>
  <2>1. nul \in Seq(Bytes) /\ q \in Seq(Bytes) /\ head \in Seq(Bytes)
    BY <1>5, <1>8
  <2> HIDE DEF nul
  <2>2. Regroups(head, nul, q)
    BY <2>1, Associative, Zenon
  <2>3. QED
    BY <2>2 DEF nul, Regroups
<1>10. head \o zq = (one \o e) \o (pf \o zq) /\ one \o e \in Seq(Bytes)
  <2> HIDE DEF pf, zq
  <2>1. one \in Seq(Bytes) /\ e \in Seq(Bytes) /\ pf \in Seq(Bytes) /\ zq \in Seq(Bytes)
    BY <1>3, <1>5, <1>7
  <2>2. one \o (e \o pf) = (one \o e) \o pf
    <3>1. Regroups(one, e, pf)
      BY <2>1, Associative, Zenon
    <3>2. QED
      BY <3>1, Zenon DEF Regroups
  <2>4. one \o e \in Seq(Bytes)
    BY <2>1, ConcatProperties
  <2> DEFINE m == one \o e
  <2> HIDE DEF m
  <2>5. m \in Seq(Bytes)
    BY <2>4 DEF m
  <2>6. m \o (pf \o zq) = (m \o pf) \o zq
    <3>1. m \in Seq(Bytes) /\ pf \in Seq(Bytes) /\ zq \in Seq(Bytes)
      BY <2>1, <2>5
    <3>2. Regroups(m, pf, zq)
      BY <3>1, Associative, Zenon
    <3>3. QED
      BY <3>2, Zenon DEF Regroups
  <2>3. QED
    BY <2>2, <2>4, <2>6 DEF m
<1>11. p \o (f \o zq) = pf \o zq
  <2> HIDE DEF zq
  <2>1. p \in Seq(Bytes) /\ f \in Seq(Bytes) /\ zq \in Seq(Bytes)
    BY <1>2, <1>3, <1>5
  <2>2. Regroups(p, f, zq)
    BY <2>1, Associative, Zenon
  <2>3. QED
    BY <2>2, Zenon DEF Regroups
<1>12. f \o zq \in Seq(Bytes)
  <2> HIDE DEF zq
  <2> QED BY <1>3, <1>5, ConcatProperties
<1>13. ColumnKey(<<v>>) \o q = Marked(v, n) \o (p \o (f \o zq))
  BY <1>4, <1>6, <1>9, <1>10, <1>11
<1> HIDE DEF zq
<1>14. QED
  BY <1>6, <1>10, <1>12, <1>13 DEF p, KeyGoesOn

LEMMA KeyEnd ==
  ASSUME NEW v \in Seq(Bytes), NEW q \in Seq(Bytes)
  PROVE  ColumnKey(<<v>>) \o q = Marked(v, Len(v)) \o (<<0>> \o q)
<1> DEFINE e == Escaped(v)
           m == <<1>> \o e
<1>1. e \in Seq(Bytes) /\ EscapedBytes(v) \in Seq(Seq(Bytes))
      /\ Len(EscapedBytes(v)) = Len(v) /\ e = FlattenSeq(EscapedBytes(v))
  BY EscapedParts
<1>2. SubSeq(EscapedBytes(v), 1, Len(v)) = EscapedBytes(v)
  BY <1>1, SubSeqFull
<1>3. Marked(v, Len(v)) = m /\ ColumnKey(<<v>>) = m \o <<0>>
  BY <1>1, <1>2 DEF Marked, ColumnKey
<1>4. <<0>> \in Seq(Bytes) /\ <<1>> \in Seq(Bytes)
  BY DEF Bytes
<1>5. m \in Seq(Bytes)
  <2> HIDE DEF e
  <2> QED BY <1>1, <1>4, ConcatProperties
<1> HIDE DEF m
<1>6. m \o (<<0>> \o q) = (m \o <<0>>) \o q
  <2> DEFINE nul == <<0>>
  <2>1. nul \in Seq(Bytes)
    BY DEF Bytes
  <2> HIDE DEF nul
  <2>2. Regroups(m, nul, q)
    BY <1>4, <1>5, <2>1, Associative
  <2>3. QED
    BY <2>2 DEF nul, Regroups
<1>7. QED
  BY <1>3, <1>6

LEMMA ByteStrings ==
  ASSUME NEW v \in Seq(Bytes)
  PROVE  v \in Seq(Int)
  <1>1. Bytes \subseteq Int
    BY DEF Bytes
  <1>2. QED
    BY <1>1, SeqMonotonic

(* Whatever follows them, the keys of two values are in the values' order. *)
LEMMA ValueOrder ==
  ASSUME NEW v \in Seq(Bytes), NEW w \in Seq(Bytes), Precedes(v, w),
         NEW q, IsTail(q), NEW r \in Seq(Bytes)
  PROVE  Precedes(ColumnKey(<<v>>) \o q, ColumnKey(<<w>>) \o r)
<1>1. PICK n \in 0 .. Len(w) - 1 : /\ n <= Len(v) /\ \A i \in 1 .. n : v[i] = w[i]
                                   /\ n < Len(v) => v[n + 1] < w[n + 1]
  BY DEF Precedes
<1>2. n \in Nat /\ n < Len(w) /\ n + 1 \in 1 .. Len(w) /\ Len(v) \in Nat /\ q \in Seq(Bytes)
  BY <1>1 DEF IsTail
<1>3. PICK x \in Seq(Bytes) :
        ColumnKey(<<w>>) \o r = Marked(w, n) \o (EscapedByte(w[n + 1]) \o x)
  <2>1. KeyGoesOn(w, n, r)
    BY <1>2, KeyWithin
  <2>2. QED
    BY <2>1, Zenon DEF KeyGoesOn
<1>4. Marked(w, n) \in Seq(Bytes)
  BY <1>2, KeyWithin
<1>5. Marked(v, n) = Marked(w, n)
  <2>1. /\ EscapedBytes(v) \in Seq(Seq(Bytes)) /\ Len(EscapedBytes(v)) = Len(v)
        /\ EscapedBytes(w) \in Seq(Seq(Bytes)) /\ Len(EscapedBytes(w)) = Len(w)
    BY EscapedParts
  <2>2. ASSUME NEW i \in 1 .. n PROVE EscapedBytes(v)[i] = EscapedBytes(w)[i]
    <3>1. i \in 1 .. Len(v) /\ i \in 1 .. Len(w)
      BY <1>1, <1>2
    <3>2. EscapesAt(v, i) /\ EscapesAt(w, i)
      BY <3>1, EscapedAt, Zenon
    <3>3. EscapedBytes(v)[i] = EscapedByte(v[i]) /\ EscapedBytes(w)[i] = EscapedByte(w[i])
      BY <3>2, Zenon DEF EscapesAt
    <3>4. v[i] = w[i]
      BY <1>1
    <3>5. QED
      BY <3>3, <3>4, Zenon
  <2>3. SubSeq(EscapedBytes(v), 1, n) = SubSeq(EscapedBytes(w), 1, n)
    <3>1. n <= Len(EscapedBytes(v)) /\ n <= Len(EscapedBytes(w))
      BY <1>1, <1>2, <2>1
    <3>2. QED
      BY <1>2, <2>1, <2>2, <3>1, SamePrefix
  <2>4. QED
    BY <2>3 DEF Marked
<1> DEFINE b == EscapedByte(w[n + 1]) \o x
<1>6. /\ EscapedByte(w[n + 1]) \in Seq(Bytes) /\ EscapedByte(w[n + 1]) # <<>>
      /\ EscapedByte(w[n + 1])[1] = w[n + 1] /\ w[n + 1] \in 0 .. 255
  <2>1. EscapesAt(w, n + 1)
    BY <1>2, EscapedAt, Zenon
  <2>2. QED
    BY <2>1, Zenon DEF EscapesAt
<1>7. b \in Seq(Bytes) /\ b # <<>> /\ b[1] = w[n + 1]
  <2> HIDE DEF EscapedByte
  <2> QED BY <1>3, <1>6
<1>8. \E a \in Seq(Bytes) : /\ ColumnKey(<<v>>) \o q = Marked(w, n) \o a
                            /\ Precedes(a, b)
  <2>1. CASE n = Len(v)
    <3> DEFINE a == <<0>> \o q
    <3>1. ColumnKey(<<v>>) \o q = Marked(w, n) \o a
      BY <1>2, <1>5, <2>1, KeyEnd
    <3>2. a \in Seq(Bytes) /\ a # <<>> /\ a[1] = 0 /\ Len(a) = Len(q) + 1 /\ Len(q) \in Nat
      BY <1>2 DEF Bytes
    <3>3. CASE w[n + 1] = 0
      <4>1. b = <<0, 255>> \o x
        BY <3>3 DEF EscapedByte
      <4>2. Len(b) >= 2 /\ Len(b) \in Nat /\ b[1] = 0 /\ b[2] = 255
        BY <1>3, <4>1 DEF Bytes
      <4>3. 1 < Len(a) => a[2] \in {0, 1}
        <5>1. ASSUME 1 < Len(a) PROVE a[2] \in {0, 1}
          <6>1. q # <<>> /\ a[2] = q[1]
            BY <1>2, <3>2, <5>1
          <6>2. QED
            BY <6>1 DEF IsTail
        <5>2. QED
          BY <5>1
      <4> HIDE DEF a, b
      <4>4. 1 \in 0 .. Len(b) - 1 /\ 1 <= Len(a) /\ (1 < Len(a) => a[1 + 1] < b[1 + 1])
        BY <3>2, <4>2, <4>3
      <4>5. \A i \in 1 .. 1 : a[i] = b[i]
        BY <3>2, <4>2
      <4>6. Precedes(a, b)
        BY <4>4, <4>5, PrecedesBy
      <4>7. QED
        BY <3>1, <3>2, <4>6
    <3>4. CASE w[n + 1] # 0
      <4> HIDE DEF a, b
      <4>1. a[1] < b[1]
        <5>1. 0 < w[n + 1]
          <6> DEFINE z == w[n + 1]
          <6>1. z \in 0 .. 255 /\ z # 0
            BY <1>6, <3>4
          <6> HIDE DEF z
          <6>2. 0 < z
            BY <6>1
          <6>3. QED
            BY <6>2 DEF z
        <5>2. QED
          BY <1>7, <3>2, <5>1
      <4>2. a \in Seq(Int) /\ b \in Seq(Int)
        BY <1>7, <3>2, ByteStrings
      <4>3. Precedes(a, b)
        BY <1>7, <3>2, <4>1, <4>2, PrecedesAtOnce
      <4>4. QED
        BY <3>1, <3>2, <4>3
    <3>5. QED
      BY <3>3, <3>4
  <2>2. CASE n # Len(v)
    <3>1. n < Len(v) /\ n + 1 \in 1 .. Len(v)
      BY <1>1, <1>2, <2>2
    <3>2. PICK y \in Seq(Bytes) :
            ColumnKey(<<v>>) \o q = Marked(v, n) \o (EscapedByte(v[n + 1]) \o y)
      <4>1. KeyGoesOn(v, n, q)
        BY <1>2, <3>1, KeyWithin
      <4>2. QED
        BY <4>1, Zenon DEF KeyGoesOn
    <3>3. /\ EscapedByte(v[n + 1]) \in Seq(Bytes) /\ EscapedByte(v[n + 1]) # <<>>
          /\ EscapedByte(v[n + 1])[1] = v[n + 1]
      <4>1. EscapesAt(v, n + 1)
        BY <3>1, EscapedAt, Zenon
      <4>2. QED
        BY <4>1, Zenon DEF EscapesAt
    <3> DEFINE a == EscapedByte(v[n + 1]) \o y
    <3>4. a \in Seq(Bytes) /\ a # <<>> /\ a[1] = v[n + 1]
      BY <3>2, <3>3
    <3> HIDE DEF b
    <3>5. ColumnKey(<<v>>) \o q = Marked(w, n) \o a
      BY <1>5, <3>2
    <3> HIDE DEF a
    <3>6. a[1] < b[1]
      BY <1>1, <1>7, <3>1, <3>4
    <3>7. a \in Seq(Int) /\ b \in Seq(Int)
      BY <1>7, <3>4, ByteStrings
    <3>8. Precedes(a, b)
      BY <1>7, <3>4, <3>6, <3>7, PrecedesAtOnce
    <3>9. QED
      BY <3>4, <3>5, <3>8
  <2>3. QED
    BY <2>1, <2>2
<1> HIDE DEF b
<1>9. PICK a \in Seq(Bytes) : ColumnKey(<<v>>) \o q = Marked(w, n) \o a /\ Precedes(a, b)
  BY <1>8
<1>10. a \in Seq(Int) /\ b \in Seq(Int) /\ Marked(w, n) \in Seq(Int)
  BY <1>4, <1>7, <1>9, ByteStrings
<1>11. Precedes(Marked(w, n) \o a, Marked(w, n) \o b)
  BY <1>9, <1>10, PrecedesPushed
<1>12. ColumnKey(<<w>>) \o r = Marked(w, n) \o b
  BY <1>3 DEF b
<1>13. QED
  BY <1>9, <1>11, <1>12

IsColumn(x) == x = <<>> \/ \E v \in Seq(Bytes) : x = <<v>>

(* NULLS FIRST, then the order of the bytes.                               *)
ColumnBefore(x, y) == y # <<>> /\ (x = <<>> \/ Precedes(x[1], y[1]))

LEMMA ColumnOrder ==
  ASSUME NEW x, NEW y, IsColumn(x), IsColumn(y), ColumnBefore(x, y),
         NEW q, IsTail(q), NEW r \in Seq(Bytes)
  PROVE  Precedes(ColumnKey(x) \o q, ColumnKey(y) \o r)
<1>1. PICK w \in Seq(Bytes) : y = <<w>>
  BY DEF IsColumn, ColumnBefore
<1>2. CASE x = <<>>
  <2> DEFINE a == ColumnKey(x) \o q
             e == Escaped(w)
             k == ColumnKey(y)
             b == k \o r
  <2>1. ColumnKey(x) = <<0>> /\ q \in Seq(Bytes) /\ 0 \in Bytes /\ 1 \in Bytes
    BY <1>2 DEF ColumnKey, IsTail, Bytes
  <2>2. a \in Seq(Bytes) /\ a # <<>> /\ a[1] = 0
    BY <2>1
  <2>3. e \in Seq(Bytes) /\ k = <<1>> \o e \o <<0>>
    BY <1>1, EscapedParts DEF ColumnKey
  <2> HIDE DEF e, k
  <2>4. k \in Seq(Bytes) /\ k # <<>> /\ k[1] = 1
    BY <2>1, <2>3
  <2>5. b \in Seq(Bytes) /\ b # <<>> /\ b[1] = 1
    BY <2>4
  <2> HIDE DEF a, b
  <2>6. a \in Seq(Int) /\ b \in Seq(Int) /\ a[1] < b[1]
    BY <2>2, <2>5, ByteStrings
  <2>7. Precedes(a, b)
    BY <2>2, <2>5, <2>6, PrecedesAtOnce
  <2>8. QED
    BY <2>7 DEF a, b, k
<1>3. ASSUME NEW v \in Seq(Bytes), x = <<v>>
      PROVE  Precedes(ColumnKey(x) \o q, ColumnKey(y) \o r)
  <2>1. Precedes(v, w)
    BY <1>1, <1>3 DEF ColumnBefore
  <2>2. QED
    BY <1>1, <1>3, <2>1, ValueOrder
<1>4. QED
  BY <1>2, <1>3 DEF IsColumn

LEMMA ColumnTotal ==
  ASSUME NEW x, NEW y, IsColumn(x), IsColumn(y), x # y
  PROVE  ColumnBefore(x, y) \/ ColumnBefore(y, x)
<1>1. CASE x = <<>> \/ y = <<>>
  BY <1>1 DEF ColumnBefore
<1>2. CASE x # <<>> /\ y # <<>>
  <2>1. PICK v \in Seq(Bytes), w \in Seq(Bytes) : x = <<v>> /\ y = <<w>>
    BY <1>2 DEF IsColumn
  <2>2. v # w /\ v \in Seq(Int) /\ w \in Seq(Int) /\ x[1] = v /\ y[1] = w
    BY <2>1, ByteStrings
  <2>3. Precedes(v, w) \/ Precedes(w, v)
    BY <2>2, PrecedesTotal
  <2>4. QED
    BY <1>2, <2>2, <2>3 DEF ColumnBefore
<1>3. QED
  BY <1>1, <1>2

(* The key of a series before it is written in digits.                     *)
Columns(s) == [c \in DOMAIN s |-> ColumnKey(s[c])]
Flat(s) == FlattenSeq(Columns(s))

LEMMA SeriesParts ==
  ASSUME NEW s, IsSeries(s)
  PROVE  /\ Len(s) \in Nat /\ DOMAIN s = 1 .. Len(s) /\ s \in Seq(Seq(Seq(Bytes)))
         /\ \A c \in 1 .. Len(s) : /\ IsColumn(s[c]) /\ Columns(s)[c] = ColumnKey(s[c])
                                   /\ Columns(s)[c] # <<>> /\ Columns(s)[c][1] \in {0, 1}
         /\ Columns(s) \in Seq(Seq(Bytes)) /\ Len(Columns(s)) = Len(s)
<1>1. s \in Seq(Seq(Seq(Bytes))) /\ Len(s) \in Nat /\ DOMAIN s = 1 .. Len(s)
  BY DEF IsSeries
<1>2. ASSUME NEW c \in 1 .. Len(s) PROVE IsColumn(s[c])
  <2>1. s[c] \in Seq(Seq(Bytes)) /\ Len(s[c]) <= 1
    BY <1>1, ElementOfSeq DEF IsSeries
  <2> DEFINE x == s[c]
  <2>2. x \in Seq(Seq(Bytes)) /\ Len(x) <= 1
    BY <2>1
  <2> HIDE DEF x
  <2>3. x = <<>> \/ (x = <<x[1]>> /\ x[1] \in Seq(Bytes))
    <3>1. CASE Len(x) = 0
      BY <2>2, <3>1
    <3>2. CASE Len(x) = 1
      <4>1. x[1] \in Seq(Bytes)
        BY <2>2, <3>2, ElementOfSeq
      <4>2. <<x[1]>> \in Seq(Seq(Bytes)) /\ Len(<<x[1]>>) = 1 /\ <<x[1]>>[1] = x[1]
        BY <4>1
      <4>3. \A i \in 1 .. Len(x) : x[i] = <<x[1]>>[i]
        BY <3>2, <4>2
      <4>4. x = <<x[1]>>
        BY <2>2, <3>2, <4>2, <4>3, SeqEqual
      <4>5. QED
        BY <4>1, <4>4
    <3>3. Len(x) = 0 \/ Len(x) = 1
      <4>1. Len(x) \in Nat
        BY <2>2, LenProperties
      <4>2. \A l \in Nat : l <= 1 => l = 0 \/ l = 1
        OBVIOUS
      <4>3. QED
        BY <2>2, <4>1, <4>2, Zenon
    <3>4. QED
      BY <3>1, <3>2, <3>3
  <2>4. QED
    BY <2>3 DEF IsColumn, x
<1>3. ASSUME NEW c \in 1 .. Len(s)
      PROVE  /\ ColumnKey(s[c]) \in Seq(Bytes) /\ ColumnKey(s[c]) # <<>>
             /\ ColumnKey(s[c])[1] \in {0, 1}
  BY <1>2, ColumnKeyType DEF IsColumn
<1>4. Columns(s) = [c \in 1 .. Len(s) |-> ColumnKey(s[c])]
  BY <1>1 DEF Columns
<1>5. Columns(s) \in [1 .. Len(s) -> Seq(Bytes)]
  BY <1>3, <1>4
<1>6. Columns(s) \in Seq(Seq(Bytes)) /\ Len(Columns(s)) = Len(s)
  BY <1>1, <1>5
<1>7. QED
  BY <1>1, <1>2, <1>3, <1>4, <1>6

LEMMA TailOfColumns ==
  ASSUME NEW p \in Seq(Seq(Bytes)),
         \A i \in 1 .. Len(p) : p[i] # <<>> /\ p[i][1] \in {0, 1}
  PROVE  IsTail(FlattenSeq(p)) /\ (p # <<>> => FlattenSeq(p) # <<>>)
<1>1. CASE p = <<>>
  <2>1. FlattenSeq(p) = <<>> /\ <<>> \in Seq(Bytes)
    BY <1>1, FlattenEmpty, EmptySeq
  <2>2. QED
    BY <1>1, <2>1 DEF IsTail
<1>2. CASE p # <<>>
  <2>1. 0 < Len(p) /\ 1 \in 1 .. Len(p)
    BY <1>2
  <2> DEFINE x == p[1]
             y == FlattenSeq(SubSeq(p, 2, Len(p)))
  <2>2. /\ SubSeq(p, 2, Len(p)) \in Seq(Seq(Bytes)) /\ x \in Seq(Bytes)
        /\ FlattenSeq(p) = FlattenSeq(SubSeq(p, 1, 0)) \o (x \o y)
    <3>1. 0 \in Nat /\ 0 < Len(p) /\ 0 + 1 = 1 /\ 0 + 2 = 2
      BY <2>1
    <3>2. /\ SubSeq(p, 0 + 2, Len(p)) \in Seq(Seq(Bytes)) /\ p[0 + 1] \in Seq(Bytes)
          /\ FlattenSeq(p) = FlattenSeq(SubSeq(p, 1, 0)) \o
                               (p[0 + 1] \o FlattenSeq(SubSeq(p, 0 + 2, Len(p))))
      BY <3>1, FlattenSplit, Zenon
    <3>3. QED
      BY <3>1, <3>2
  <2>3. FlattenSeq(SubSeq(p, 1, 0)) = <<>>
    <3>1. SubSeq(p, 1, 0) = <<>>
      BY SubSeqEmpty
    <3>2. QED
      BY <3>1, FlattenEmpty
  <2>4. y \in Seq(Bytes)
    BY <2>2, FlattenType
  <2>5. x # <<>> /\ x[1] \in {0, 1}
    BY <2>1
  <2> HIDE DEF x, y
  <2>6. x \o y \in Seq(Bytes) /\ x \o y # <<>> /\ (x \o y)[1] = x[1]
    BY <2>2, <2>4, <2>5
  <2>7. FlattenSeq(p) = x \o y
    BY <2>2, <2>3, <2>6, ConcatEmptySeq
  <2>8. QED
    BY <2>5, <2>6, <2>7 DEF IsTail
<1>3. QED
  BY <1>1, <1>2

LEMMA FlatTail ==
  ASSUME NEW s, IsSeries(s)
  PROVE  Flat(s) \in Seq(Bytes) /\ (s # <<>> => Flat(s) # <<>>)
<1>1. Columns(s) \in Seq(Seq(Bytes)) /\ Len(Columns(s)) = Len(s) /\ s \in Seq(Seq(Seq(Bytes)))
      /\ \A i \in 1 .. Len(Columns(s)) : Columns(s)[i] # <<>> /\ Columns(s)[i][1] \in {0, 1}
  BY SeriesParts
<1>2. IsTail(FlattenSeq(Columns(s))) /\ (Columns(s) # <<>> => FlattenSeq(Columns(s)) # <<>>)
  BY <1>1, TailOfColumns
<1>3. s # <<>> => Columns(s) # <<>>
  BY <1>1
<1>4. QED
  BY <1>2, <1>3 DEF IsTail, Flat

LEMMA FlatSplit ==
  ASSUME NEW s, IsSeries(s), NEW c \in 1 .. Len(s)
  PROVE  /\ FlattenSeq(SubSeq(Columns(s), 1, c - 1)) \in Seq(Bytes)
         /\ ColumnKey(s[c]) \in Seq(Bytes)
         /\ \E q : /\ IsTail(q)
                   /\ Flat(s) = FlattenSeq(SubSeq(Columns(s), 1, c - 1)) \o (ColumnKey(s[c]) \o q)
<1>1. /\ Columns(s) \in Seq(Seq(Bytes)) /\ Len(Columns(s)) = Len(s) /\ Len(s) \in Nat
      /\ \A i \in 1 .. Len(s) : Columns(s)[i] # <<>> /\ Columns(s)[i][1] \in {0, 1}
      /\ Columns(s)[c] = ColumnKey(s[c])
  BY SeriesParts
<1> DEFINE p == Columns(s)
           n == c - 1
           z == SubSeq(p, n + 2, Len(p))
<1>2. n \in Nat /\ n < Len(p) /\ n + 1 = c
  BY <1>1
<1>3. /\ SubSeq(p, 1, n) \in Seq(Seq(Bytes)) /\ z \in Seq(Seq(Bytes)) /\ p[n + 1] \in Seq(Bytes)
      /\ FlattenSeq(p) = FlattenSeq(SubSeq(p, 1, n)) \o (p[n + 1] \o FlattenSeq(z))
  <2> HIDE DEF p, n
  <2>1. p \in Seq(Seq(Bytes))
    BY <1>1 DEF p
  <2>2. QED
    BY <1>2, <2>1, FlattenSplit
<1>4. \A i \in 1 .. Len(z) : z[i] # <<>> /\ z[i][1] \in {0, 1}
  <2>1. SUFFICES ASSUME NEW i \in 1 .. Len(z) PROVE z[i] # <<>> /\ z[i][1] \in {0, 1}
    OBVIOUS
  <2>2. n + 1 + i \in 1 .. Len(s) /\ z[i] = p[n + 1 + i]
    <3> HIDE DEF p
    <3>1. p \in Seq(Seq(Bytes)) /\ Len(p) = Len(s)
      BY <1>1 DEF p
    <3>2. QED
      BY <1>1, <1>2, <3>1
  <2>3. QED
    BY <1>1, <2>2
<1> HIDE DEF z
<1>5. IsTail(FlattenSeq(z))
  BY <1>3, <1>4, TailOfColumns
<1>6. FlattenSeq(SubSeq(p, 1, n)) \in Seq(Bytes)
  BY <1>3, FlattenType
<1>7. p[n + 1] = ColumnKey(s[c])
  BY <1>1, <1>2
<1>8. QED
  BY <1>3, <1>5, <1>6, <1>7 DEF Flat

LEMMA FlatOrder ==
  ASSUME NEW s, NEW t, IsSeries(s), IsSeries(t), Len(s) = Len(t), SeriesBefore(s, t)
  PROVE  Precedes(Flat(s), Flat(t))
<1>1. PICK c \in DOMAIN s : (\A k \in 1 .. c - 1 : s[k] = t[k]) /\ ColumnBefore(s[c], t[c])
  BY DEF SeriesBefore, ColumnBefore
<1>2. c \in 1 .. Len(s) /\ c \in 1 .. Len(t) /\ Len(s) \in Nat
  BY SeriesParts
<1> DEFINE e == FlattenSeq(SubSeq(Columns(s), 1, c - 1))
           x == ColumnKey(s[c])
           y == ColumnKey(t[c])
<1>3. SubSeq(Columns(s), 1, c - 1) = SubSeq(Columns(t), 1, c - 1)
  <2>1. /\ Columns(s) \in Seq(Seq(Bytes)) /\ Len(Columns(s)) = Len(s)
        /\ Columns(t) \in Seq(Seq(Bytes)) /\ Len(Columns(t)) = Len(t)
    BY SeriesParts
  <2>2. \A i \in 1 .. c - 1 : Columns(s)[i] = Columns(t)[i]
    <3>1. SUFFICES ASSUME NEW i \in 1 .. c - 1 PROVE Columns(s)[i] = Columns(t)[i]
      OBVIOUS
    <3>2. i \in 1 .. Len(s) /\ i \in 1 .. Len(t) /\ s[i] = t[i]
      BY <1>1, <1>2
    <3>3. Columns(s)[i] = ColumnKey(s[i]) /\ Columns(t)[i] = ColumnKey(t[i])
      BY <3>2, SeriesParts
    <3>4. QED
      BY <3>2, <3>3
  <2>3. c - 1 \in Nat /\ c - 1 <= Len(Columns(s)) /\ c - 1 <= Len(Columns(t))
    BY <1>2, <2>1
  <2>4. QED
    BY <2>1, <2>2, <2>3, SamePrefix
<1>4. PICK q : IsTail(q) /\ Flat(s) = e \o (x \o q)
  BY <1>2, FlatSplit
<1>5. PICK r : IsTail(r) /\ Flat(t) = e \o (y \o r)
  BY <1>2, <1>3, FlatSplit
<1>6. /\ e \in Seq(Bytes) /\ x \in Seq(Bytes) /\ y \in Seq(Bytes)
      /\ q \in Seq(Bytes) /\ r \in Seq(Bytes)
  BY <1>2, <1>4, <1>5, FlatSplit DEF IsTail
<1>7. Precedes(x \o q, y \o r)
  <2>1. IsColumn(s[c]) /\ IsColumn(t[c])
    BY <1>2, SeriesParts
  <2>2. QED
    BY <1>1, <1>4, <1>6, <2>1, ColumnOrder
<1> HIDE DEF e, x, y
<1>8. x \o q \in Seq(Bytes) /\ y \o r \in Seq(Bytes)
  BY <1>6, ConcatProperties
<1> DEFINE a == x \o q
           b == y \o r
<1> HIDE DEF a, b
<1>9. a \in Seq(Int) /\ b \in Seq(Int) /\ e \in Seq(Int) /\ Precedes(a, b)
  BY <1>6, <1>7, <1>8, ByteStrings DEF a, b
<1>10. Precedes(e \o a, e \o b)
  BY <1>9, PrecedesPushed
<1>11. QED
  BY <1>4, <1>5, <1>10 DEF a, b

LEMMA SeriesTotal ==
  ASSUME NEW s, NEW t, IsSeries(s), IsSeries(t), Len(s) = Len(t), s # t
  PROVE  SeriesBefore(s, t) \/ SeriesBefore(t, s)
<1>1. /\ s \in Seq(Seq(Seq(Bytes))) /\ t \in Seq(Seq(Seq(Bytes))) /\ Len(s) \in Nat
      /\ DOMAIN s = 1 .. Len(s) /\ DOMAIN t = 1 .. Len(t)
  BY SeriesParts
<1>2. PICK n \in Nat : /\ n < Len(s) /\ n < Len(t) /\ s[n + 1] # t[n + 1]
                       /\ \A i \in 1 .. n : s[i] = t[i]
  <2>1. \/ \E n \in 0 .. Len(t) - 1 : n = Len(s)
        \/ \E n \in 0 .. Len(s) - 1 : n = Len(t)
        \/ \E n \in Nat : /\ n < Len(s) /\ n < Len(t) /\ s[n + 1] # t[n + 1]
                          /\ \A i \in 1 .. n : s[i] = t[i]
    <3> DEFINE S == Seq(Seq(Bytes))
    <3>1. s \in Seq(S) /\ t \in Seq(S) /\ s # t
      BY <1>1
    <3> HIDE DEF S
    <3>2. DifferFirst(s, t)
      BY <3>1, FirstDifference, Zenon
    <3>3. QED
      BY <3>2, Zenon DEF DifferFirst
  <2>2. \A l \in Nat : \A n \in 0 .. l - 1 : n # l
    OBVIOUS
  <2>3. QED
    BY <1>1, <2>1, <2>2, Zenon
<1> DEFINE c == n + 1
<1>3. c \in 1 .. Len(s) /\ c \in 1 .. Len(t) /\ c - 1 = n /\ c \in DOMAIN s /\ c \in DOMAIN t
  BY <1>1, <1>2
<1>4. IsColumn(s[c]) /\ IsColumn(t[c])
  BY <1>3, SeriesParts
<1> HIDE DEF c
<1>5. s[c] # t[c] /\ (\A i \in 1 .. c - 1 : s[i] = t[i]) /\ (\A i \in 1 .. c - 1 : t[i] = s[i])
  BY <1>2, <1>3 DEF c
<1>6. ColumnBefore(s[c], t[c]) \/ ColumnBefore(t[c], s[c])
  BY <1>4, <1>5, ColumnTotal
<1>7. CASE ColumnBefore(s[c], t[c])
  BY <1>3, <1>5, <1>7 DEF SeriesBefore, ColumnBefore
<1>8. CASE ColumnBefore(t[c], s[c])
  BY <1>3, <1>5, <1>8 DEF SeriesBefore, ColumnBefore
<1>9. QED
  BY <1>6, <1>7, <1>8

(* Two digits per byte keep the order.                                     *)
Digits == 0 .. 15

LEMMA HexParts ==
  ASSUME NEW a \in Seq(Bytes)
  PROVE  /\ Hex(a) \in Seq(Digits) /\ Len(Hex(a)) = 2 * Len(a) /\ Len(a) \in Nat
         /\ \A i \in 1 .. Len(a) : /\ a[i] \in 0 .. 255
                                   /\ Hex(a)[2 * i - 1] = a[i] \div 16
                                   /\ Hex(a)[2 * i] = a[i] % 16
<1>1. Len(a) \in Nat /\ \A i \in 1 .. Len(a) : a[i] \in 0 .. 255
  BY ElementOfSeq DEF Bytes
<1>2. ASSUME NEW i \in 1 .. 2 * Len(a)
      PROVE  \/ i % 2 = 1 /\ (i + 1) \div 2 \in 1 .. Len(a)
             \/ i % 2 = 0 /\ i \div 2 \in 1 .. Len(a)
  BY <1>1
<1>3. \A x \in 0 .. 255 : x \div 16 \in Digits /\ x % 16 \in Digits
  BY DEF Digits
<1> DEFINE digit(i) == IF i % 2 = 1 THEN a[(i + 1) \div 2] \div 16 ELSE a[i \div 2] % 16
<1>4. ASSUME NEW i \in 1 .. 2 * Len(a) PROVE digit(i) \in Digits
  <2>1. CASE i % 2 = 1
    <3>1. (i + 1) \div 2 \in 1 .. Len(a)
      BY <1>2, <2>1
    <3>2. a[(i + 1) \div 2] \div 16 \in Digits
      BY <1>1, <1>3, <3>1, Zenon
    <3>3. QED
      BY <2>1, <3>2
  <2>2. CASE i % 2 # 1
    <3>1. i \div 2 \in 1 .. Len(a)
      BY <1>2, <2>2
    <3>2. a[i \div 2] % 16 \in Digits
      BY <1>1, <1>3, <3>1, Zenon
    <3>3. QED
      BY <2>2, <3>2
  <2>3. QED
    BY <2>1, <2>2
<1>5. Hex(a) = [i \in 1 .. 2 * Len(a) |-> digit(i)]
  BY DEF Hex
<1>6. Hex(a) \in Seq(Digits) /\ Len(Hex(a)) = 2 * Len(a)
  <2> HIDE DEF digit
  <2>1. Hex(a) \in [1 .. 2 * Len(a) -> Digits] /\ 2 * Len(a) \in Nat
    BY <1>1, <1>4, <1>5
  <2>2. QED
    BY <2>1
<1>7. ASSUME NEW i \in 1 .. Len(a)
      PROVE  Hex(a)[2 * i - 1] = a[i] \div 16 /\ Hex(a)[2 * i] = a[i] % 16
  <2>1. /\ 2 * i - 1 \in 1 .. 2 * Len(a) /\ (2 * i - 1) % 2 = 1 /\ ((2 * i - 1) + 1) \div 2 = i
        /\ 2 * i \in 1 .. 2 * Len(a) /\ (2 * i) % 2 # 1 /\ (2 * i) \div 2 = i
    BY <1>1
  <2>2. Hex(a)[2 * i - 1] = digit(2 * i - 1) /\ Hex(a)[2 * i] = digit(2 * i)
    <3> HIDE DEF digit
    <3> QED BY <1>5, <2>1
  <2>3. QED
    BY <2>1, <2>2
<1>8. QED
  BY <1>1, <1>6, <1>7

LEMMA HexPushed ==
  ASSUME NEW a \in Seq(Bytes), NEW b \in Seq(Bytes), Precedes(a, b)
  PROVE  Precedes(Hex(a), Hex(b))
<1>1. PICK n \in 0 .. Len(b) - 1 : /\ n <= Len(a) /\ \A i \in 1 .. n : a[i] = b[i]
                                   /\ n < Len(a) => a[n + 1] < b[n + 1]
  BY DEF Precedes
<1> DEFINE h == Hex(a)
           k == Hex(b)
<1>2. /\ Len(a) \in Nat /\ Len(b) \in Nat /\ Len(h) = 2 * Len(a) /\ Len(k) = 2 * Len(b)
      /\ \A i \in 1 .. Len(a) : a[i] \in 0 .. 255 /\ h[2 * i - 1] = a[i] \div 16 /\ h[2 * i] = a[i] % 16
      /\ \A i \in 1 .. Len(b) : b[i] \in 0 .. 255 /\ k[2 * i - 1] = b[i] \div 16 /\ k[2 * i] = b[i] % 16
  BY HexParts
<1> HIDE DEF h, k
<1>3. ASSUME NEW i \in 1 .. 2 * n PROVE h[i] = k[i]
  <2>1. \E j \in 1 .. n : i = 2 * j \/ i = 2 * j - 1
    <3>1. CASE i % 2 = 0
      <4>1. i \div 2 \in 1 .. n /\ i = 2 * (i \div 2)
        BY <1>1, <3>1
      <4>2. QED
        BY <4>1
    <3>2. CASE i % 2 # 0
      <4>1. (i + 1) \div 2 \in 1 .. n /\ i = 2 * ((i + 1) \div 2) - 1
        BY <1>1, <3>2
      <4>2. QED
        BY <4>1
    <3>3. QED
      BY <3>1, <3>2
  <2>2. PICK j \in 1 .. n : i = 2 * j \/ i = 2 * j - 1
    BY <2>1
  <2>3. j \in 1 .. Len(a) /\ j \in 1 .. Len(b) /\ a[j] = b[j]
    BY <1>1, <1>2
  <2>4. QED
    BY <1>2, <2>2, <2>3
<1>4. 2 * n \in 0 .. Len(k) - 1 /\ 2 * n <= Len(h) /\ 2 * n + 1 \in 0 .. Len(k) - 1
  BY <1>1, <1>2
<1>5. CASE n = Len(a)
  <2>1. ~(2 * n < Len(h))
    BY <1>2, <1>5
  <2>2. QED
    BY <1>3, <1>4, <2>1, PrecedesBy DEF h, k
<1>6. CASE n # Len(a)
  <2> DEFINE x == a[n + 1]
             y == b[n + 1]
  <2>1. n + 1 \in 1 .. Len(a) /\ n + 1 \in 1 .. Len(b) /\ n < Len(a)
    BY <1>1, <1>2, <1>6
  <2>2. x \in 0 .. 255 /\ y \in 0 .. 255 /\ x < y
    BY <1>1, <1>2, <2>1
  <2>3. /\ h[2 * n + 1] = x \div 16 /\ h[2 * n + 2] = x % 16
        /\ k[2 * n + 1] = y \div 16 /\ k[2 * n + 2] = y % 16
    <3>1. 2 * (n + 1) - 1 = 2 * n + 1 /\ 2 * (n + 1) = 2 * n + 2
      BY <1>1
    <3>2. /\ h[2 * (n + 1) - 1] = x \div 16 /\ h[2 * (n + 1)] = x % 16
          /\ k[2 * (n + 1) - 1] = y \div 16 /\ k[2 * (n + 1)] = y % 16
      BY <1>2, <2>1
    <3>3. QED
      BY <3>1, <3>2
  <2> HIDE DEF x, y
  <2>4. \/ x \div 16 < y \div 16
        \/ x \div 16 = y \div 16 /\ x % 16 < y % 16
    BY <2>2
  <2>5. CASE x \div 16 < y \div 16
    <3>1. h[2 * n + 1] < k[2 * n + 1]
      BY <2>3, <2>5
    <3>2. QED
      BY <1>3, <1>4, <3>1, PrecedesBy DEF h, k
  <2>6. CASE x \div 16 = y \div 16 /\ x % 16 < y % 16
    <3> DEFINE m == 2 * n + 1
    <3>1. ASSUME NEW i \in 1 .. m PROVE h[i] = k[i]
      <4>1. i \in 1 .. 2 * n \/ i = 2 * n + 1
        BY <1>1
      <4>2. QED
        BY <1>3, <2>3, <2>6, <4>1
    <3>2. m \in 0 .. Len(k) - 1 /\ m <= Len(h) /\ m + 1 = 2 * n + 2
      BY <1>2, <1>4, <2>1
    <3>3. h[m + 1] < k[m + 1]
      BY <2>3, <2>6, <3>2
    <3> HIDE DEF m
    <3>4. QED
      BY <3>1, <3>2, <3>3, PrecedesBy DEF h, k
  <2>7. QED
    BY <2>4, <2>5, <2>6
<1>7. QED
  BY <1>5, <1>6

LEMMA HexNumbers ==
  ASSUME NEW a \in Seq(Bytes)
  PROVE  Hex(a) \in Seq(Int)
<1>1. Hex(a) \in Seq(Digits) /\ Digits \subseteq Int
  BY HexParts DEF Digits
<1>2. QED
  BY <1>1, SeqMonotonic

LEMMA HexSame ==
  ASSUME NEW a \in Seq(Bytes), NEW b \in Seq(Bytes), Hex(a) = Hex(b)
  PROVE  a = b
<1>1. SUFFICES ASSUME a # b PROVE FALSE
  OBVIOUS
<1>2. a \in Seq(Int) /\ b \in Seq(Int)
  BY ByteStrings
<1>3. Precedes(a, b) \/ Precedes(b, a)
  BY <1>1, <1>2, PrecedesTotal
<1>4. Precedes(Hex(a), Hex(b)) \/ Precedes(Hex(b), Hex(a))
  BY <1>3, HexPushed
<1>5. Hex(a) \in Seq(Int)
  BY HexNumbers
<1>6. QED
  BY <1>4, <1>5, PrecedesIrreflexive

(* The order key of a series compares as the series does, and tells it     *)
(* from every other: the comment of the series key.                        *)
LEMMA KeyParts ==
  ASSUME NEW s, IsSeries(s)
  PROVE  OrderKey(s) = Hex(Flat(s)) /\ OrderKey(s) \in Seq(Int) /\ Flat(s) \in Seq(Bytes)
<1>1. OrderKey(s) = Hex(Flat(s))
  BY Zenon DEF OrderKey, Flat, Columns
<1>2. Flat(s) \in Seq(Bytes)
  BY FlatTail
<1>3. QED
  BY <1>1, <1>2, HexNumbers

LEMMA KeyPushed ==
  ASSUME NEW s, NEW t, IsSeries(s), IsSeries(t), Len(s) = Len(t), SeriesBefore(s, t)
  PROVE  Precedes(OrderKey(s), OrderKey(t))
  BY KeyParts, FlatOrder, HexPushed

(* The keys of two series of one table are in the order of the series:     *)
(* NULL tags first, then by the bytes of the values, column by column.     *)
THEOREM SeriesKeyOrder ==
  ASSUME NEW s, NEW t, IsSeries(s), IsSeries(t), Len(s) = Len(t)
  PROVE  /\ Precedes(OrderKey(s), OrderKey(t)) <=> SeriesBefore(s, t)
         /\ OrderKey(s) = OrderKey(t) <=> s = t
<1>1. OrderKey(s) \in Seq(Int) /\ OrderKey(t) \in Seq(Int)
  BY KeyParts
<1>2. CASE s = t
  <2>1. ~Precedes(OrderKey(s), OrderKey(t))
    BY <1>1, <1>2, PrecedesIrreflexive
  <2>2. ~SeriesBefore(s, t)
    BY <1>2, <2>1, KeyPushed
  <2>3. QED
    BY <1>2, <2>1, <2>2
<1>3. CASE SeriesBefore(s, t)
  <2>1. Precedes(OrderKey(s), OrderKey(t))
    BY <1>3, KeyPushed
  <2>2. OrderKey(s) # OrderKey(t)
    BY <1>1, <2>1, PrecedesIrreflexive
  <2>3. QED
    BY <1>3, <2>1, <2>2
<1>4. CASE SeriesBefore(t, s)
  <2>1. Precedes(OrderKey(t), OrderKey(s))
    BY <1>4, KeyPushed
  <2>2. ~Precedes(OrderKey(s), OrderKey(t)) /\ OrderKey(s) # OrderKey(t)
    BY <1>1, <2>1, PrecedesAsymmetric
  <2>3. ~SeriesBefore(s, t)
    BY <2>2, KeyPushed
  <2>4. QED
    BY <2>2, <2>3
<1>5. QED
  BY <1>2, <1>3, <1>4, SeriesTotal

LEMMA EmptyKey ==
  ASSUME NEW s, IsSeries(s), OrderKey(s) = OrderKey(<<>>)
  PROVE  s = <<>>
<1>1. IsSeries(<<>>)
  <2>1. <<>> \in Seq(Seq(Seq(Bytes))) /\ DOMAIN <<>> = {}
    BY EmptySeq
  <2>2. QED
    BY <2>1 DEF IsSeries
<1>2. Flat(<<>>) = <<>>
  <2>1. Columns(<<>>) = <<>>
    BY DEF Columns
  <2>2. QED
    BY <2>1, FlattenEmpty DEF Flat
<1>3. Hex(Flat(s)) = Hex(Flat(<<>>)) /\ Flat(s) \in Seq(Bytes) /\ Flat(<<>>) \in Seq(Bytes)
  BY <1>1, KeyParts
<1>4. Flat(s) = <<>>
  BY <1>2, <1>3, HexSame
<1>5. QED
  BY <1>4, FlatTail

-----------------------------------------------------------------------------
(* Sorting by rank: the elements of a finite set, one behind another.      *)

(* R puts the elements of S in an order.                                   *)
Ordered(R, S) ==
  /\ \A x \in S : <<x, x>> \notin R
  /\ \A x, y, z \in S : <<x, y>> \in R /\ <<y, z>> \in R => <<x, z>> \in R
  /\ \A x, y \in S : x = y \/ <<x, y>> \in R \/ <<y, x>> \in R

Below(R, S, x) == {y \in S : <<y, x>> \in R}
RankOf(R, S, x) == Cardinality(Below(R, S, x))

LEMMA RankRange ==
  ASSUME NEW S, IsFiniteSet(S), NEW R, Ordered(R, S), NEW x \in S
  PROVE  RankOf(R, S, x) \in 0 .. Cardinality(S) - 1 /\ IsFiniteSet(Below(R, S, x))
<1>1. Below(R, S, x) \in SUBSET S /\ Below(R, S, x) # S
  BY DEF Below, Ordered
<1>2. /\ IsFiniteSet(Below(R, S, x)) /\ Cardinality(Below(R, S, x)) <= Cardinality(S)
      /\ Cardinality(S) # Cardinality(Below(R, S, x))
  BY <1>1, FS_Subset
<1>3. Cardinality(S) \in Nat /\ Cardinality(Below(R, S, x)) \in Nat
  BY <1>2, FS_CardinalityType
<1>4. QED
  BY <1>2, <1>3 DEF RankOf

LEMMA RankRises ==
  ASSUME NEW S, IsFiniteSet(S), NEW R, Ordered(R, S), NEW x \in S, NEW y \in S, <<x, y>> \in R
  PROVE  RankOf(R, S, x) < RankOf(R, S, y)
<1>1. /\ Below(R, S, x) \in SUBSET Below(R, S, y) /\ x \in Below(R, S, y)
      /\ x \notin Below(R, S, x)
  BY DEF Below, Ordered
<1>2. IsFiniteSet(Below(R, S, y)) /\ RankOf(R, S, x) \in Nat /\ RankOf(R, S, y) \in Nat
  BY RankRange
<1>3. /\ Cardinality(Below(R, S, x)) <= Cardinality(Below(R, S, y))
      /\ Cardinality(Below(R, S, x)) # Cardinality(Below(R, S, y))
  BY <1>1, <1>2, FS_Subset
<1>4. QED
  BY <1>2, <1>3 DEF RankOf

LEMMA RankOnto ==
  ASSUME NEW S, IsFiniteSet(S), NEW R, Ordered(R, S), NEW k \in 0 .. Cardinality(S) - 1
  PROVE  \E x \in S : RankOf(R, S, x) = k
<1> DEFINE T == 0 .. Cardinality(S) - 1
           f == [x \in S |-> RankOf(R, S, x)]
<1>1. Cardinality(S) \in Nat
  BY FS_CardinalityType
<1>2. f \in [S -> T]
  BY RankRange
<1>3. \A x, y \in S : f[x] = f[y] => x = y
  <2>1. SUFFICES ASSUME NEW x \in S, NEW y \in S, f[x] = f[y], x # y PROVE FALSE
    OBVIOUS
  <2>2. RankOf(R, S, x) = RankOf(R, S, y) /\ RankOf(R, S, x) \in T
    BY <2>1, RankRange
  <2>3. RankOf(R, S, x) < RankOf(R, S, y) \/ RankOf(R, S, y) < RankOf(R, S, x)
    BY <2>1, RankRises DEF Ordered
  <2>4. QED
    BY <2>2, <2>3
<1>4. f \in Injection(S, T)
  <2>1. DOMAIN f = S
    OBVIOUS
  <2> HIDE DEF f
  <2>2. QED
    BY <1>2, <1>3, <2>1 DEF Injection, IsInjective
<1>5. IsFiniteSet(T) /\ Cardinality(T) = Cardinality(S)
  <2>1. IsFiniteSet(T) /\ Cardinality(T) =
          IF 0 > Cardinality(S) - 1 THEN 0 ELSE Cardinality(S) - 1 - 0 + 1
    <3>1. 0 \in Int /\ Cardinality(S) - 1 \in Int
      BY <1>1
    <3>2. QED
      BY <3>1, FS_Interval, Zenon
  <2>2. QED
    BY <1>1, <2>1
<1> HIDE DEF f, T
<1>6. f \in Surjection(S, T)
  BY <1>4, <1>5, FS_Injection
<1>7. PICK x \in S : f[x] = k
  BY <1>6 DEF Surjection, T
<1>8. QED
  BY <1>7 DEF f

(* q has the elements of S in the order R.                                 *)
Lists(q, R, S) ==
  /\ q \in Seq(S) /\ Len(q) = Cardinality(S)
  /\ \A i, j \in 1 .. Len(q) : <<q[i], q[j]>> \in R <=> i < j
  /\ \A x \in S : \E i \in 1 .. Len(q) : q[i] = x

\* Entry i of q has i - 1 elements of S below it, if an element has.
Ranks(q, R, S) ==
  /\ q = [i \in 1 .. Cardinality(S) |-> q[i]]
  /\ \A i \in 1 .. Cardinality(S) :
       (\E x \in S : RankOf(R, S, x) = i - 1) => q[i] \in S /\ RankOf(R, S, q[i]) = i - 1

LEMMA ListsByRank ==
  ASSUME NEW S, IsFiniteSet(S), NEW R, Ordered(R, S),
         NEW q, Ranks(q, R, S)
  PROVE  Lists(q, R, S) /\ \A i \in 1 .. Len(q) : RankOf(R, S, q[i]) = i - 1
<1>1. Cardinality(S) \in Nat
  BY FS_CardinalityType
<1>2. ASSUME NEW i \in 1 .. Cardinality(S) PROVE q[i] \in S /\ RankOf(R, S, q[i]) = i - 1
  <2>1. i - 1 \in 0 .. Cardinality(S) - 1
    BY <1>1
  <2>2. \E x \in S : RankOf(R, S, x) = i - 1
    BY <2>1, RankOnto
  <2>3. QED
    BY <2>2, Zenon DEF Ranks
<1>3. q \in [1 .. Cardinality(S) -> S]
  <2>1. q = [i \in 1 .. Cardinality(S) |-> q[i]]
    BY Zenon DEF Ranks
  <2>2. QED
    BY <1>2, <2>1
<1>4. q \in Seq(S) /\ Len(q) = Cardinality(S)
  BY <1>1, <1>3
<1>5. ASSUME NEW i \in 1 .. Len(q), NEW j \in 1 .. Len(q)
      PROVE  <<q[i], q[j]>> \in R <=> i < j
  <2>1. /\ q[i] \in S /\ RankOf(R, S, q[i]) = i - 1 /\ i \in Nat
        /\ q[j] \in S /\ RankOf(R, S, q[j]) = j - 1 /\ j \in Nat
    BY <1>1, <1>2, <1>4
  <2>2. CASE <<q[i], q[j]>> \in R
    <3>1. RankOf(R, S, q[i]) < RankOf(R, S, q[j])
      BY <2>1, <2>2, RankRises
    <3>2. QED
      BY <2>1, <2>2, <3>1
  <2>3. CASE q[i] = q[j]
    <3>1. \A x \in S : <<x, x>> \notin R
      BY Zenon DEF Ordered
    <3>2. <<q[i], q[j]>> \notin R
      BY <2>1, <2>3, <3>1, Zenon
    <3>3. i - 1 = j - 1
      BY <2>1, <2>3, Zenon
    <3>4. QED
      BY <2>1, <3>2, <3>3
  <2>4. CASE <<q[j], q[i]>> \in R
    <3>1. RankOf(R, S, q[j]) < RankOf(R, S, q[i])
      BY <2>1, <2>4, RankRises
    <3>2. <<q[i], q[j]>> \notin R
      BY <2>1, <2>4 DEF Ordered
    <3>3. QED
      BY <2>1, <3>1, <3>2
  <2>5. QED
    BY <2>1, <2>2, <2>3, <2>4 DEF Ordered
<1>6. ASSUME NEW x \in S PROVE \E i \in 1 .. Len(q) : q[i] = x
  <2> DEFINE k == RankOf(R, S, x)
  <2>1. k \in 0 .. Cardinality(S) - 1
    BY RankRange
  <2> HIDE DEF k
  <2>2. k + 1 \in 1 .. Cardinality(S) /\ (k + 1) - 1 = k
    BY <1>1, <2>1
  <2>3. q[k + 1] \in S /\ RankOf(R, S, q[k + 1]) = k
    BY <1>2, <2>2
  <2>4. q[k + 1] = x
    <3>1. SUFFICES ASSUME q[k + 1] # x PROVE FALSE
      OBVIOUS
    <3>2. RankOf(R, S, q[k + 1]) < RankOf(R, S, x) \/ RankOf(R, S, x) < RankOf(R, S, q[k + 1])
      <4>1. <<q[k + 1], x>> \in R \/ <<x, q[k + 1]>> \in R
        <5>1. \A u, v \in S : u = v \/ <<u, v>> \in R \/ <<v, u>> \in R
          BY Zenon DEF Ordered
        <5>2. QED
          BY <2>3, <3>1, <5>1, Zenon
      <4>2. QED
        BY <2>3, <4>1, RankRises
    <3>3. QED
      BY <2>1, <2>3, <3>2 DEF k
  <2>5. QED
    BY <1>4, <2>2, <2>4
<1>7. QED
  BY <1>2, <1>4, <1>5, <1>6 DEF Lists

-----------------------------------------------------------------------------
(* The table.                                                              *)

LEMMA TableFacts ==
  ASSUME table \in Tables
  PROVE  /\ table.files \in Seq(FilesOf(table))
         /\ \A f \in FilesOf(table) :
              /\ f.wal \in Nat /\ f.id \in Nat /\ f.chunk \in Times
              /\ f.rows # {} /\ IsFiniteSet(f.rows)
              /\ \A r \in f.rows : r.ts \in f.chunk .. Half - 1
         /\ \A f, g \in FilesOf(table) : f.id = g.id => f = g
         /\ IsFiniteSet(table.extra)
         /\ \A x \in table.extra :
              x.rank \in Nat /\ x.chunk \in Times /\ x.ts \in x.chunk .. Half - 1
         /\ \A x, y \in table.extra : x.rank = y.rank => x = y
         /\ \A r \in RowsOf(table) : IsSeries(r.series)
         /\ \A r, s \in RowsOf(table) : Len(r.series) = Len(s.series)
  BY ConstantsAssumption

LEMMA TimesFacts ==
  Half \in Nat \ {0} /\ Times \subseteq Int /\ \A c \in Times : -Half <= c /\ c < Half
  BY ConstantsAssumption DEF Times

LEMMA FilesFinite ==
  ASSUME table \in Tables
  PROVE  IsFiniteSet(FilesOf(table)) /\ (FilesOf(table) = {} <=> table.files = <<>>)
<1> DEFINE q == table.files
           F == FilesOf(table)
<1>1. q \in Seq(F) /\ F = {q[i] : i \in DOMAIN q}
  BY TableFacts DEF FilesOf, ToSet
<1> HIDE DEF q, F
<1>2. q \in [1 .. Len(q) -> F] /\ Len(q) \in Nat /\ DOMAIN q = 1 .. Len(q)
  BY <1>1
<1>3. q \in Surjection(1 .. Len(q), F)
  BY <1>1, <1>2 DEF Surjection
<1>4. ExistsSurjection(1 .. Len(q), F)
  BY <1>3 DEF ExistsSurjection
<1>5. IsFiniteSet(F)
  BY <1>2, <1>4, FS_NatSurjection
<1>6. F = {} <=> q = <<>>
  <2>1. CASE q = <<>>
    BY <1>1, <2>1
  <2>2. CASE q # <<>>
    <3>1. 1 \in DOMAIN q
      BY <1>1, <2>2
    <3>2. QED
      BY <1>1, <2>2, <3>1
  <2>3. QED
    BY <2>1, <2>2
<1>7. QED
  BY <1>5, <1>6 DEF q, F

(* A set that a function with a finite domain fills.                       *)
LEMMA ImageFinite ==
  ASSUME NEW S, IsFiniteSet(S), NEW g
  PROVE  IsFiniteSet({g[x] : x \in S})
<1> DEFINE f == [x \in S |-> g[x]]
           T == {g[x] : x \in S}
<1>1. f \in Surjection(S, T)
  BY DEF Surjection
<1>2. QED
  BY <1>1, FS_Surjection

LEMMA ChunksFinite ==
  ASSUME table \in Tables
  PROVE  /\ IsFiniteSet(ChunksOf(table)) /\ ChunksOf(table) \subseteq Times
         /\ ChunksOf(table) = {} <=> Empty
<1> DEFINE g == [f \in FilesOf(table) |-> f.chunk]
           h == [x \in table.extra |-> x.chunk]
<1>1. ChunksOf(table) = {g[f] : f \in FilesOf(table)} \cup {h[x] : x \in table.extra}
  BY DEF ChunksOf
<1> HIDE DEF g, h
<1>2. IsFiniteSet({g[f] : f \in FilesOf(table)}) /\ IsFiniteSet({h[x] : x \in table.extra})
  <2>1. IsFiniteSet(FilesOf(table))
    BY FilesFinite
  <2>2. IsFiniteSet(table.extra)
    BY TableFacts
  <2>3. IsFiniteSet({g[f] : f \in FilesOf(table)})
    BY <2>1, ImageFinite
  <2>4. IsFiniteSet({h[x] : x \in table.extra})
    BY <2>2, ImageFinite
  <2>5. QED
    BY <2>3, <2>4
<1>3. IsFiniteSet(ChunksOf(table))
  BY <1>1, <1>2, FS_Union
<1>4. ChunksOf(table) \subseteq Times
  BY TableFacts DEF ChunksOf
<1>5. ChunksOf(table) = {} <=> Empty
  BY FilesFinite DEF ChunksOf, Empty
<1>6. QED
  BY <1>3, <1>4, <1>5

(* The four orders that are sorted by.                                     *)
LessOn(S) == {p \in S \X S : p[1] < p[2]}
OlderOn(S) == {p \in S \X S : OlderFile(p[1], p[2])}
RowsOn(S) == {p \in S \X S : RowBefore(p[1], p[2])}
PlacesOn(S) == {p \in S \X S : PlaceBefore(p[1], p[2])}

LEMMA AscendingNumbers ==
  ASSUME NEW S \in SUBSET Int, IsFiniteSet(S)
  PROVE  /\ Ascending(S, <) \in Seq(S) /\ Len(Ascending(S, <)) = Cardinality(S)
         /\ \A i, j \in 1 .. Cardinality(S) : Ascending(S, <)[i] < Ascending(S, <)[j] <=> i < j
         /\ \A x \in S : \E i \in 1 .. Cardinality(S) : Ascending(S, <)[i] = x
<1> DEFINE R == LessOn(S)
           q == Ascending(S, <)
<1>1. \A x, y \in S : <<x, y>> \in R <=> x < y
  BY DEF LessOn
<1>2. Ordered(R, S)
  <2> HIDE DEF R
  <2>1. \A x, y \in S : x \in Int /\ y \in Int
    OBVIOUS
  <2>2. QED
    BY <1>1, <2>1 DEF Ordered
<1>3. \A x \in S : {y \in S : y < x} = Below(R, S, x)
  BY <1>1 DEF Below
<1>4. q = [i \in 1 .. Cardinality(S) |-> CHOOSE x \in S : Cardinality({y \in S : y < x}) = i - 1]
  BY DEF Ascending
<1> HIDE DEF R, q
<1>5. q = [i \in 1 .. Cardinality(S) |-> q[i]]
  <2> DEFINE pick(i) == CHOOSE x \in S : Cardinality({y \in S : y < x}) = i - 1
  <2>1. q = [i \in 1 .. Cardinality(S) |-> pick(i)]
    BY <1>4
  <2> HIDE DEF pick
  <2>2. QED
    BY <2>1
<1>6. ASSUME NEW i \in 1 .. Cardinality(S), \E x \in S : RankOf(R, S, x) = i - 1
      PROVE  q[i] \in S /\ RankOf(R, S, q[i]) = i - 1
  <2>1. q[i] = CHOOSE x \in S : Cardinality({y \in S : y < x}) = i - 1
    BY <1>4
  <2>2. \E x \in S : Cardinality({y \in S : y < x}) = i - 1
    BY <1>3, <1>6 DEF RankOf
  <2>3. q[i] \in S /\ Cardinality({y \in S : y < q[i]}) = i - 1
    BY <2>1, <2>2, Zenon
  <2>4. QED
    BY <1>3, <2>3 DEF RankOf
<1>7. Lists(q, R, S)
  <2>1. Ranks(q, R, S)
    BY <1>5, <1>6 DEF Ranks
  <2>2. QED
    BY <1>2, <2>1, ListsByRank
<1>8. \A i \in 1 .. Len(q) : q[i] \in S
  BY <1>7 DEF Lists
<1>9. QED
  BY Zenon, <1>1, <1>7, <1>8 DEF Lists, q

LEMMA SortedFiles ==
  ASSUME table \in Tables, NEW F \in SUBSET FilesOf(table)
  PROVE  /\ SortFilesLWW(F) \in Seq(F) /\ Len(SortFilesLWW(F)) \in Nat
         /\ \A i, j \in 1 .. Len(SortFilesLWW(F)) :
              OlderFile(SortFilesLWW(F)[i], SortFilesLWW(F)[j]) <=> i < j
         /\ \A f \in F : \E i \in 1 .. Len(SortFilesLWW(F)) : SortFilesLWW(F)[i] = f
         /\ ToSet(SortFilesLWW(F)) = F
<1> DEFINE R == OlderOn(F)
           q == SortFilesLWW(F)
<1>0. IsFiniteSet(F)
  BY FilesFinite, FS_Subset
<1>1. \A x, y \in F : <<x, y>> \in R <=> OlderFile(x, y)
  BY DEF OlderOn
<1>2. Ordered(R, F)
  <2> HIDE DEF R
  <2>1. /\ \A x \in F : x.wal \in Nat /\ x.id \in Nat
        /\ \A x, y \in F : x.id = y.id => x = y
    BY TableFacts
  <2>2. \A x \in F : ~OlderFile(x, x)
    BY <2>1 DEF OlderFile
  <2>3. \A x, y, z \in F : OlderFile(x, y) /\ OlderFile(y, z) => OlderFile(x, z)
    BY <2>1 DEF OlderFile
  <2>4. \A x, y \in F : x = y \/ OlderFile(x, y) \/ OlderFile(y, x)
    BY <2>1 DEF OlderFile
  <2>5. QED
    BY <1>1, <2>2, <2>3, <2>4 DEF Ordered
<1>3. \A x \in F : {y \in F : OlderFile(y, x)} = Below(R, F, x)
  BY <1>1 DEF Below
<1>4. q = [i \in 1 .. Cardinality(F) |->
             CHOOSE x \in F : Cardinality({y \in F : OlderFile(y, x)}) = i - 1]
  BY DEF SortFilesLWW, Ascending
<1> HIDE DEF R, q
<1>5. q = [i \in 1 .. Cardinality(F) |-> q[i]]
  <2> DEFINE pick(i) == CHOOSE x \in F : Cardinality({y \in F : OlderFile(y, x)}) = i - 1
  <2>1. q = [i \in 1 .. Cardinality(F) |-> pick(i)]
    BY <1>4
  <2> HIDE DEF pick
  <2>2. QED
    BY <2>1
<1>6. ASSUME NEW i \in 1 .. Cardinality(F), \E x \in F : RankOf(R, F, x) = i - 1
      PROVE  q[i] \in F /\ RankOf(R, F, q[i]) = i - 1
  <2>1. q[i] = CHOOSE x \in F : Cardinality({y \in F : OlderFile(y, x)}) = i - 1
    BY <1>4
  <2>2. \E x \in F : Cardinality({y \in F : OlderFile(y, x)}) = i - 1
    BY <1>3, <1>6 DEF RankOf
  <2>3. q[i] \in F /\ Cardinality({y \in F : OlderFile(y, q[i])}) = i - 1
    BY <2>1, <2>2, Zenon
  <2>4. QED
    BY <1>3, <2>3 DEF RankOf
<1>7. Lists(q, R, F)
  <2>1. Ranks(q, R, F)
    BY <1>5, <1>6 DEF Ranks
  <2>2. QED
    BY <1>0, <1>2, <2>1, ListsByRank
<1>8. q \in Seq(F) /\ Len(q) \in Nat /\ \A i \in 1 .. Len(q) : q[i] \in F
  BY <1>7 DEF Lists
<1>9. ToSet(q) = F
  <2>1. DOMAIN q = 1 .. Len(q)
    BY <1>8
  <2>2. QED
    BY <1>7, <1>8, <2>1 DEF Lists, ToSet
<1>10. QED
  BY <1>1, <1>7, <1>8, <1>9 DEF Lists, q

-----------------------------------------------------------------------------
(* The rows of a bucket.                                                   *)

\* A bucket has some of the table's files, sorted, and some of its log rows.
CutFrom(b) ==
  b.extra \subseteq table.extra /\ \E F \in SUBSET FilesOf(table) : b.files = SortFilesLWW(F)

AllRows(b) == FileRows(b) \cup ExtraRows(b)

FromFile(b, r, i) ==
  /\ i \in 1 .. Len(b.files)
  /\ \E g \in b.files[i].rows : r.series = g.series /\ r.ts = g.ts
  /\ r.key = OrderKey(r.series) /\ r.rank = i - 1
  /\ r.src = <<0, b.files[i].wal, b.files[i].id>>

FromLog(b, r, x) ==
  /\ x \in b.extra
  /\ r.series = x.series /\ r.ts = x.ts
  /\ r.key = OrderKey(r.series) /\ r.rank = Len(b.files) + x.rank
  /\ r.src = <<1, x.rank>>

IsRow(r) == r = [key |-> r.key, ts |-> r.ts, rank |-> r.rank, series |-> r.series, src |-> r.src]

LEMMA CutFiles ==
  ASSUME table \in Tables, NEW b, CutFrom(b)
  PROVE  /\ b.files \in Seq(FilesOf(table)) /\ Len(b.files) \in Nat
         /\ DOMAIN b.files = 1 .. Len(b.files)
         /\ \A i \in 1 .. Len(b.files) : b.files[i] \in FilesOf(table)
         /\ \A i, j \in 1 .. Len(b.files) : OlderFile(b.files[i], b.files[j]) <=> i < j
<1>1. PICK F \in SUBSET FilesOf(table) : b.files = SortFilesLWW(F)
  BY DEF CutFrom
<1> DEFINE q == b.files
<1>2. /\ q \in Seq(F) /\ Len(q) \in Nat
      /\ \A i, j \in 1 .. Len(q) : OlderFile(q[i], q[j]) <=> i < j
  BY <1>1, SortedFiles
<1> HIDE DEF q
<1>3. q \in Seq(FilesOf(table))
  BY <1>2, SeqMonotonic
<1>4. DOMAIN q = 1 .. Len(q) /\ \A i \in 1 .. Len(q) : q[i] \in FilesOf(table)
  BY <1>2, <1>3, ElementOfSeq
<1>5. QED
  BY <1>2, <1>3, <1>4 DEF q

LEMMA RowShape ==
  ASSUME table \in Tables, NEW b, CutFrom(b), NEW r \in AllRows(b)
  PROVE  IsRow(r) /\ ((\E i : FromFile(b, r, i)) \/ (\E x : FromLog(b, r, x)))
<1>1. CASE r \in FileRows(b)
  <2>0. PICK i \in DOMAIN b.files : \E g \in b.files[i].rows :
          r = [key |-> OrderKey(g.series), ts |-> g.ts, rank |-> i - 1, series |-> g.series,
               src |-> <<0, b.files[i].wal, b.files[i].id>>]
    BY <1>1 DEF FileRows
  <2>1. PICK g \in b.files[i].rows :
          r = [key |-> OrderKey(g.series), ts |-> g.ts, rank |-> i - 1, series |-> g.series,
               src |-> <<0, b.files[i].wal, b.files[i].id>>]
    BY <2>0
  <2>2. i \in 1 .. Len(b.files)
    BY CutFiles
  <2>3. IsRow(r)
    BY <2>1 DEF IsRow
  <2>4. FromFile(b, r, i)
    BY <2>1, <2>2 DEF FromFile
  <2>5. QED
    BY <2>3, <2>4
<1>2. CASE r \in ExtraRows(b)
  <2>1. PICK x \in b.extra :
          r = [key |-> OrderKey(x.series), ts |-> x.ts, rank |-> ExtraRank(b, x),
               series |-> x.series, src |-> <<1, x.rank>>]
    BY <1>2 DEF ExtraRows
  <2>2. IsRow(r)
    BY <2>1 DEF IsRow
  <2>3. FromLog(b, r, x)
    BY <2>1 DEF FromLog, ExtraRank
  <2>4. QED
    BY <2>2, <2>3
<1>3. QED
  BY <1>1, <1>2 DEF AllRows

(* A series of the table.                                                  *)
LEMMA TableSeries ==
  ASSUME table \in Tables, NEW f \in FilesOf(table), NEW g \in f.rows
  PROVE  g \in RowsOf(table)
  BY DEF RowsOf

LEMMA RowFacts ==
  ASSUME table \in Tables, NEW b, CutFrom(b), NEW r \in AllRows(b)
  PROVE  /\ r.series \in {s.series : s \in RowsOf(table)} /\ IsSeries(r.series)
         /\ r.key = OrderKey(r.series) /\ r.key \in Seq(Int)
         /\ r.rank \in Nat /\ r.ts \in Times
<1>1. ASSUME NEW i, FromFile(b, r, i)
      PROVE  /\ r.series \in {s.series : s \in RowsOf(table)} /\ r.key = OrderKey(r.series)
             /\ r.rank \in Nat /\ r.ts \in Times
  <2>1. PICK g \in b.files[i].rows : r.series = g.series /\ r.ts = g.ts
    BY <1>1 DEF FromFile
  <2>2. i \in 1 .. Len(b.files) /\ b.files[i] \in FilesOf(table) /\ Len(b.files) \in Nat
    BY <1>1, CutFiles DEF FromFile
  <2>3. g \in RowsOf(table)
    BY <2>2, TableSeries
  <2>4. g.ts \in b.files[i].chunk .. Half - 1 /\ b.files[i].chunk \in Times
    BY <2>2, TableFacts
  <2>5. g.ts \in Times
    BY <2>4, TimesFacts DEF Times
  <2>6. r.rank \in Nat /\ r.key = OrderKey(r.series)
    BY <1>1, <2>2 DEF FromFile
  <2>7. QED
    BY <2>1, <2>3, <2>5, <2>6
<1>2. ASSUME NEW x, FromLog(b, r, x)
      PROVE  /\ r.series \in {s.series : s \in RowsOf(table)} /\ r.key = OrderKey(r.series)
             /\ r.rank \in Nat /\ r.ts \in Times
  <2>1. x \in table.extra /\ x \in RowsOf(table) /\ r.series = x.series /\ r.ts = x.ts
    <3>1. x \in b.extra /\ r.series = x.series /\ r.ts = x.ts
      BY <1>2 DEF FromLog
    <3>2. b.extra \subseteq table.extra
      BY DEF CutFrom
    <3>3. table.extra \subseteq RowsOf(table)
      BY DEF RowsOf
    <3>4. QED
      BY <3>1, <3>2, <3>3, Zenon
  <2>2. x.rank \in Nat /\ x.chunk \in Times /\ x.ts \in x.chunk .. Half - 1
    BY <2>1, TableFacts
  <2>3. x.ts \in Times
    BY <2>2, TimesFacts DEF Times
  <2>4. r.rank \in Nat /\ r.key = OrderKey(r.series)
    BY <1>2, <2>2, CutFiles DEF FromLog
  <2>5. QED
    BY <2>1, <2>3, <2>4
<1>3. /\ r.series \in {s.series : s \in RowsOf(table)} /\ r.key = OrderKey(r.series)
      /\ r.rank \in Nat /\ r.ts \in Times
  BY <1>1, <1>2, RowShape
<1>4. IsSeries(r.series)
  BY <1>3, TableFacts
<1>5. QED
  BY <1>3, <1>4, KeyParts

LEMMA TableLengths ==
  ASSUME table \in Tables, NEW s, NEW t,
         s \in {r.series : r \in RowsOf(table)}, t \in {r.series : r \in RowsOf(table)}
  PROVE  /\ IsSeries(s) /\ IsSeries(t) /\ Len(s) = Len(t)
         /\ Precedes(OrderKey(s), OrderKey(t)) <=> SeriesBefore(s, t)
         /\ OrderKey(s) = OrderKey(t) <=> s = t
<1>1. PICK u, v \in RowsOf(table) : s = u.series /\ t = v.series
  OBVIOUS
<1>2. IsSeries(s) /\ IsSeries(t) /\ Len(s) = Len(t)
  BY <1>1, TableFacts
<1>3. QED
  BY <1>2, SeriesKeyOrder

(* Sources compare as their numbers do: a log row after every file.        *)
LEMMA SourceOrder ==
  ASSUME NEW a \in Nat, NEW b \in Nat, NEW c \in Nat, NEW d \in Nat
  PROVE  /\ Precedes(<<0, a, b>>, <<0, c, d>>) <=> a < c \/ (a = c /\ b < d)
         /\ Precedes(<<0, a, b>>, <<1, c>>) /\ ~Precedes(<<1, c>>, <<0, a, b>>)
         /\ Precedes(<<1, a>>, <<1, c>>) <=> a < c
<1>1. ASSUME NEW x \in Nat, NEW y \in Nat, NEW u \in Nat, NEW v \in Nat, x < u \/ (x = u /\ y < v)
      PROVE  Precedes(<<0, x, y>>, <<0, u, v>>)
  <2> DEFINE s == <<0, x, y>>
             t == <<0, u, v>>
  <2>1. Len(s) = 3 /\ Len(t) = 3 /\ s[1] = t[1] /\ s[2] = x /\ s[3] = y /\ t[2] = u /\ t[3] = v
    OBVIOUS
  <2> HIDE DEF s, t
  <2>2. CASE x < u
    <3>1. 1 \in 0 .. Len(t) - 1 /\ 1 <= Len(s) /\ s[1 + 1] < t[1 + 1]
          /\ \A i \in 1 .. 1 : s[i] = t[i]
      BY <2>1, <2>2
    <3>2. QED
      BY <3>1, PrecedesBy DEF s, t
  <2>3. CASE x = u /\ y < v
    <3>1. 2 \in 0 .. Len(t) - 1 /\ 2 <= Len(s) /\ s[2 + 1] < t[2 + 1]
          /\ \A i \in 1 .. 2 : s[i] = t[i]
      <4>1. \A i \in 1 .. 2 : i = 1 \/ i = 2
        OBVIOUS
      <4>2. QED
        BY <2>1, <2>3, <4>1
    <3>2. QED
      BY <3>1, PrecedesBy DEF s, t
  <2>4. QED
    BY <1>1, <2>2, <2>3
<1>2. ASSUME NEW x \in Nat, NEW u \in Nat, x < u PROVE Precedes(<<1, x>>, <<1, u>>)
  <2> DEFINE s == <<1, x>>
             t == <<1, u>>
  <2>1. Len(s) = 2 /\ Len(t) = 2 /\ s[1] = t[1] /\ s[2] = x /\ t[2] = u
    OBVIOUS
  <2> HIDE DEF s, t
  <2>2. 1 \in 0 .. Len(t) - 1 /\ 1 <= Len(s) /\ s[1 + 1] < t[1 + 1]
        /\ \A i \in 1 .. 1 : s[i] = t[i]
    BY <1>2, <2>1
  <2>3. QED
    BY <2>2, PrecedesBy DEF s, t
<1>3. /\ <<0, a, b>> \in Seq(Int) /\ <<0, c, d>> \in Seq(Int)
      /\ <<1, a>> \in Seq(Int) /\ <<1, c>> \in Seq(Int)
  OBVIOUS
<1>4. Precedes(<<0, a, b>>, <<0, c, d>>) <=> a < c \/ (a = c /\ b < d)
  <2>1. CASE a < c \/ (a = c /\ b < d)
    BY <1>1, <2>1
  <2>2. CASE c < a \/ (c = a /\ d < b)
    <3>1. Precedes(<<0, c, d>>, <<0, a, b>>)
      BY <1>1, <2>2
    <3>2. ~Precedes(<<0, a, b>>, <<0, c, d>>)
      BY <1>3, <3>1, PrecedesAsymmetric, Zenon
    <3>3. QED
      BY <2>2, <3>2
  <2>3. CASE a = c /\ b = d
    <3>1. ~Precedes(<<0, a, b>>, <<0, c, d>>)
      BY <1>3, <2>3, PrecedesIrreflexive, Zenon
    <3>2. QED
      BY <2>3, <3>1
  <2>4. QED
    BY <2>1, <2>2, <2>3
<1>5. Precedes(<<0, a, b>>, <<1, c>>) /\ ~Precedes(<<1, c>>, <<0, a, b>>)
  <2> DEFINE s == <<0, a, b>>
             t == <<1, c>>
  <2>1. s # <<>> /\ t # <<>> /\ s[1] < t[1] /\ s \in Seq(Int) /\ t \in Seq(Int)
    OBVIOUS
  <2> HIDE DEF s, t
  <2>2. Precedes(s, t)
    BY <2>1, PrecedesAtOnce
  <2>3. QED
    BY <2>1, <2>2, PrecedesAsymmetric DEF s, t
<1>6. Precedes(<<1, a>>, <<1, c>>) <=> a < c
  <2>1. CASE a < c
    BY <1>2, <2>1
  <2>2. CASE c < a
    <3>1. Precedes(<<1, c>>, <<1, a>>)
      BY <1>2, <2>2
    <3>2. ~Precedes(<<1, a>>, <<1, c>>)
      BY <1>3, <3>1, PrecedesAsymmetric, Zenon
    <3>3. QED
      BY <2>2, <3>2
  <2>3. CASE a = c
    <3>1. ~Precedes(<<1, a>>, <<1, c>>)
      BY <1>3, <2>3, PrecedesIrreflexive, Zenon
    <3>2. QED
      BY <2>3, <3>1
  <2>4. QED
    BY <2>1, <2>2, <2>3
<1>7. QED
  BY <1>4, <1>5, <1>6

(* The rank of a row says what was written later.                          *)
LEMMA RankOrder ==
  ASSUME table \in Tables, NEW b, CutFrom(b), NEW r \in AllRows(b), NEW s \in AllRows(b)
  PROVE  /\ r.rank < s.rank <=> Precedes(r.src, s.src)
         /\ r.rank = s.rank <=> r.src = s.src
<1>0. Len(b.files) \in Nat /\ b.extra \subseteq table.extra
  BY CutFiles DEF CutFrom
<1>1. ASSUME NEW i, NEW j, FromFile(b, r, i), FromFile(b, s, j)
      PROVE  /\ r.rank < s.rank <=> Precedes(r.src, s.src)
             /\ r.rank = s.rank <=> r.src = s.src
  <2> DEFINE f == b.files[i]
             g == b.files[j]
  <2>1. /\ i \in 1 .. Len(b.files) /\ j \in 1 .. Len(b.files)
        /\ r.rank = i - 1 /\ r.src = <<0, f.wal, f.id>>
        /\ s.rank = j - 1 /\ s.src = <<0, g.wal, g.id>>
    BY <1>1 DEF FromFile
  <2>2. /\ f \in FilesOf(table) /\ g \in FilesOf(table)
        /\ OlderFile(f, g) <=> i < j
        /\ OlderFile(g, f) <=> j < i
    BY <2>1, CutFiles
  <2>3. /\ f.wal \in Nat /\ f.id \in Nat /\ g.wal \in Nat /\ g.id \in Nat
    BY <2>2, TableFacts
  <2> HIDE DEF f, g
  <2>4. r.rank < s.rank <=> i < j
    BY <1>0, <2>1
  <2>5. Precedes(r.src, s.src) <=> OlderFile(f, g)
    <3>1. Precedes(<<0, f.wal, f.id>>, <<0, g.wal, g.id>>)
            <=> f.wal < g.wal \/ (f.wal = g.wal /\ f.id < g.id)
      BY <2>3, SourceOrder, Zenon
    <3>2. QED
      BY <2>1, <3>1 DEF OlderFile
  <2>6. r.rank = s.rank <=> i = j
    BY <1>0, <2>1
  <2>7. r.src = s.src => ~OlderFile(f, g) /\ ~OlderFile(g, f)
    BY <2>1, <2>3 DEF OlderFile
  <2>8. r.src = s.src => i = j
    BY <1>0, <2>1, <2>2, <2>7
  <2>9. i = j => r.src = s.src
    BY <2>1 DEF f, g
  <2>10. QED
    BY <2>2, <2>4, <2>5, <2>6, <2>8, <2>9
<1>2. ASSUME NEW u \in AllRows(b), NEW v \in AllRows(b), NEW i, NEW x, FromFile(b, u, i), FromLog(b, v, x)
      PROVE  /\ u.rank < v.rank /\ Precedes(u.src, v.src) /\ ~Precedes(v.src, u.src)
             /\ u.src # v.src
  <2> DEFINE f == b.files[i]
  <2>1. /\ i \in 1 .. Len(b.files) /\ u.rank = i - 1 /\ u.src = <<0, f.wal, f.id>>
        /\ x \in table.extra /\ v.rank = Len(b.files) + x.rank /\ v.src = <<1, x.rank>>
    BY <1>0, <1>2 DEF FromFile, FromLog
  <2>2. f \in FilesOf(table)
    BY <2>1, CutFiles
  <2>3. f.wal \in Nat /\ f.id \in Nat /\ x.rank \in Nat
    BY <2>1, <2>2, TableFacts
  <2> HIDE DEF f
  <2>4. u.rank < v.rank
    BY <1>0, <2>1, <2>3
  <2>5. Precedes(u.src, v.src) /\ ~Precedes(v.src, u.src)
    <3>1. /\ Precedes(<<0, f.wal, f.id>>, <<1, x.rank>>)
          /\ ~Precedes(<<1, x.rank>>, <<0, f.wal, f.id>>)
      BY <2>3, SourceOrder, Zenon
    <3>2. QED
      BY <2>1, <3>1, Zenon
  <2>6. QED
    BY <2>4, <2>5
<1>3. ASSUME NEW x, NEW y, FromLog(b, r, x), FromLog(b, s, y)
      PROVE  /\ r.rank < s.rank <=> Precedes(r.src, s.src)
             /\ r.rank = s.rank <=> r.src = s.src
  <2>1. /\ x \in table.extra /\ r.rank = Len(b.files) + x.rank /\ r.src = <<1, x.rank>>
        /\ y \in table.extra /\ s.rank = Len(b.files) + y.rank /\ s.src = <<1, y.rank>>
    BY <1>0, <1>3 DEF FromLog
  <2>2. x.rank \in Nat /\ y.rank \in Nat
    BY <2>1, TableFacts
  <2>3. r.rank < s.rank <=> x.rank < y.rank
    BY <1>0, <2>1, <2>2
  <2>4. Precedes(r.src, s.src) <=> x.rank < y.rank
    <3>1. Precedes(<<1, x.rank>>, <<1, y.rank>>) <=> x.rank < y.rank
      BY <2>2, SourceOrder, Zenon
    <3>2. QED
      BY <2>1, <3>1, Zenon
  <2>5. r.rank = s.rank <=> x.rank = y.rank
    BY <1>0, <2>1, <2>2
  <2>6. r.src = s.src <=> x.rank = y.rank
    BY <2>1
  <2>7. QED
    BY <2>3, <2>4, <2>5, <2>6
<1>4. r.rank \in Nat /\ s.rank \in Nat
  BY RowFacts
<1>5. CASE (\E i : FromFile(b, r, i)) /\ (\E j : FromFile(b, s, j))
  BY <1>1, <1>5
<1>6. CASE (\E i : FromFile(b, r, i)) /\ (\E x : FromLog(b, s, x))
  BY <1>2, <1>4, <1>6
<1>7. CASE (\E x : FromLog(b, r, x)) /\ (\E i : FromFile(b, s, i))
  BY <1>2, <1>4, <1>7
<1>8. CASE (\E x : FromLog(b, r, x)) /\ (\E y : FromLog(b, s, y))
  BY <1>3, <1>8
<1>9. QED
  BY <1>5, <1>6, <1>7, <1>8, RowShape

LEMMA RowsFinite ==
  ASSUME table \in Tables, NEW b, CutFrom(b)
  PROVE  IsFiniteSet(AllRows(b)) /\ IsFiniteSet(RowSet(b)) /\ RowSet(b) \subseteq AllRows(b)
<1> DEFINE n == Len(b.files)
           fileRow(i, g) == [key |-> OrderKey(g.series), ts |-> g.ts, rank |-> i - 1,
                             series |-> g.series, src |-> <<0, b.files[i].wal, b.files[i].id>>]
           logRow(x) == [key |-> OrderKey(x.series), ts |-> x.ts, rank |-> ExtraRank(b, x),
                         series |-> x.series, src |-> <<1, x.rank>>]
           part == [i \in 1 .. n |-> {fileRow(i, g) : g \in b.files[i].rows}]
           log == [x \in b.extra |-> logRow(x)]
<1>1. n \in Nat /\ DOMAIN b.files = 1 .. n /\ \A i \in 1 .. n : b.files[i] \in FilesOf(table)
  BY CutFiles
<1>2. FileRows(b) = UNION {part[i] : i \in 1 .. n}
  <2>1. \A i \in 1 .. n : part[i] = {fileRow(i, g) : g \in b.files[i].rows}
    OBVIOUS
  <2>2. FileRows(b) = UNION {{fileRow(i, g) : g \in b.files[i].rows} : i \in 1 .. n}
    BY <1>1 DEF FileRows
  <2> HIDE DEF part, fileRow
  <2>3. QED
    BY <2>1, <2>2
<1>3. ASSUME NEW i \in 1 .. n PROVE IsFiniteSet(part[i])
  <2>1. IsFiniteSet(b.files[i].rows)
    BY <1>1, TableFacts
  <2> DEFINE h == [g \in b.files[i].rows |-> fileRow(i, g)]
  <2>2. part[i] = {h[g] : g \in b.files[i].rows}
    <3> HIDE DEF fileRow
    <3> QED OBVIOUS
  <2> HIDE DEF h, part
  <2>3. QED
    BY <2>1, <2>2, ImageFinite
<1>4. ExtraRows(b) = {log[x] : x \in b.extra}
  <2>1. ExtraRows(b) = {logRow(x) : x \in b.extra}
    BY DEF ExtraRows
  <2> HIDE DEF logRow
  <2>2. QED
    BY <2>1
<1> HIDE DEF part, log
<1>5. IsFiniteSet(FileRows(b))
  <2>1. IsFiniteSet(1 .. n)
    BY <1>1, FS_Interval
  <2>2. IsFiniteSet({part[i] : i \in 1 .. n})
    BY <2>1, ImageFinite
  <2>3. \A T \in {part[i] : i \in 1 .. n} : IsFiniteSet(T)
    BY <1>3
  <2>4. QED
    BY <1>2, <2>2, <2>3, FS_UNION
<1>6. IsFiniteSet(ExtraRows(b))
  <2>1. IsFiniteSet(b.extra)
    BY TableFacts, FS_Subset DEF CutFrom
  <2>2. QED
    BY <1>4, <2>1, ImageFinite
<1>7. IsFiniteSet(AllRows(b))
  BY <1>5, <1>6, FS_Union DEF AllRows
<1>8. RowSet(b) \subseteq AllRows(b)
  BY DEF RowSet, AllRows
<1>9. QED
  BY <1>7, <1>8, FS_Subset

(* The rows of a bucket are in an order.                                   *)
LEMMA RowsOrdered ==
  ASSUME table \in Tables, NEW b, CutFrom(b)
  PROVE  /\ \A r \in AllRows(b) : ~RowBefore(r, r)
         /\ \A r, s, t \in AllRows(b) : RowBefore(r, s) /\ RowBefore(s, t) => RowBefore(r, t)
         /\ \A r, s \in AllRows(b) : r = s \/ RowBefore(r, s) \/ RowBefore(s, r)
<1>0. \A r \in AllRows(b) : r.key \in Seq(Int) /\ r.ts \in Int /\ r.rank \in Int
  <2>1. \A r \in AllRows(b) : r.key \in Seq(Int) /\ r.ts \in Times /\ r.rank \in Nat
    BY RowFacts, Zenon
  <2>2. Times \subseteq Int
    BY TimesFacts
  <2>3. ASSUME NEW r \in AllRows(b) PROVE r.key \in Seq(Int) /\ r.ts \in Int /\ r.rank \in Int
    <3>1. r.key \in Seq(Int) /\ r.ts \in Times /\ r.rank \in Nat
      BY <2>1
    <3>2. r.ts \in Int
      BY <2>2, <3>1, Zenon
    <3>3. \A n \in Nat : n \in Int
      OBVIOUS
    <3>4. QED
      BY <3>1, <3>2, <3>3, Zenon
  <2>4. QED
    BY <2>3
<1>1. \A r \in AllRows(b) : ~RowBefore(r, r)
  BY <1>0, PrecedesIrreflexive DEF RowBefore
<1>2. ASSUME NEW r \in AllRows(b), NEW s \in AllRows(b), NEW t \in AllRows(b),
             RowBefore(r, s), RowBefore(s, t)
      PROVE  RowBefore(r, t)
  <2>1. /\ r.key \in Seq(Int) /\ r.ts \in Int /\ r.rank \in Int
        /\ s.key \in Seq(Int) /\ s.ts \in Int /\ s.rank \in Int
        /\ t.key \in Seq(Int) /\ t.ts \in Int /\ t.rank \in Int
    BY <1>0
  <2>2. CASE Precedes(r.key, s.key) /\ Precedes(s.key, t.key)
    <3>1. Precedes(r.key, t.key)
      BY <2>1, <2>2, PrecedesTransitive
    <3>2. QED
      BY <3>1 DEF RowBefore
  <2>3. CASE Precedes(r.key, s.key) /\ s.key = t.key
    BY <2>3 DEF RowBefore
  <2>4. CASE r.key = s.key /\ Precedes(s.key, t.key)
    BY <2>4 DEF RowBefore
  <2>5. CASE r.key = s.key /\ s.key = t.key /\ ~Precedes(r.key, s.key) /\ ~Precedes(s.key, t.key)
    <3>1. /\ r.ts < s.ts \/ (r.ts = s.ts /\ r.rank < s.rank)
          /\ s.ts < t.ts \/ (s.ts = t.ts /\ s.rank < t.rank)
      BY <1>2, <2>5 DEF RowBefore
    <3>2. r.ts < t.ts \/ (r.ts = t.ts /\ r.rank < t.rank)
      BY <2>1, <3>1
    <3>3. QED
      BY <2>5, <3>2 DEF RowBefore
  <2>6. QED
    BY <1>2, <2>2, <2>3, <2>4, <2>5 DEF RowBefore
<1>3. ASSUME NEW r \in AllRows(b), NEW s \in AllRows(b), r # s, ~RowBefore(r, s), ~RowBefore(s, r)
      PROVE  FALSE
  <2>1. /\ r.key \in Seq(Int) /\ r.ts \in Int /\ r.rank \in Int
        /\ s.key \in Seq(Int) /\ s.ts \in Int /\ s.rank \in Int
    BY <1>0
  <2>2. r.key = s.key
    BY <1>3, <2>1, PrecedesTotal DEF RowBefore
  <2>3. r.ts = s.ts /\ r.rank = s.rank
    BY <1>3, <2>1, <2>2 DEF RowBefore
  <2>4. r.src = s.src
    BY <2>3, RankOrder
  <2>5. r.series = s.series
    <3>1. /\ r.series \in {u.series : u \in RowsOf(table)} /\ r.key = OrderKey(r.series)
          /\ s.series \in {u.series : u \in RowsOf(table)} /\ s.key = OrderKey(s.series)
      BY RowFacts
    <3>2. OrderKey(r.series) = OrderKey(s.series)
      BY <2>2, <3>1
    <3>3. QED
      BY <3>1, <3>2, TableLengths
  <2>6. IsRow(r) /\ IsRow(s)
    BY RowShape
  <2>7. QED
    BY <1>3, <2>2, <2>3, <2>4, <2>5, <2>6 DEF IsRow
<1>4. QED
  BY <1>1, <1>2, <1>3

LEMMA SortedRows ==
  ASSUME table \in Tables, NEW b, CutFrom(b)
  PROVE  /\ ReadRows(b) \in Seq(RowSet(b)) /\ Len(ReadRows(b)) \in Nat
         /\ \A i \in 1 .. Len(ReadRows(b)) : ReadRows(b)[i] \in RowSet(b)
         /\ \A i, j \in 1 .. Len(ReadRows(b)) : RowBefore(ReadRows(b)[i], ReadRows(b)[j]) <=> i < j
         /\ \A r \in RowSet(b) : \E i \in 1 .. Len(ReadRows(b)) : ReadRows(b)[i] = r
<1> DEFINE S == RowSet(b)
           R == RowsOn(S)
           q == ReadRows(b)
<1>0. IsFiniteSet(S) /\ S \subseteq AllRows(b)
  BY RowsFinite
<1>1. \A x, y \in S : <<x, y>> \in R <=> RowBefore(x, y)
  <2> HIDE DEF S
  <2> QED BY DEF RowsOn
<1>2. Ordered(R, S)
  <2> HIDE DEF R, S
  <2>1. /\ \A r \in S : ~RowBefore(r, r)
        /\ \A r, s, t \in S : RowBefore(r, s) /\ RowBefore(s, t) => RowBefore(r, t)
        /\ \A r, s \in S : r = s \/ RowBefore(r, s) \/ RowBefore(s, r)
    BY <1>0, RowsOrdered
  <2>2. QED
    BY <1>1, <2>1 DEF Ordered
<1>3. \A x \in S : {y \in S : RowBefore(y, x)} = Below(R, S, x)
  <2> HIDE DEF R, S
  <2> QED BY <1>1 DEF Below
<1>4. q = [i \in 1 .. Cardinality(S) |->
             CHOOSE x \in S : Cardinality({y \in S : RowBefore(y, x)}) = i - 1]
  BY DEF ReadRows, Ascending
<1> HIDE DEF R, q, S
<1>5. q = [i \in 1 .. Cardinality(S) |-> q[i]]
  <2> DEFINE pick(i) == CHOOSE x \in S : Cardinality({y \in S : RowBefore(y, x)}) = i - 1
  <2>1. q = [i \in 1 .. Cardinality(S) |-> pick(i)]
    BY <1>4
  <2> HIDE DEF pick
  <2>2. QED
    BY <2>1
<1>6. ASSUME NEW i \in 1 .. Cardinality(S), \E x \in S : RankOf(R, S, x) = i - 1
      PROVE  q[i] \in S /\ RankOf(R, S, q[i]) = i - 1
  <2>1. q[i] = CHOOSE x \in S : Cardinality({y \in S : RowBefore(y, x)}) = i - 1
    BY <1>4
  <2>2. \E x \in S : Cardinality({y \in S : RowBefore(y, x)}) = i - 1
    BY <1>3, <1>6 DEF RankOf
  <2>3. q[i] \in S /\ Cardinality({y \in S : RowBefore(y, q[i])}) = i - 1
    BY <2>1, <2>2, Zenon
  <2>4. QED
    BY <1>3, <2>3 DEF RankOf
<1>7. Lists(q, R, S)
  <2>1. Ranks(q, R, S)
    BY <1>5, <1>6 DEF Ranks
  <2>2. QED
    BY <1>0, <1>2, <2>1, ListsByRank
<1>8. q \in Seq(S) /\ Len(q) \in Nat /\ \A i \in 1 .. Len(q) : q[i] \in S
  BY <1>7 DEF Lists
<1>9. QED
  BY <1>1, <1>7, <1>8 DEF Lists, q, S

-----------------------------------------------------------------------------
(* Buckets and what was written.                                           *)

\* The bucket has the files and the log rows of the chunks C.
Covers(b, C) ==
  /\ b.files = SortFilesLWW({f \in FilesOf(table) : f.chunk \in C})
  /\ b.extra = {x \in table.extra : x.chunk \in C}

\* The row is what was written as v.
Carries(r, v) == r.series = v.series /\ r.ts = v.ts /\ r.src = v.src

LEMMA CoversCut ==
  ASSUME NEW b, NEW C, Covers(b, C)
  PROVE  CutFrom(b)
  BY DEF Covers, CutFrom

WrittenRecord(v) == v = [chunk |-> v.chunk, series |-> v.series, ts |-> v.ts, src |-> v.src]

FileWrote(v, f) ==
  /\ f \in FilesOf(table) /\ v.chunk = f.chunk /\ v.src = <<0, f.wal, f.id>>
  /\ \E g \in f.rows : v.series = g.series /\ v.ts = g.ts

LogWrote(v, x) ==
  x \in table.extra /\ v.chunk = x.chunk /\ v.src = <<1, x.rank>> /\ v.series = x.series /\ v.ts = x.ts

LEMMA WrittenShape ==
  ASSUME NEW v \in Written
  PROVE  WrittenRecord(v) /\ ((\E f : FileWrote(v, f)) \/ (\E x : LogWrote(v, x)))
<1>1. ASSUME NEW f \in FilesOf(table),
             \E g \in f.rows : v = [chunk |-> f.chunk, series |-> g.series, ts |-> g.ts,
                                    src |-> <<0, f.wal, f.id>>]
      PROVE  WrittenRecord(v) /\ FileWrote(v, f)
  BY <1>1 DEF WrittenRecord, FileWrote
<1>2. ASSUME NEW x \in table.extra,
             v = [chunk |-> x.chunk, series |-> x.series, ts |-> x.ts, src |-> <<1, x.rank>>]
      PROVE  WrittenRecord(v) /\ LogWrote(v, x)
  BY <1>2 DEF WrittenRecord, LogWrote
<1>3. \/ \E f \in FilesOf(table) : \E g \in f.rows :
           v = [chunk |-> f.chunk, series |-> g.series, ts |-> g.ts, src |-> <<0, f.wal, f.id>>]
      \/ \E x \in table.extra :
           v = [chunk |-> x.chunk, series |-> x.series, ts |-> x.ts, src |-> <<1, x.rank>>]
  BY Zenon DEF Written
<1>4. QED
  BY <1>1, <1>2, <1>3

LEMMA WrittenByFile ==
  ASSUME NEW f \in FilesOf(table), NEW g \in f.rows
  PROVE  [chunk |-> f.chunk, series |-> g.series, ts |-> g.ts, src |-> <<0, f.wal, f.id>>] \in Written
<1> DEFINE put(e, h) == [chunk |-> e.chunk, series |-> h.series, ts |-> h.ts, src |-> <<0, e.wal, e.id>>]
<1>1. UNION {{put(e, h) : h \in e.rows} : e \in FilesOf(table)} \subseteq Written
  BY DEF Written
<1> HIDE DEF put
<1>2. put(f, g) \in {put(f, h) : h \in f.rows}
  OBVIOUS
<1>3. {put(f, h) : h \in f.rows} \in {{put(e, h) : h \in e.rows} : e \in FilesOf(table)}
  OBVIOUS
<1>4. put(f, g) \in Written
  BY <1>1, <1>2, <1>3
<1>5. QED
  BY <1>4 DEF put

LEMMA WrittenByLog ==
  ASSUME NEW x \in table.extra
  PROVE  [chunk |-> x.chunk, series |-> x.series, ts |-> x.ts, src |-> <<1, x.rank>>] \in Written
  BY DEF Written

LEMMA WrittenFacts ==
  ASSUME table \in Tables
  PROVE  /\ \A v \in Written : /\ v.chunk \in ChunksOf(table) /\ v.chunk \in Times
                               /\ v.ts \in Times /\ v.chunk <= v.ts
                               /\ v.series \in {r.series : r \in RowsOf(table)}
         /\ \A c \in ChunksOf(table) : \E v \in Written : v.chunk = c
<1>1. ASSUME NEW v \in Written
      PROVE  /\ v.chunk \in ChunksOf(table) /\ v.ts \in v.chunk .. Half - 1
             /\ v.series \in {r.series : r \in RowsOf(table)}
  <2>1. ASSUME NEW f, FileWrote(v, f)
        PROVE  /\ v.chunk \in ChunksOf(table) /\ v.ts \in v.chunk .. Half - 1
               /\ v.series \in {r.series : r \in RowsOf(table)}
    <3>1. PICK g \in f.rows : v.series = g.series /\ v.ts = g.ts
      BY <2>1 DEF FileWrote
    <3>2. f \in FilesOf(table) /\ v.chunk = f.chunk
      BY <2>1 DEF FileWrote
    <3>3. g \in RowsOf(table) /\ g.ts \in f.chunk .. Half - 1
      BY <3>2, TableSeries, TableFacts
    <3>4. QED
      BY <3>1, <3>2, <3>3 DEF ChunksOf
  <2>2. ASSUME NEW x, LogWrote(v, x)
        PROVE  /\ v.chunk \in ChunksOf(table) /\ v.ts \in v.chunk .. Half - 1
               /\ v.series \in {r.series : r \in RowsOf(table)}
    <3>1. x \in table.extra /\ v.chunk = x.chunk /\ v.series = x.series /\ v.ts = x.ts
      BY <2>2 DEF LogWrote
    <3>2. x \in RowsOf(table) /\ x.ts \in x.chunk .. Half - 1
      BY <3>1, TableFacts DEF RowsOf
    <3>3. QED
      BY <3>1, <3>2 DEF ChunksOf
  <2>3. QED
    BY <2>1, <2>2, WrittenShape
<1>2. ASSUME NEW v \in Written PROVE v.chunk \in Times /\ v.ts \in Times /\ v.chunk <= v.ts
  <2>1. v.chunk \in Times /\ v.ts \in v.chunk .. Half - 1
    BY <1>1, ChunksFinite
  <2>2. QED
    BY <2>1, TimesFacts DEF Times
<1>3. ASSUME NEW c \in ChunksOf(table) PROVE \E v \in Written : v.chunk = c
  <2>1. CASE c \in {f.chunk : f \in FilesOf(table)}
    <3>1. PICK f \in FilesOf(table) : c = f.chunk
      BY <2>1
    <3>2. PICK g : g \in f.rows
      BY TableFacts
    <3>3. QED
      BY <3>1, <3>2, WrittenByFile
  <2>2. CASE c \in {x.chunk : x \in table.extra}
    <3>1. PICK x \in table.extra : c = x.chunk
      BY <2>2
    <3>2. QED
      BY <3>1, WrittenByLog
  <2>3. QED
    BY <2>1, <2>2 DEF ChunksOf
<1>4. QED
  BY <1>1, <1>2, <1>3

LEMMA RowsWritten ==
  ASSUME table \in Tables, NEW b, NEW C, Covers(b, C)
  PROVE  /\ \A r \in AllRows(b) : \E v \in Written : v.chunk \in C /\ Carries(r, v)
         /\ \A v \in Written : v.chunk \in C => \E r \in AllRows(b) : Carries(r, v)
<1> DEFINE F == {f \in FilesOf(table) : f.chunk \in C}
<1>1. CutFrom(b)
  BY CoversCut
<1>2. /\ b.files = SortFilesLWW(F) /\ b.extra = {x \in table.extra : x.chunk \in C}
      /\ Len(b.files) \in Nat /\ DOMAIN b.files = 1 .. Len(b.files)
      /\ \A f \in F : \E i \in 1 .. Len(b.files) : b.files[i] = f
      /\ \A i \in 1 .. Len(b.files) : b.files[i] \in F
  <2>1. b.files = SortFilesLWW(F) /\ b.extra = {x \in table.extra : x.chunk \in C}
    BY DEF Covers
  <2>2. /\ SortFilesLWW(F) \in Seq(F)
        /\ \A f \in F : \E i \in 1 .. Len(SortFilesLWW(F)) : SortFilesLWW(F)[i] = f
    BY SortedFiles
  <2>3. \A i \in 1 .. Len(b.files) : b.files[i] \in F
    <3> HIDE DEF F
    <3> QED BY <2>1, <2>2, ElementOfSeq
  <2>4. QED
    BY <1>1, <2>1, <2>2, <2>3, CutFiles
<1>3. ASSUME NEW r \in AllRows(b) PROVE \E v \in Written : v.chunk \in C /\ Carries(r, v)
  <2>1. ASSUME NEW i, FromFile(b, r, i) PROVE \E v \in Written : v.chunk \in C /\ Carries(r, v)
    <3>1. PICK g \in b.files[i].rows : r.series = g.series /\ r.ts = g.ts
      BY <2>1 DEF FromFile
    <3> DEFINE f == b.files[i]
               v == [chunk |-> f.chunk, series |-> g.series, ts |-> g.ts, src |-> <<0, f.wal, f.id>>]
    <3>2. f \in FilesOf(table) /\ f.chunk \in C /\ r.src = <<0, f.wal, f.id>>
      BY <1>2, <2>1 DEF FromFile
    <3>3. v \in Written
      BY <3>1, <3>2, WrittenByFile
    <3>4. QED
      BY <3>1, <3>2, <3>3 DEF Carries
  <2>2. ASSUME NEW x, FromLog(b, r, x) PROVE \E v \in Written : v.chunk \in C /\ Carries(r, v)
    <3>1. x \in table.extra /\ x.chunk \in C /\ r.series = x.series /\ r.ts = x.ts
          /\ r.src = <<1, x.rank>>
      BY <1>2, <2>2 DEF FromLog
    <3> DEFINE v == [chunk |-> x.chunk, series |-> x.series, ts |-> x.ts, src |-> <<1, x.rank>>]
    <3>2. v \in Written
      BY <3>1, WrittenByLog
    <3>3. QED
      BY <3>1, <3>2 DEF Carries
  <2>3. QED
    BY <1>1, <2>1, <2>2, RowShape
<1>4. ASSUME NEW v \in Written, v.chunk \in C PROVE \E r \in AllRows(b) : Carries(r, v)
  <2>1. ASSUME NEW f, FileWrote(v, f) PROVE \E r \in AllRows(b) : Carries(r, v)
    <3>1. PICK g \in f.rows : v.series = g.series /\ v.ts = g.ts
      BY <2>1 DEF FileWrote
    <3>2. f \in F /\ v.src = <<0, f.wal, f.id>>
      BY <1>4, <2>1 DEF FileWrote
    <3>3. PICK i \in 1 .. Len(b.files) : b.files[i] = f
      BY <1>2, <3>2
    <3> DEFINE r == [key |-> OrderKey(g.series), ts |-> g.ts, rank |-> i - 1, series |-> g.series,
                     src |-> <<0, b.files[i].wal, b.files[i].id>>]
    <3>4. r \in FileRows(b)
      <4>1. i \in DOMAIN b.files /\ g \in b.files[i].rows
        BY <1>2, <3>1, <3>3
      <4> DEFINE row(k, h) == [key |-> OrderKey(h.series), ts |-> h.ts, rank |-> k - 1,
                               series |-> h.series,
                               src |-> <<0, b.files[k].wal, b.files[k].id>>]
      <4>2. FileRows(b) = UNION {{row(k, h) : h \in b.files[k].rows} : k \in DOMAIN b.files}
        BY DEF FileRows
      <4>3. r = row(i, g)
        OBVIOUS
      <4> HIDE DEF row, r
      <4>4. row(i, g) \in {row(i, h) : h \in b.files[i].rows}
        BY <4>1
      <4>5. {row(i, h) : h \in b.files[i].rows}
              \in {{row(k, h) : h \in b.files[k].rows} : k \in DOMAIN b.files}
        BY <4>1
      <4>6. QED
        BY <4>2, <4>3, <4>4, <4>5
    <3>5. Carries(r, v)
      BY <3>1, <3>2, <3>3 DEF Carries
    <3>6. QED
      BY <3>4, <3>5 DEF AllRows
  <2>2. ASSUME NEW x, LogWrote(v, x) PROVE \E r \in AllRows(b) : Carries(r, v)
    <3>1. x \in b.extra /\ v.src = <<1, x.rank>> /\ v.series = x.series /\ v.ts = x.ts
      BY <1>2, <1>4, <2>2 DEF LogWrote
    <3> DEFINE r == [key |-> OrderKey(x.series), ts |-> x.ts, rank |-> ExtraRank(b, x),
                     series |-> x.series, src |-> <<1, x.rank>>]
    <3>2. r \in ExtraRows(b)
      BY <3>1 DEF ExtraRows
    <3>3. Carries(r, v)
      BY <3>1 DEF Carries
    <3>4. QED
      BY <3>2, <3>3 DEF AllRows
  <2>3. QED
    BY <2>1, <2>2, WrittenShape
<1>5. QED
  BY <1>3, <1>4

-----------------------------------------------------------------------------
(* The plan.                                                               *)

LEMMA BucketizeFacts ==
  ASSUME table \in Tables
  PROVE  /\ Len(Bucketize) \in Nat /\ DOMAIN Bucketize = 1 .. Len(Bucketize)
         /\ Len(Bucketize) = 0 <=> Empty
         /\ \A i \in 1 .. Len(Bucketize) :
              /\ Bucketize[i] = Bucket(Bucketize[i].chunk)
              /\ Bucketize[i].chunk \in ChunksOf(table) /\ Bucketize[i].chunk \in Times
         /\ \A i, j \in 1 .. Len(Bucketize) : Bucketize[i].chunk < Bucketize[j].chunk <=> i < j
         /\ \A c \in ChunksOf(table) : \E i \in 1 .. Len(Bucketize) : Bucketize[i].chunk = c
         /\ Bucketize = [i \in 1 .. Len(Bucketize) |-> Bucketize[i]]
<1> DEFINE S == ChunksOf(table)
           q == Ascending(S, <)
<1>1. IsFiniteSet(S) /\ S \subseteq Times /\ S \subseteq Int /\ (S = {} <=> Empty)
  BY ChunksFinite, TimesFacts
<1>2. Cardinality(S) \in Nat /\ (Cardinality(S) = 0 <=> S = {})
  BY <1>1, FS_CardinalityType, FS_EmptySet
<1>3. /\ q \in Seq(S) /\ Len(q) = Cardinality(S)
      /\ \A i, j \in 1 .. Cardinality(S) : q[i] < q[j] <=> i < j
      /\ \A x \in S : \E i \in 1 .. Cardinality(S) : q[i] = x
  <2> HIDE DEF S
  <2> QED BY Zenon, <1>1, AscendingNumbers
<1>4. Bucketize = [i \in DOMAIN q |-> Bucket(q[i])]
  BY DEF Bucketize
<1> HIDE DEF q, S
<1>5. DOMAIN q = 1 .. Cardinality(S) /\ \A i \in 1 .. Cardinality(S) : q[i] \in S
  BY <1>2, <1>3, ElementOfSeq
<1>6. Bucketize = [i \in 1 .. Cardinality(S) |-> Bucket(q[i])]
  BY <1>4, <1>5
<1>7. /\ Len(Bucketize) = Cardinality(S) /\ DOMAIN Bucketize = 1 .. Cardinality(S)
      /\ \A i \in 1 .. Cardinality(S) : Bucketize[i] = Bucket(q[i])
  <2> HIDE DEF Bucket
  <2> QED BY <1>2, <1>6
<1>8. \A c : Bucket(c).chunk = c
  BY DEF Bucket
<1>9. \A i \in 1 .. Cardinality(S) : Bucketize[i].chunk = q[i]
  BY <1>7, <1>8
<1>10. Bucketize = [i \in 1 .. Len(Bucketize) |-> Bucketize[i]]
  BY <1>6, <1>7
<1>11. Len(Bucketize) = 0 <=> Empty
  BY <1>1, <1>2, <1>7
<1>12. \A i \in 1 .. Cardinality(S) :
         /\ Bucketize[i] = Bucket(Bucketize[i].chunk)
         /\ Bucketize[i].chunk \in S /\ Bucketize[i].chunk \in Times
  BY <1>1, <1>5, <1>7, <1>9
<1>13. \A i, j \in 1 .. Cardinality(S) : Bucketize[i].chunk < Bucketize[j].chunk <=> i < j
  BY <1>3, <1>9
<1>14. \A c \in S : \E i \in 1 .. Cardinality(S) : Bucketize[i].chunk = c
  BY <1>3, <1>9
<1>15. QED
  BY <1>2, <1>7, <1>10, <1>11, <1>12, <1>13, <1>14, Zenon DEF S

LEMMA BucketCovers ==
  ASSUME table \in Tables, NEW c
  PROVE  /\ Covers(Bucket(c), {c})
         /\ \A ts : ts \in TimesOf(Bucket(c)) <=> \E v \in Written : v.chunk = c /\ v.ts = ts
<1> DEFINE F == {f \in FilesOf(table) : f.chunk = c}
           X == {x \in table.extra : x.chunk = c}
<1>1. Bucket(c).files = SortFilesLWW(F) /\ Bucket(c).extra = X
  BY DEF Bucket
<1>2. F = {f \in FilesOf(table) : f.chunk \in {c}} /\ X = {x \in table.extra : x.chunk \in {c}}
  OBVIOUS
<1>3. Covers(Bucket(c), {c})
  BY <1>1, <1>2 DEF Covers
<1>4. ToSet(Bucket(c).files) = F
  BY <1>1, SortedFiles
<1>5. TimesOf(Bucket(c)) = (UNION {{r.ts : r \in f.rows} : f \in F}) \cup {x.ts : x \in X}
  <2> HIDE DEF F, X
  <2> QED BY <1>1, <1>4 DEF TimesOf
<1>6. ASSUME NEW ts \in TimesOf(Bucket(c)) PROVE \E v \in Written : v.chunk = c /\ v.ts = ts
  <2>1. CASE \E f \in F : \E g \in f.rows : ts = g.ts
    <3>1. PICK f \in F : \E g \in f.rows : ts = g.ts
      BY <2>1
    <3>2. PICK g \in f.rows : ts = g.ts
      BY <3>1
    <3>3. QED
      BY <3>2, WrittenByFile
  <2>2. CASE \E x \in X : ts = x.ts
    <3>1. PICK x \in X : ts = x.ts
      BY <2>2
    <3>2. QED
      BY <3>1, WrittenByLog
  <2>3. QED
    BY <1>5, <1>6, <2>1, <2>2
<1>7. ASSUME NEW v \in Written, v.chunk = c PROVE v.ts \in TimesOf(Bucket(c))
  <2>1. ASSUME NEW f, FileWrote(v, f) PROVE v.ts \in TimesOf(Bucket(c))
    <3>1. f \in F /\ v.ts \in {r.ts : r \in f.rows}
      BY <1>7, <2>1 DEF FileWrote
    <3>2. QED
      BY <1>5, <3>1
  <2>2. ASSUME NEW x, LogWrote(v, x) PROVE v.ts \in TimesOf(Bucket(c))
    <3>1. x \in X /\ v.ts = x.ts
      BY <1>7, <2>2 DEF LogWrote
    <3>2. QED
      BY <1>5, <3>1
  <2>3. QED
    BY <2>1, <2>2, WrittenShape
<1>8. QED
  BY <1>3, <1>6, <1>7

(* The plan looks at neighbours; what was written overlaps or not.         *)
LEMMA OverlapSeen ==
  ASSUME table \in Tables
  PROVE  Overlap <=> ~Disjoint(Bucketize)
<1> DEFINE bs == Bucketize
           n == Len(bs)
<1>1. /\ n \in Nat
      /\ \A i \in 1 .. n : /\ bs[i] = Bucket(bs[i].chunk) /\ bs[i].chunk \in ChunksOf(table)
                           /\ bs[i].chunk \in Int
      /\ \A i, j \in 1 .. n : bs[i].chunk < bs[j].chunk <=> i < j
      /\ \A c \in ChunksOf(table) : \E i \in 1 .. n : bs[i].chunk = c
  BY BucketizeFacts, TimesFacts
<1>2. \A i \in 1 .. n : \A ts : ts \in TimesOf(bs[i])
                                  <=> \E v \in Written : v.chunk = bs[i].chunk /\ v.ts = ts
  <2>1. ASSUME NEW i \in 1 .. n, NEW ts
        PROVE  ts \in TimesOf(bs[i]) <=> \E v \in Written : v.chunk = bs[i].chunk /\ v.ts = ts
    <3> DEFINE c == bs[i].chunk
    <3>1. bs[i] = Bucket(c)
      BY <1>1
    <3> HIDE DEF c, bs
    <3>2. ts \in TimesOf(Bucket(c)) <=> \E v \in Written : v.chunk = c /\ v.ts = ts
      BY BucketCovers
    <3>3. QED
      BY <3>1, <3>2 DEF c
  <2>2. QED
    BY <2>1
<1> HIDE DEF bs, n
<1>3. \A v \in Written : v.chunk \in ChunksOf(table) /\ v.chunk \in Int /\ v.ts \in Int
  BY WrittenFacts, TimesFacts
<1>4. ASSUME Overlap, \A i \in 1 .. n - 1 : \A ts \in TimesOf(bs[i]) : ts < bs[i + 1].chunk
      PROVE  FALSE
  <2>1. PICK v \in Written, w \in Written : v.chunk < w.chunk /\ v.ts >= w.chunk
    BY <1>4 DEF Overlap
  <2>2. PICK i \in 1 .. n, j \in 1 .. n : bs[i].chunk = v.chunk /\ bs[j].chunk = w.chunk
    BY <1>1, <1>3
  <2>3. i < j
    BY <1>1, <2>1, <2>2
  <2>4. i \in 1 .. n - 1 /\ i + 1 \in 1 .. n /\ ~(j < i + 1)
    BY <1>1, <2>3
  <2>5. v.ts \in TimesOf(bs[i])
    BY <1>2, <2>2
  <2>6. v.ts < bs[i + 1].chunk
    BY <1>4, <2>4, <2>5
  <2>7. ~(bs[j].chunk < bs[i + 1].chunk)
    BY <1>1, <2>4
  <2>8. bs[j].chunk \in Int /\ bs[i + 1].chunk \in Int
    BY <1>1, <2>4
  <2>9. QED
    BY <1>3, <2>1, <2>2, <2>6, <2>7, <2>8
<1>5. ASSUME NEW i \in 1 .. n - 1, NEW ts \in TimesOf(bs[i]), ~(ts < bs[i + 1].chunk)
      PROVE  Overlap
  <2>1. i \in 1 .. n /\ i + 1 \in 1 .. n /\ i < i + 1
    BY <1>1
  <2>2. PICK v \in Written : v.chunk = bs[i].chunk /\ v.ts = ts
    BY <1>2, <2>1
  <2>3. PICK w \in Written : w.chunk = bs[i + 1].chunk
    BY <1>1, <2>1, WrittenFacts
  <2>4. v.chunk < w.chunk
    BY <1>1, <2>1, <2>2, <2>3
  <2>5. v.ts >= w.chunk
    BY <1>3, <1>5, <2>2, <2>3
  <2>6. QED
    BY <2>4, <2>5 DEF Overlap
<1>6. Disjoint(bs) <=> \A i \in 1 .. n - 1 : \A ts \in TimesOf(bs[i]) : ts < bs[i + 1].chunk
  BY DEF Disjoint, n
<1>7. QED
  BY <1>4, <1>5, <1>6 DEF bs

LEMMA FirstChunk ==
  ASSUME table \in Tables, ~Empty
  PROVE  Bucketize[1].chunk = Min({w.chunk : w \in Written})
<1> DEFINE S == {w.chunk : w \in Written}
           c == Bucketize[1].chunk
<1>1. Len(Bucketize) \in Nat /\ 1 \in 1 .. Len(Bucketize)
  BY BucketizeFacts
<1>2. S = ChunksOf(table) /\ S \subseteq Int
  BY WrittenFacts, TimesFacts
<1>3. c \in S /\ \A y \in S : c <= y
  <2>1. c \in S
    BY <1>1, <1>2, BucketizeFacts
  <2>2. ASSUME NEW y \in S PROVE c <= y
    <3>1. PICK i \in 1 .. Len(Bucketize) : Bucketize[i].chunk = y
      BY <1>2, BucketizeFacts
    <3>2. ~(i < 1)
      BY <1>1
    <3>3. ~(y < c)
      BY <1>1, <3>1, <3>2, BucketizeFacts
    <3> HIDE DEF S, c
    <3>4. c \in Int /\ y \in Int
      BY <1>2, <2>1
    <3>5. QED
      BY <3>3, <3>4
  <2>3. QED
    BY <2>1, <2>2
<1> HIDE DEF S, c
<1>4. \A x \in S : (\A y \in S : x <= y) => x = c
  BY <1>2, <1>3
<1>5. \E x \in S : \A y \in S : x <= y
  BY <1>3
<1>6. Min(S) \in S /\ \A y \in S : Min(S) <= y
  BY <1>5, Zenon DEF Min
<1>7. QED
  BY <1>4, <1>6 DEF S, c

(* The chunk under which v comes.                                          *)
HomeOf(v) == PlaceOf(v).chunk

LEMMA PlaceFacts ==
  ASSUME table \in Tables
  PROVE  /\ \A v \in Written : PlaceOf(v) = [chunk |-> HomeOf(v), series |-> v.series, ts |-> v.ts]
         /\ ~Overlap => \A v \in Written : HomeOf(v) = v.chunk
         /\ Overlap => \A v \in Written : HomeOf(v) = Min({w.chunk : w \in Written})
         /\ \A v, w \in Written : v.ts = w.ts => HomeOf(v) = HomeOf(w)
<1>1. \A v : HomeOf(v) = IF Overlap THEN Min({w.chunk : w \in Written}) ELSE v.chunk
  BY DEF HomeOf, PlaceOf
<1>2. \A v : PlaceOf(v) = [chunk |-> HomeOf(v), series |-> v.series, ts |-> v.ts]
  BY <1>1 DEF PlaceOf
<1>3. ASSUME NEW v \in Written, NEW w \in Written, v.ts = w.ts PROVE HomeOf(v) = HomeOf(w)
  <2>1. CASE Overlap
    BY <1>1, <2>1
  <2>2. CASE ~Overlap
    <3>1. /\ v.chunk \in Int /\ w.chunk \in Int /\ v.ts \in Int /\ w.ts \in Int
          /\ v.chunk <= v.ts /\ w.chunk <= w.ts
      BY WrittenFacts, TimesFacts
    <3>2. ~(v.chunk < w.chunk)
      BY <1>3, <2>2, <3>1 DEF Overlap
    <3>3. ~(w.chunk < v.chunk)
      BY <1>3, <2>2, <3>1 DEF Overlap
    <3>4. v.chunk = w.chunk
      BY <3>1, <3>2, <3>3
    <3>5. QED
      BY <1>1, <2>2, <3>4
  <2>3. QED
    BY <2>1, <2>2
<1>4. QED
  BY <1>1, <1>2, <1>3

(* The bucket has everything that comes under its chunk.                   *)
Homes(b) == \E C : Covers(b, C) /\ \A v \in Written : v.chunk \in C <=> HomeOf(v) = b.chunk

LEMMA PlanFacts ==
  ASSUME table \in Tables, ~Empty
  PROVE  /\ Len(Planned) \in Nat /\ DOMAIN Planned = 1 .. Len(Planned)
         /\ Planned = [i \in 1 .. Len(Planned) |-> Planned[i]]
         /\ \A i \in 1 .. Len(Planned) : Homes(Planned[i]) /\ Planned[i].chunk \in Times
         /\ \A i, j \in 1 .. Len(Planned) : Planned[i].chunk < Planned[j].chunk <=> i < j
         /\ \A v \in Written : \E i \in 1 .. Len(Planned) : Planned[i].chunk = HomeOf(v)
<1>1. CASE Disjoint(Bucketize)
  <2>1. Planned = Bucketize
    BY <1>1 DEF Planned
  <2>2. ~Overlap
    BY <1>1, OverlapSeen
  <2>3. ASSUME NEW i \in 1 .. Len(Bucketize) PROVE Homes(Bucketize[i])
    <3> DEFINE c == Bucketize[i].chunk
    <3>1. Bucketize[i] = Bucket(c)
      BY BucketizeFacts
    <3> HIDE DEF c
    <3>2. Covers(Bucket(c), {c}) /\ Bucket(c).chunk = c
      BY BucketCovers DEF Bucket
    <3>3. \A v \in Written : v.chunk \in {c} <=> HomeOf(v) = c
      BY <2>2, PlaceFacts
    <3>4. QED
      BY <3>1, <3>2, <3>3 DEF Homes
  <2>4. \A v \in Written : \E i \in 1 .. Len(Bucketize) : Bucketize[i].chunk = HomeOf(v)
    BY <2>2, PlaceFacts, WrittenFacts, BucketizeFacts
  <2>5. QED
    BY <2>1, <2>3, <2>4, BucketizeFacts
<1>2. CASE ~Disjoint(Bucketize)
  <2> DEFINE first == Bucketize[1].chunk
             b == [chunk |-> first, files |-> SortFilesLWW(FilesOf(table)), extra |-> table.extra]
             C == ChunksOf(table)
  <2>1. Planned = <<b>>
    BY <1>2 DEF Planned
  <2>2. Overlap
    BY <1>2, OverlapSeen
  <2>3. first = Min({w.chunk : w \in Written}) /\ first \in Times
    <3>1. 1 \in 1 .. Len(Bucketize)
      BY BucketizeFacts
    <3>2. QED
      BY <3>1, BucketizeFacts, FirstChunk
  <2>4. b.chunk = first /\ b.files = SortFilesLWW(FilesOf(table)) /\ b.extra = table.extra
    OBVIOUS
  <2> HIDE DEF b, first
  <2>5. Covers(b, C)
    <3>1. /\ FilesOf(table) = {f \in FilesOf(table) : f.chunk \in C}
          /\ table.extra = {x \in table.extra : x.chunk \in C}
      BY DEF ChunksOf
    <3>2. QED
      BY <2>4, <3>1 DEF Covers
  <2>6. \A v \in Written : v.chunk \in C /\ HomeOf(v) = b.chunk
    BY <2>2, <2>3, <2>4, PlaceFacts, WrittenFacts
  <2>7. Homes(b)
    BY <2>5, <2>6 DEF Homes
  <2>8. Len(<<b>>) = 1 /\ DOMAIN <<b>> = 1 .. 1 /\ <<b>>[1] = b /\ <<b>> = [i \in 1 .. 1 |-> <<b>>[i]]
    OBVIOUS
  <2>9. b.chunk \in Times /\ b.chunk \in Int
    BY <2>3, <2>4, TimesFacts
  <2> DEFINE P == <<b>>
  <2>10. /\ P = Planned /\ Len(P) = 1 /\ DOMAIN P = 1 .. 1 /\ P = [i \in 1 .. 1 |-> P[i]]
         /\ P[1] = b
    BY <2>1, <2>8
  <2> HIDE DEF P
  <2>11. \A i \in 1 .. Len(P) : i = 1 /\ P[i] = b
    BY <2>10
  <2>12. \A i, j \in 1 .. Len(P) : P[i].chunk < P[j].chunk <=> i < j
    BY <2>9, <2>11
  <2>13. \A v \in Written : \E i \in 1 .. Len(P) : P[i].chunk = HomeOf(v)
    BY <2>6, <2>10
  <2>14. QED
    BY <2>7, <2>9, <2>10, <2>11, <2>12, <2>13
<1>3. QED
  BY <1>1, <1>2

-----------------------------------------------------------------------------
(* The places of the rows.                                                 *)

PlaceIn(b, r) == [chunk |-> b.chunk, series |-> r.series, ts |-> r.ts]

BucketPlaces(b) == {PlaceIn(b, r) : r \in RowSet(b)}

\* A place of this table.
IsPlace(p) ==
  /\ p = [chunk |-> p.chunk, series |-> p.series, ts |-> p.ts]
  /\ p.chunk \in Times /\ p.ts \in Times
  /\ p.series \in {r.series : r \in RowsOf(table)}

LEMMA HomesCut ==
  ASSUME NEW b, Homes(b)
  PROVE  CutFrom(b)
  BY CoversCut DEF Homes

LEMMA RowsAsked ==
  ASSUME table \in Tables, NEW b, Homes(b), NEW r \in RowSet(b)
  PROVE  PlaceIn(b, r) \in Asked
<1>1. PICK C : Covers(b, C) /\ \A v \in Written : v.chunk \in C <=> HomeOf(v) = b.chunk
  BY DEF Homes
<1>2. r \in AllRows(b) /\ InRange(r.ts)
  BY DEF RowSet, AllRows
<1>3. PICK v \in Written : v.chunk \in C /\ Carries(r, v)
  BY <1>1, <1>2, RowsWritten
<1>4. HomeOf(v) = b.chunk /\ v.series = r.series /\ v.ts = r.ts
  BY <1>1, <1>3 DEF Carries
<1>5. PlaceOf(v) = PlaceIn(b, r)
  BY <1>4, PlaceFacts DEF PlaceIn
<1>6. v \in {w \in Written : InRange(w.ts)}
  BY <1>2, <1>4
<1>7. PlaceOf(v) \in Asked
  BY <1>6 DEF Asked
<1>8. QED
  BY <1>5, <1>7

LEMMA AskedRead ==
  ASSUME table \in Tables, NEW p \in Asked
  PROVE  /\ ~Empty
         /\ \E i \in 1 .. Len(Planned) : p.chunk = Planned[i].chunk /\ p \in BucketPlaces(Planned[i])
<1>1. PICK v \in Written : InRange(v.ts) /\ p = PlaceOf(v)
  BY DEF Asked
<1>2. ~Empty
  BY <1>1, WrittenFacts, ChunksFinite
<1>3. PICK i \in 1 .. Len(Planned) : Planned[i].chunk = HomeOf(v)
  BY <1>2, PlanFacts
<1> DEFINE b == Planned[i]
<1>4. Homes(b) /\ b.chunk = HomeOf(v)
  BY <1>2, <1>3, PlanFacts
<1> HIDE DEF b
<1>5. PICK C : Covers(b, C) /\ \A w \in Written : w.chunk \in C <=> HomeOf(w) = b.chunk
  BY <1>4 DEF Homes
<1>6. v.chunk \in C
  BY <1>4, <1>5
<1>7. PICK r \in AllRows(b) : Carries(r, v)
  BY <1>5, <1>6, RowsWritten
<1>8. r \in RowSet(b)
  BY <1>1, <1>7 DEF Carries, RowSet, AllRows
<1>9. p = PlaceIn(b, r)
  BY <1>1, <1>4, <1>7, PlaceFacts DEF Carries, PlaceIn
<1>10. p.chunk = b.chunk /\ p \in BucketPlaces(b)
  BY <1>8, <1>9 DEF BucketPlaces, PlaceIn
<1>11. QED
  BY <1>2, <1>3, <1>10 DEF b

LEMMA AskedPlaces ==
  ASSUME table \in Tables, NEW p \in Asked
  PROVE  IsPlace(p)
<1>1. PICK v \in Written : InRange(v.ts) /\ p = PlaceOf(v)
  BY DEF Asked
<1>2. p = [chunk |-> HomeOf(v), series |-> v.series, ts |-> v.ts]
  BY <1>1, PlaceFacts
<1>3. v.ts \in Times /\ v.series \in {r.series : r \in RowsOf(table)}
  BY WrittenFacts
<1>4. ~Empty
  BY WrittenFacts, ChunksFinite
<1>5. HomeOf(v) \in Times
  BY <1>4, PlanFacts
<1>6. QED
  BY <1>2, <1>3, <1>5 DEF IsPlace

(* The last of the rows of one place is what was written last there.       *)
LEMMA NewestRow ==
  ASSUME table \in Tables, NEW b, Homes(b), NEW r \in RowSet(b),
         \A s \in RowSet(b) : s.series = r.series /\ s.ts = r.ts => ~(r.rank < s.rank)
  PROVE  Newest(PlaceIn(b, r)) = r.src
<1>1. PICK C : Covers(b, C) /\ \A v \in Written : v.chunk \in C <=> HomeOf(v) = b.chunk
  BY DEF Homes
<1>2. r \in AllRows(b) /\ InRange(r.ts) /\ CutFrom(b)
  BY HomesCut DEF RowSet, AllRows
<1> DEFINE vs == {v \in Written : v.series = r.series /\ v.ts = r.ts}
<1>3. PICK v \in Written : v.chunk \in C /\ Carries(r, v)
  BY <1>1, <1>2, RowsWritten
<1>4. v \in vs /\ v.src = r.src /\ HomeOf(v) = b.chunk
  BY <1>1, <1>3 DEF Carries
<1>5. ASSUME NEW w \in vs PROVE w.src = v.src \/ Precedes(w.src, v.src)
  <2>1. w.ts = v.ts
    BY <1>4
  <2>2. HomeOf(w) = b.chunk
    BY <1>4, <2>1, PlaceFacts
  <2>3. PICK s \in AllRows(b) : Carries(s, w)
    BY <1>1, <2>2, RowsWritten
  <2>4. s \in RowSet(b) /\ s.series = r.series /\ s.ts = r.ts /\ s.src = w.src
    BY <1>2, <2>3 DEF Carries, RowSet, AllRows
  <2>5. ~(r.rank < s.rank)
    BY <2>4
  <2>6. s.rank \in Nat /\ r.rank \in Nat
    BY <1>2, <2>3, RowFacts
  <2>7. s.rank < r.rank \/ s.rank = r.rank
    BY <2>5, <2>6
  <2>8. Precedes(s.src, r.src) \/ s.src = r.src
    BY <1>2, <2>3, <2>7, RankOrder
  <2>9. QED
    BY <1>4, <2>4, <2>8
<1>6. \A w \in Written : w.src \in Seq(Int)
  <2>1. ASSUME NEW w, NEW f, FileWrote(w, f) PROVE w.src \in Seq(Int)
    <3>1. f.wal \in Int /\ f.id \in Int /\ w.src = <<0, f.wal, f.id>>
      BY <2>1, TableFacts DEF FileWrote
    <3>2. QED
      BY <3>1
  <2>2. ASSUME NEW w, NEW x, LogWrote(w, x) PROVE w.src \in Seq(Int)
    <3>1. x.rank \in Int /\ w.src = <<1, x.rank>>
      BY <2>2, TableFacts DEF LogWrote
    <3>2. QED
      BY <3>1
  <2>3. QED
    BY <2>1, <2>2, WrittenShape
<1>7. ASSUME NEW w \in vs, w.src = v.src PROVE w = v
  <2>1. WrittenRecord(w) /\ WrittenRecord(v) /\ w.series = v.series /\ w.ts = v.ts
    BY <1>4, WrittenShape
  <2>2. w.chunk = v.chunk
    <3>1. ASSUME NEW f, FileWrote(w, f), NEW g, FileWrote(v, g) PROVE w.chunk = v.chunk
      <4>1. /\ f \in FilesOf(table) /\ w.chunk = f.chunk /\ w.src = <<0, f.wal, f.id>>
            /\ g \in FilesOf(table) /\ v.chunk = g.chunk /\ v.src = <<0, g.wal, g.id>>
        BY <3>1 DEF FileWrote
      <4>2. <<0, f.wal, f.id>> = <<0, g.wal, g.id>>
        BY <1>7, <4>1, Zenon
      <4>3. f.id = g.id
        BY <4>2
      <4>4. f = g
        BY <4>1, <4>3, TableFacts
      <4>5. QED
        BY <4>1, <4>4
    <3>2. ASSUME NEW x, LogWrote(w, x), NEW y, LogWrote(v, y) PROVE w.chunk = v.chunk
      <4>1. /\ x \in table.extra /\ w.chunk = x.chunk /\ w.src = <<1, x.rank>>
            /\ y \in table.extra /\ v.chunk = y.chunk /\ v.src = <<1, y.rank>>
        BY <3>2 DEF LogWrote
      <4>2. <<1, x.rank>> = <<1, y.rank>>
        BY <1>7, <4>1, Zenon
      <4>3. x.rank = y.rank
        BY <4>2
      <4>4. x = y
        BY <4>1, <4>3, TableFacts
      <4>5. QED
        BY <4>1, <4>4
    <3>3. ASSUME NEW s, NEW t, NEW f, FileWrote(s, f), NEW x, LogWrote(t, x) PROVE s.src # t.src
      <4>1. s.src = <<0, f.wal, f.id>> /\ t.src = <<1, x.rank>>
        BY <3>3 DEF FileWrote, LogWrote
      <4>2. QED
        BY <4>1
    <3>4. QED
      BY <1>7, <3>1, <3>2, <3>3, WrittenShape
  <2>3. QED
    BY <1>7, <2>1, <2>2 DEF WrittenRecord
<1>8. \A w \in vs : v = w \/ Precedes(w.src, v.src)
  BY <1>5, <1>7
<1>9. ASSUME NEW u \in vs, \A w \in vs : u = w \/ Precedes(w.src, u.src) PROVE u = v
  <2>1. SUFFICES ASSUME u # v PROVE FALSE
    OBVIOUS
  <2>2. Precedes(v.src, u.src) /\ Precedes(u.src, v.src)
    BY <1>4, <1>8, <1>9, <2>1
  <2>3. QED
    BY <1>4, <1>6, <2>2, PrecedesAsymmetric
<1> HIDE DEF vs
<1>10. (CHOOSE u \in vs : \A w \in vs : u = w \/ Precedes(w.src, u.src)) = v
  <2> DEFINE c == CHOOSE u \in vs : \A w \in vs : u = w \/ Precedes(w.src, u.src)
  <2>1. c \in vs /\ \A w \in vs : c = w \/ Precedes(w.src, c.src)
    BY <1>4, <1>8, Zenon
  <2> HIDE DEF c
  <2>2. c = v
    BY <1>9, <2>1
  <2>3. QED
    BY <2>2 DEF c
<1>11. Newest(PlaceIn(b, r)) = (CHOOSE u \in vs : \A w \in vs : u = w \/ Precedes(w.src, u.src)).src
  <2>1. PlaceIn(b, r).series = r.series /\ PlaceIn(b, r).ts = r.ts
    BY DEF PlaceIn
  <2>2. QED
    BY <2>1, Zenon DEF Newest, vs
<1>12. QED
  BY <1>4, <1>10, <1>11

-----------------------------------------------------------------------------
(* The order of places.                                                    *)

\* The same order, by the keys.
KeyBefore(p, q) ==
  \/ p.chunk < q.chunk
  \/ p.chunk = q.chunk /\ Precedes(OrderKey(p.series), OrderKey(q.series))
  \/ p.chunk = q.chunk /\ OrderKey(p.series) = OrderKey(q.series) /\ p.ts < q.ts

LEMMA PlaceByKey ==
  ASSUME table \in Tables, NEW p, NEW q, IsPlace(p), IsPlace(q)
  PROVE  PlaceBefore(p, q) <=> KeyBefore(p, q)
<1>1. /\ Precedes(OrderKey(p.series), OrderKey(q.series)) <=> SeriesBefore(p.series, q.series)
      /\ OrderKey(p.series) = OrderKey(q.series) <=> p.series = q.series
  BY TableLengths DEF IsPlace
<1>2. QED
  BY <1>1 DEF PlaceBefore, KeyBefore

LEMMA PlacesOrdered ==
  ASSUME table \in Tables
  PROVE  /\ \A p : IsPlace(p) => ~PlaceBefore(p, p)
         /\ \A p, q, r : /\ IsPlace(p) /\ IsPlace(q) /\ IsPlace(r)
                         /\ PlaceBefore(p, q) /\ PlaceBefore(q, r)
                         => PlaceBefore(p, r)
         /\ \A p, q : IsPlace(p) /\ IsPlace(q) => p = q \/ PlaceBefore(p, q) \/ PlaceBefore(q, p)
<1>0. \A p : IsPlace(p) => p.chunk \in Int /\ p.ts \in Int /\ OrderKey(p.series) \in Seq(Int)
  <2>1. SUFFICES ASSUME NEW p, IsPlace(p)
                 PROVE  p.chunk \in Int /\ p.ts \in Int /\ OrderKey(p.series) \in Seq(Int)
    OBVIOUS
  <2>2. p.chunk \in Times /\ p.ts \in Times /\ p.series \in {r.series : r \in RowsOf(table)}
    BY <2>1 DEF IsPlace
  <2>3. IsSeries(p.series)
    BY <2>2, TableFacts
  <2>4. QED
    BY <2>2, <2>3, TimesFacts, KeyParts
<1>1. ASSUME NEW p, IsPlace(p) PROVE ~PlaceBefore(p, p)
  <2>1. ~KeyBefore(p, p)
    BY <1>0, <1>1, PrecedesIrreflexive DEF KeyBefore
  <2>2. QED
    BY <1>1, <2>1, PlaceByKey
<1>2. ASSUME NEW p, NEW q, NEW r, IsPlace(p), IsPlace(q), IsPlace(r),
             PlaceBefore(p, q), PlaceBefore(q, r)
      PROVE  PlaceBefore(p, r)
  <2> DEFINE a == OrderKey(p.series)
             b == OrderKey(q.series)
             c == OrderKey(r.series)
  <2>1. /\ p.chunk \in Int /\ p.ts \in Int /\ a \in Seq(Int)
        /\ q.chunk \in Int /\ q.ts \in Int /\ b \in Seq(Int)
        /\ r.chunk \in Int /\ r.ts \in Int /\ c \in Seq(Int)
    BY <1>0, <1>2
  <2>2. KeyBefore(p, q) /\ KeyBefore(q, r)
    BY <1>2, PlaceByKey
  <2>3. /\ \/ p.chunk < q.chunk
           \/ p.chunk = q.chunk /\ (Precedes(a, b) \/ (a = b /\ p.ts < q.ts))
        /\ \/ q.chunk < r.chunk
           \/ q.chunk = r.chunk /\ (Precedes(b, c) \/ (b = c /\ q.ts < r.ts))
    BY <2>2 DEF KeyBefore
  <2>4. Precedes(a, b) /\ Precedes(b, c) => Precedes(a, c)
    BY <2>1, PrecedesTransitive
  <2>5. KeyBefore(p, r) <=> \/ p.chunk < r.chunk
                            \/ p.chunk = r.chunk /\ (Precedes(a, c) \/ (a = c /\ p.ts < r.ts))
    BY DEF KeyBefore
  <2> HIDE DEF a, b, c
  <2>6. CASE p.chunk < q.chunk \/ q.chunk < r.chunk
    <3>1. p.chunk < r.chunk
      BY <2>1, <2>3, <2>6
    <3>2. QED
      BY <1>2, <2>5, <3>1, PlaceByKey
  <2>7. CASE p.chunk = q.chunk /\ q.chunk = r.chunk
    <3>1. ~(p.chunk < q.chunk) /\ ~(q.chunk < r.chunk)
      BY <2>1, <2>7
    <3>2. (Precedes(a, b) \/ (a = b /\ p.ts < q.ts)) /\ (Precedes(b, c) \/ (b = c /\ q.ts < r.ts))
      BY <2>3, <3>1
    <3>3. p.ts < q.ts /\ q.ts < r.ts => p.ts < r.ts
      BY <2>1
    <3>4. Precedes(a, c) \/ (a = c /\ p.ts < r.ts)
      BY <2>4, <3>2, <3>3
    <3>5. QED
      BY <1>2, <2>5, <2>7, <3>4, PlaceByKey
  <2>8. QED
    BY <2>3, <2>6, <2>7
<1>3. ASSUME NEW p, NEW q, IsPlace(p), IsPlace(q), p # q
      PROVE  PlaceBefore(p, q) \/ PlaceBefore(q, p)
  <2> DEFINE a == OrderKey(p.series)
             b == OrderKey(q.series)
  <2>1. /\ p.chunk \in Int /\ p.ts \in Int /\ a \in Seq(Int)
        /\ q.chunk \in Int /\ q.ts \in Int /\ b \in Seq(Int)
    BY <1>0, <1>3
  <2>2. a = b \/ Precedes(a, b) \/ Precedes(b, a)
    BY <2>1, PrecedesTotal
  <2>3. a = b => p.series = q.series
    BY <1>3, TableLengths DEF IsPlace
  <2>4. p.chunk # q.chunk \/ p.series # q.series \/ p.ts # q.ts
    BY <1>3 DEF IsPlace
  <2>5. /\ KeyBefore(p, q) <=> \/ p.chunk < q.chunk
                               \/ p.chunk = q.chunk /\ (Precedes(a, b) \/ (a = b /\ p.ts < q.ts))
        /\ KeyBefore(q, p) <=> \/ q.chunk < p.chunk
                               \/ q.chunk = p.chunk /\ (Precedes(b, a) \/ (b = a /\ q.ts < p.ts))
    BY DEF KeyBefore
  <2>6. KeyBefore(p, q) \/ KeyBefore(q, p)
    <3> HIDE DEF a, b
    <3>1. p.chunk < q.chunk \/ q.chunk < p.chunk \/ p.chunk = q.chunk
      BY <2>1
    <3>2. p.ts < q.ts \/ q.ts < p.ts \/ p.ts = q.ts
      BY <2>1
    <3>3. QED
      BY <2>2, <2>3, <2>4, <2>5, <3>1, <3>2
  <2>7. QED
    BY <1>3, <2>6, PlaceByKey
<1>4. QED
  BY <1>1, <1>2, <1>3

LEMMA PlacesFinite ==
  ASSUME table \in Tables
  PROVE  IsFiniteSet(Asked) /\ IsFiniteSet(Rest) /\ Rest \subseteq Asked
<1> DEFINE n == Len(Planned)
           part == [i \in 1 .. n |-> BucketPlaces(Planned[i])]
<1>1. CASE Empty
  <2>1. Asked = {}
    BY <1>1, AskedRead
  <2>2. QED
    BY <2>1, FS_EmptySet DEF Rest
<1>2. CASE ~Empty
  <2>1. n \in Nat /\ \A i \in 1 .. n : Homes(Planned[i])
    BY <1>2, PlanFacts
  <2>2. ASSUME NEW i \in 1 .. n PROVE IsFiniteSet(part[i])
    <3> DEFINE b == Planned[i]
               h == [r \in RowSet(b) |-> PlaceIn(b, r)]
    <3>1. CutFrom(b)
      BY <2>1, HomesCut
    <3>2. IsFiniteSet(RowSet(b))
      BY <3>1, RowsFinite
    <3>3. part[i] = {h[r] : r \in RowSet(b)}
      BY DEF BucketPlaces
    <3> HIDE DEF h, part
    <3>4. QED
      BY <3>2, <3>3, ImageFinite
  <2>3. IsFiniteSet(1 .. n)
    BY <2>1, FS_Interval
  <2>4. \A p \in Asked : \E i \in 1 .. n : p \in part[i]
    BY AskedRead
  <2> HIDE DEF part, n
  <2>5. IsFiniteSet({part[i] : i \in 1 .. n})
    BY <2>3, ImageFinite
  <2>6. IsFiniteSet(UNION {part[i] : i \in 1 .. n})
    BY <2>2, <2>5, FS_UNION
  <2>7. Asked \in SUBSET UNION {part[i] : i \in 1 .. n}
    BY <2>4
  <2>8. IsFiniteSet(Asked)
    BY <2>6, <2>7, FS_Subset
  <2>9. Rest \in SUBSET Asked
    BY DEF Rest
  <2>10. QED
    BY <2>8, <2>9, FS_Subset
<1>3. QED
  BY <1>1, <1>2

PointAt(p) == [series |-> p.series, ts |-> p.ts, src |-> Newest(p)]

(* The place p comes behind as many others as the rest has before it.      *)
LEMMA ExpectedAt ==
  ASSUME table \in Tables
  PROVE  /\ Cardinality(Rest) \in Nat /\ Len(Expected) = Cardinality(Rest)
         /\ Expected = [i \in 1 .. Cardinality(Rest) |-> Expected[i]]
         /\ \A p \in Rest :
              LET n == Cardinality({y \in Rest : PlaceBefore(y, p)})
              IN  n + 1 \in 1 .. Cardinality(Rest) /\ Expected[n + 1] = PointAt(p)
<1> DEFINE S == Rest
           R == PlacesOn(S)
           q == Ascending(S, PlaceBefore)
<1>0. IsFiniteSet(S) /\ \A p \in S : IsPlace(p)
  BY PlacesFinite, AskedPlaces
<1>1. \A x, y \in S : <<x, y>> \in R <=> PlaceBefore(x, y)
  <2> HIDE DEF S
  <2> QED BY DEF PlacesOn
<1>2. Ordered(R, S)
  <2> HIDE DEF R, S
  <2>1. /\ \A r \in S : ~PlaceBefore(r, r)
        /\ \A r, s, t \in S : PlaceBefore(r, s) /\ PlaceBefore(s, t) => PlaceBefore(r, t)
        /\ \A r, s \in S : r = s \/ PlaceBefore(r, s) \/ PlaceBefore(s, r)
    BY <1>0, PlacesOrdered
  <2>2. QED
    BY <1>1, <2>1 DEF Ordered
<1>3. \A x \in S : {y \in S : PlaceBefore(y, x)} = Below(R, S, x)
  <2> HIDE DEF R, S
  <2> QED BY <1>1 DEF Below
<1>4. q = [i \in 1 .. Cardinality(S) |->
             CHOOSE x \in S : Cardinality({y \in S : PlaceBefore(y, x)}) = i - 1]
  BY DEF Ascending
<1>5. Expected = [i \in DOMAIN q |->
                    [series |-> q[i].series, ts |-> q[i].ts, src |-> Newest(q[i])]]
  BY DEF Expected
<1> HIDE DEF R, q, S
<1>6. q = [i \in 1 .. Cardinality(S) |-> q[i]]
  <2> DEFINE pick(i) == CHOOSE x \in S : Cardinality({y \in S : PlaceBefore(y, x)}) = i - 1
  <2>1. q = [i \in 1 .. Cardinality(S) |-> pick(i)]
    BY <1>4
  <2> HIDE DEF pick
  <2>2. QED
    BY <2>1
<1>7. ASSUME NEW i \in 1 .. Cardinality(S), \E x \in S : RankOf(R, S, x) = i - 1
      PROVE  q[i] \in S /\ RankOf(R, S, q[i]) = i - 1
  <2>1. q[i] = CHOOSE x \in S : Cardinality({y \in S : PlaceBefore(y, x)}) = i - 1
    BY <1>4
  <2>2. \E x \in S : Cardinality({y \in S : PlaceBefore(y, x)}) = i - 1
    BY <1>3, <1>7 DEF RankOf
  <2>3. q[i] \in S /\ Cardinality({y \in S : PlaceBefore(y, q[i])}) = i - 1
    BY <2>1, <2>2, Zenon
  <2>4. QED
    BY <1>3, <2>3 DEF RankOf
<1>8. Lists(q, R, S) /\ \A i \in 1 .. Len(q) : RankOf(R, S, q[i]) = i - 1
  <2>1. Ranks(q, R, S)
    BY <1>6, <1>7 DEF Ranks
  <2>2. QED
    BY <1>0, <1>2, <2>1, ListsByRank
<1>9. Cardinality(S) \in Nat
  BY <1>0, FS_CardinalityType
<1>10. Len(q) = Cardinality(S) /\ DOMAIN q = 1 .. Cardinality(S)
  BY <1>6, <1>8 DEF Lists
<1>11. Expected = [i \in 1 .. Cardinality(S) |-> PointAt(q[i])]
  BY <1>5, <1>10 DEF PointAt
<1>12. /\ Len(Expected) = Cardinality(S) /\ Expected = [i \in 1 .. Cardinality(S) |-> Expected[i]]
       /\ \A i \in 1 .. Cardinality(S) : Expected[i] = PointAt(q[i])
  <2> DEFINE E == [i \in 1 .. Cardinality(S) |-> PointAt(q[i])]
  <2> HIDE DEF PointAt
  <2>1. /\ Len(E) = Cardinality(S) /\ E = [i \in 1 .. Cardinality(S) |-> E[i]]
        /\ \A i \in 1 .. Cardinality(S) : E[i] = PointAt(q[i])
    BY <1>9
  <2> HIDE DEF E
  <2>2. Expected = E
    BY <1>11 DEF E
  <2>3. QED
    BY <2>1, <2>2
<1>13. ASSUME NEW p \in S
       PROVE  LET n == Cardinality({y \in S : PlaceBefore(y, p)})
              IN  n + 1 \in 1 .. Cardinality(S) /\ Expected[n + 1] = PointAt(p)
  <2> DEFINE n == Cardinality({y \in S : PlaceBefore(y, p)})
  <2>1. n = RankOf(R, S, p)
    BY <1>3 DEF RankOf
  <2> HIDE DEF n
  <2>2. n \in 0 .. Cardinality(S) - 1
    BY <1>0, <1>2, <2>1, RankRange
  <2>3. n + 1 \in 1 .. Cardinality(S)
    BY <1>9, <2>2
  <2>4. PICK i \in 1 .. Len(q) : q[i] = p
    BY <1>8 DEF Lists
  <2>5. n = i - 1
    BY <1>8, <2>1, <2>4
  <2>6. i = n + 1
    BY <1>9, <1>10, <2>5
  <2>7. Expected[n + 1] = PointAt(p)
    BY <1>12, <2>3, <2>4, <2>6
  <2>8. QED
    BY <2>3, <2>7 DEF n
<1>14. QED
  BY <1>9, <1>12, <1>13 DEF S

-----------------------------------------------------------------------------
(* The inputs do not change.                                               *)

BucketizeOf(t) ==
  LET sorted == Ascending(ChunksOf(t), <)
      bucket(c) == [chunk |-> c, files |-> SortFilesLWW({f \in FilesOf(t) : f.chunk = c}),
                    extra |-> {x \in t.extra : x.chunk = c}]
  IN  [i \in DOMAIN sorted |-> bucket(sorted[i])]

LEMMA SamePlan ==
  ASSUME UNCHANGED inputs
  PROVE  /\ Bucketize' = Bucketize
         /\ Planned' = Planned
<1>1. table' = table /\ range' = range /\ cursor' = cursor
  BY DEF inputs
<1>2. Bucketize' = Bucketize
  <2>1. Bucketize = BucketizeOf(table)
    BY DEF Bucketize, BucketizeOf, Bucket, Ascending
  <2>2. Bucketize' = BucketizeOf(table')
    BY DEF Bucketize, BucketizeOf, Bucket, Ascending
  <2>3. QED
    BY <1>1, <2>1, <2>2, Zenon
<1>3. Disjoint(Bucketize)' = Disjoint(Bucketize)
  BY <1>2 DEF Disjoint, TimesOf
<1>4. Planned' = Planned
  BY <1>1, <1>2, <1>3 DEF Planned
<1>5. QED
  BY <1>2, <1>4

LEMMA SamePlaces ==
  ASSUME UNCHANGED inputs
  PROVE  /\ Written' = Written
         /\ Overlap' = Overlap
         /\ Asked' = Asked
<1>1. table' = table /\ range' = range /\ cursor' = cursor
  BY DEF inputs
<1>2. Written' = Written
  BY <1>1 DEF Written
<1>3. Overlap' = Overlap
  BY <1>2 DEF Overlap
<1>4. Asked' = Asked
  BY <1>1, <1>2, <1>3 DEF Asked, PlaceOf, InRange
<1>5. QED
  BY <1>2, <1>3, <1>4

LEMMA SameRest ==
  ASSUME UNCHANGED inputs
  PROVE  /\ CursorHeld' <=> CursorHeld
         /\ Rest' = Rest
         /\ Expected' = Expected
         /\ CursorKey' = CursorKey /\ Cursor' = Cursor
<1>1. table' = table /\ range' = range /\ cursor' = cursor
  BY DEF inputs
<1>2. Written' = Written /\ Asked' = Asked
  BY SamePlaces
<1>3. CursorHeld' <=> CursorHeld
  BY <1>1, <1>2 DEF CursorHeld, Cursor
<1>4. Rest' = Rest
  BY <1>1, <1>2 DEF Rest, Cursor
<1>5. \A p : Newest(p)' = Newest(p)
  BY <1>2 DEF Newest
<1>6. Expected' = Expected
  BY <1>4, <1>5 DEF Expected
<1>7. CursorKey' = CursorKey /\ Cursor' = Cursor
  BY <1>1 DEF CursorKey, Cursor
<1>8. QED
  BY <1>3, <1>4, <1>6, <1>7

LEMMA SameRows ==
  ASSUME UNCHANGED inputs, NEW b
  PROVE  RowSet(b)' = RowSet(b) /\ ReadRows(b)' = ReadRows(b)
<1>1. range' = range
  BY DEF inputs
<1>2. RowSet(b)' = RowSet(b)
  BY <1>1 DEF RowSet, InRange
<1>3. ReadRows(b)' = ReadRows(b)
  BY <1>2 DEF ReadRows
<1>4. QED
  BY <1>2, <1>3

-----------------------------------------------------------------------------
(* What is left of a sequence.                                             *)

From(q, k) == SubSeq(q, k + 1, Len(q))

IsLeft(S, q, k) ==
  /\ From(q, k) \in Seq(S) /\ Len(From(q, k)) = Len(q) - k
  /\ DOMAIN From(q, k) = 1 .. Len(q) - k
  /\ \A i \in 1 .. Len(q) - k : From(q, k)[i] = q[k + i]
  /\ From(q, k) # <<>> <=> k < Len(q)
  /\ k < Len(q) => Head(From(q, k)) = q[k + 1] /\ Tail(From(q, k)) = From(q, k + 1)
  /\ From(q, 0) = q

LEMMA FromFacts ==
  ASSUME NEW S, NEW q \in Seq(S), NEW k \in 0 .. Len(q)
  PROVE  IsLeft(S, q, k)
<1>1. Len(q) \in Nat
  OBVIOUS
<1>2. /\ From(q, k) \in Seq(S) /\ Len(From(q, k)) = Len(q) - k
      /\ \A i \in 1 .. Len(q) - k : From(q, k)[i] = q[k + i]
  BY <1>1 DEF From
<1>3. DOMAIN From(q, k) = 1 .. Len(q) - k
  BY <1>2
<1>4. From(q, k) # <<>> <=> k < Len(q)
  BY <1>1, <1>2
<1>5. ASSUME k < Len(q) PROVE Head(From(q, k)) = q[k + 1] /\ Tail(From(q, k)) = From(q, k + 1)
  <2> DEFINE s == From(q, k)
             t == From(q, k + 1)
  <2>1. /\ t \in Seq(S) /\ Len(t) = Len(q) - (k + 1)
        /\ \A i \in 1 .. Len(q) - (k + 1) : t[i] = q[(k + 1) + i]
    BY <1>1, <1>5 DEF From
  <2>2. s \in Seq(S) /\ s # <<>> /\ Len(s) = Len(q) - k /\ \A i \in 1 .. Len(q) - k : s[i] = q[k + i]
    BY <1>2, <1>4, <1>5
  <2> HIDE DEF s, t
  <2>3. Head(s) = s[1] /\ 1 \in 1 .. Len(q) - k
    BY <1>1, <1>5, <2>2
  <2>4. Head(s) = q[k + 1]
    BY <2>2, <2>3
  <2>5. Tail(s) \in Seq(S) /\ Len(Tail(s)) = Len(s) - 1
        /\ \A i \in 1 .. Len(s) - 1 : Tail(s)[i] = s[i + 1]
    BY <2>2
  <2>6. ASSUME NEW i \in 1 .. Len(t) PROVE Tail(s)[i] = t[i]
    <3>1. i \in 1 .. Len(s) - 1 /\ i + 1 \in 1 .. Len(q) - k /\ k + (i + 1) = (k + 1) + i
          /\ i \in 1 .. Len(q) - (k + 1)
      BY <1>1, <2>1, <2>2
    <3>2. QED
      BY <2>1, <2>2, <2>5, <3>1
  <2>7. Len(Tail(s)) = Len(t)
    <3>1. Len(Tail(s)) = Len(s) - 1 /\ Len(s) = Len(q) - k /\ Len(t) = Len(q) - (k + 1)
      BY <2>1, <2>2, <2>5, Zenon
    <3>2. k \in Int
      BY <1>1
    <3>3. QED
      BY <1>1, <3>1, <3>2
  <2>8. Tail(s) = t
    BY <2>1, <2>5, <2>6, <2>7, SeqEqual
  <2>9. QED
    BY <2>4, <2>8 DEF s, t
<1>6. From(q, 0) = q
  BY SubSeqFull DEF From
<1>7. QED
  BY <1>2, <1>3, <1>4, <1>5, <1>6 DEF IsLeft

-----------------------------------------------------------------------------
(* The inductive invariant.                                                *)

\* The places of the buckets behind the first k, and those of the rows of the
\* next bucket behind the first m.
Todo(k) == UNION {BucketPlaces(Planned[i]) : i \in k + 1 .. Len(Planned)}

RowsTodo(b, m) == {PlaceIn(b, ReadRows(b)[j]) : j \in m + 1 .. Len(ReadRows(b))}

TodoAt(k, m) == RowsTodo(Planned[k + 1], m) \cup Todo(k + 1)

\* With the places of T still to come, e has all of the others, and the
\* cursor has been met or is to come.
Delivers(e, s, T) ==
  IF CursorHeld
  THEN /\ Len(e) = Cardinality(Rest \ T)
       /\ e = [i \in 1 .. Len(e) |-> Expected[i]]
       /\ s \/ (cursor # <<>> /\ Cursor \in T)
  ELSE e = <<>> /\ ~s

Inputs ==
  /\ table \in Tables /\ range \in Ranges
  /\ cursor = <<>> \/ \E c \in Places(table) : cursor = <<c>>

AtBucket(bs, k) == k \in 0 .. Len(Planned) /\ bs = From(Planned, k)

AtRow(bs, rs, k, m) ==
  /\ k < Len(Planned) /\ AtBucket(bs, k)
  /\ m \in 0 .. Len(ReadRows(Planned[k + 1])) /\ rs = From(ReadRows(Planned[k + 1]), m)

IInv ==
  /\ TypeOK /\ Inputs
  /\ phase = "plan" => Delivers(emitted, seen, Asked)
  /\ phase = "bucket" =>
       ~Empty /\ \E k \in 0 .. Len(Planned) : AtBucket(buckets, k) /\ Delivers(emitted, seen, Todo(k))
  /\ phase = "rows" =>
       ~Empty /\ \E k \in 0 .. Len(Planned) - 1 : \E m \in 0 .. Len(ReadRows(Planned[k + 1])) :
                   AtRow(buckets, rows, k, m) /\ Delivers(emitted, seen, TodoAt(k, m))
  /\ OutputExact /\ StaleCursorFails

-----------------------------------------------------------------------------
(* The cursor's key and those of the rows.                                 *)

LEMMA PrefixFacts ==
  ASSUME NEW c \in Times, NEW d \in Times
  PROVE  /\ BucketPrefix(c) \in Int
         /\ BucketPrefix(c) < BucketPrefix(d) <=> c < d
         /\ BucketPrefix(c) = BucketPrefix(d) <=> c = d
<1>1. Half \in Nat /\ \A x \in Times : x \in Int /\ -Half <= x /\ x < Half
  BY TimesFacts
<1>2. \A x \in Times : BucketPrefix(x) = x + Half
  <2>1. SUFFICES ASSUME NEW x \in Times PROVE (x + Half) % (2 * Half) = x + Half
    BY DEF BucketPrefix
  <2>2. x + Half \in 0 .. 2 * Half - 1
    BY <1>1
  <2>3. QED
    BY <1>1, <2>2
<1>3. QED
  BY <1>1, <1>2

LEMMA HeadJoined ==
  ASSUME NEW z \in Int, NEW q \in Seq(Int)
  PROVE  /\ <<z>> \in Seq(Int) /\ <<z>> \o q \in Seq(Int) /\ <<z>> \o q # <<>>
         /\ (<<z>> \o q)[1] = z /\ Len(<<z>> \o q) = 1 + Len(q)
         /\ \A i \in 1 .. Len(q) : (<<z>> \o q)[i + 1] = q[i]
<1> DEFINE h == <<z>>
           w == h \o q
<1>1. h \in Seq(Int) /\ Len(h) = 1 /\ h[1] = z
  OBVIOUS
<1>2. Len(q) \in Nat
  OBVIOUS
<1> HIDE DEF h
<1>3. /\ w \in Seq(Int) /\ Len(w) = Len(h) + Len(q)
      /\ \A i \in 1 .. Len(h) + Len(q) : w[i] = IF i <= Len(h) THEN h[i] ELSE q[i - Len(h)]
  BY <1>1, ConcatProperties, Zenon
<1> HIDE DEF w
<1>4. Len(w) = 1 + Len(q) /\ w # <<>>
  BY <1>1, <1>2, <1>3
<1>5. w[1] = z
  <2>1. 1 \in 1 .. Len(h) + Len(q) /\ 1 <= Len(h)
    BY <1>1, <1>2
  <2>2. QED
    BY <1>1, <1>3, <2>1
<1>6. ASSUME NEW i \in 1 .. Len(q) PROVE w[i + 1] = q[i]
  <2>1. i + 1 \in 1 .. Len(h) + Len(q) /\ ~(i + 1 <= Len(h)) /\ (i + 1) - Len(h) = i
    BY <1>1, <1>2
  <2>2. QED
    BY <1>3, <2>1
<1>7. QED
  BY <1>1, <1>3, <1>4, <1>5, <1>6 DEF w, h

HeadFirst(x, y, a, b) ==
  /\ Precedes(<<x>> \o a, <<y>> \o b) <=> x < y \/ (x = y /\ Precedes(a, b))
  /\ <<x>> \o a = <<y>> \o b <=> x = y /\ a = b

LEMMA HeadDecides ==
  ASSUME NEW x \in Int, NEW y \in Int, NEW a \in Seq(Int), NEW b \in Seq(Int)
  PROVE  HeadFirst(x, y, a, b)
<1> DEFINE s == <<x>> \o a
           t == <<y>> \o b
<1>1. /\ s \in Seq(Int) /\ t \in Seq(Int) /\ s # <<>> /\ t # <<>> /\ s[1] = x /\ t[1] = y
      /\ <<x>> \in Seq(Int)
  BY HeadJoined
<1>2. s = t => x = y /\ a = b
  <2>1. /\ Len(s) = 1 + Len(a) /\ \A i \in 1 .. Len(a) : s[i + 1] = a[i]
        /\ Len(t) = 1 + Len(b) /\ \A i \in 1 .. Len(b) : t[i + 1] = b[i]
    BY HeadJoined
  <2> HIDE DEF s, t
  <2>2. ASSUME s = t PROVE a = b
    <3>1. Len(a) = Len(b)
      <4>1. Len(a) \in Nat /\ Len(b) \in Nat
        OBVIOUS
      <4>2. 1 + Len(a) = 1 + Len(b)
        BY <2>1, <2>2, Zenon
      <4>3. QED
        BY <4>1, <4>2
    <3>2. \A i \in 1 .. Len(a) : a[i] = b[i]
      BY <2>1, <2>2, <3>1, Zenon
    <3>3. QED
      BY <3>1, <3>2, SeqEqual
  <2>3. QED
    BY <1>1, <2>2
<1>3. x = y => (Precedes(s, t) <=> Precedes(a, b))
  BY <1>1, PrecedesBehind
<1> HIDE DEF s, t
<1>4. x < y => Precedes(s, t)
  BY <1>1, PrecedesAtOnce
<1>5. y < x => ~Precedes(s, t)
  <2>1. y < x => Precedes(t, s)
    BY <1>1, PrecedesAtOnce
  <2>2. QED
    BY <1>1, <2>1, PrecedesAsymmetric
<1>6. x = y /\ a = b => s = t
  BY DEF s, t
<1>7. x < y \/ x = y \/ y < x
  OBVIOUS
<1>8. Precedes(s, t) <=> x < y \/ (x = y /\ Precedes(a, b))
  BY <1>3, <1>4, <1>5, <1>7
<1>9. QED
  BY <1>2, <1>6, <1>8 DEF s, t, HeadFirst

LEMMA CursorFacts ==
  ASSUME Inputs, cursor # <<>>
  PROVE  /\ Cursor = [chunk |-> Cursor.chunk, series |-> Cursor.series, ts |-> Cursor.ts]
         /\ Cursor.chunk \in Times /\ Cursor.ts \in Int
         /\ IsSeries(Cursor.series)
         /\ Cursor.series = <<>> \/ Cursor.series \in {r.series : r \in RowsOf(table)}
         /\ OrderKey(Cursor.series) \in Seq(Int)
<1>1. PICK c \in Places(table) : cursor = <<c>>
  BY DEF Inputs
<1>2. Cursor = c /\ table \in Tables
  BY <1>1 DEF Cursor, Inputs
<1>3. c \in [chunk : ChunksOf(table) \cup {0}, series : {r.series : r \in RowsOf(table)} \cup {<<>>},
             ts : {r.ts : r \in RowsOf(table)} \cup {0}]
  BY DEF Places
<1>4. /\ c = [chunk |-> c.chunk, series |-> c.series, ts |-> c.ts]
      /\ c.chunk \in ChunksOf(table) \cup {0}
      /\ c.series \in {r.series : r \in RowsOf(table)} \cup {<<>>}
      /\ c.ts \in {r.ts : r \in RowsOf(table)} \cup {0}
  BY <1>3
<1>5. 0 \in Times
  BY TimesFacts DEF Times
<1>6. c.chunk \in Times
  BY <1>2, <1>4, <1>5, ChunksFinite
<1>7. \A r \in RowsOf(table) : r.ts \in Int
  <2>1. \A f \in FilesOf(table) : \A r \in f.rows : r.ts \in Int
    BY <1>2, TableFacts, TimesFacts
  <2>2. \A x \in table.extra : x.ts \in Int
    BY <1>2, TableFacts, TimesFacts
  <2>3. QED
    BY <2>1, <2>2 DEF RowsOf
<1>8. c.ts \in Int
  BY <1>4, <1>7
<1>9. IsSeries(<<>>)
  <2>1. <<>> \in Seq(Seq(Seq(Bytes))) /\ DOMAIN <<>> = {}
    BY EmptySeq
  <2>2. QED
    BY <2>1 DEF IsSeries
<1>10. IsSeries(c.series)
  BY <1>2, <1>4, <1>9, TableFacts
<1>11. QED
  BY <1>2, <1>4, <1>6, <1>8, <1>10, KeyParts

KeyIn(b, r) == <<BucketPrefix(b.chunk)>> \o r.key

(* A row is at the cursor if its place is the cursor's; it is behind the   *)
(* cursor, or at it, if the cursor does not come before its place.         *)
LEMMA CursorMeets ==
  ASSUME Inputs, cursor # <<>>, NEW b, Homes(b), b.chunk \in Times, NEW r \in RowSet(b)
  PROVE  /\ KeyIn(b, r) = CursorKey /\ r.ts = Cursor.ts <=> PlaceIn(b, r) = Cursor
         /\ CursorHeld =>
              (\/ Precedes(KeyIn(b, r), CursorKey)
               \/ KeyIn(b, r) = CursorKey /\ r.ts <= Cursor.ts)
              <=> ~PlaceBefore(Cursor, PlaceIn(b, r))
<1> DEFINE p == PlaceIn(b, r)
           c == Cursor
<1>0. table \in Tables /\ r \in AllRows(b) /\ CutFrom(b)
  BY HomesCut DEF Inputs, RowSet, AllRows
<1>1. /\ r.key = OrderKey(r.series) /\ r.key \in Seq(Int) /\ r.ts \in Int
      /\ r.series \in {s.series : s \in RowsOf(table)} /\ IsSeries(r.series)
  BY <1>0, RowFacts, TimesFacts
<1>2. /\ c = [chunk |-> c.chunk, series |-> c.series, ts |-> c.ts]
      /\ c.chunk \in Times /\ c.ts \in Int /\ OrderKey(c.series) \in Seq(Int)
      /\ c.series = <<>> \/ c.series \in {s.series : s \in RowsOf(table)}
  BY CursorFacts
<1>3. p = [chunk |-> b.chunk, series |-> r.series, ts |-> r.ts]
  BY DEF PlaceIn
<1>4. /\ BucketPrefix(b.chunk) \in Int /\ BucketPrefix(c.chunk) \in Int
      /\ BucketPrefix(b.chunk) < BucketPrefix(c.chunk) <=> b.chunk < c.chunk
      /\ BucketPrefix(b.chunk) = BucketPrefix(c.chunk) <=> b.chunk = c.chunk
  BY <1>2, PrefixFacts
<1>5. CursorKey = <<BucketPrefix(c.chunk)>> \o OrderKey(c.series)
  BY DEF CursorKey, SeriesKey
<1> HIDE DEF c
<1>6. /\ Precedes(KeyIn(b, r), CursorKey)
           <=> b.chunk < c.chunk \/ (b.chunk = c.chunk /\ Precedes(r.key, OrderKey(c.series)))
      /\ KeyIn(b, r) = CursorKey <=> b.chunk = c.chunk /\ r.key = OrderKey(c.series)
  <2> DEFINE x == BucketPrefix(b.chunk)
             y == BucketPrefix(c.chunk)
             k == OrderKey(c.series)
             l == r.key
  <2>1. x \in Int /\ y \in Int /\ k \in Seq(Int) /\ l \in Seq(Int)
    BY <1>1, <1>2, <1>4
  <2> HIDE DEF x, y, k, l
  <2>2. HeadFirst(x, y, l, k)
    BY <2>1, HeadDecides, Zenon
  <2>3. QED
    BY <1>4, <1>5, <2>2 DEF x, y, k, l, KeyIn, HeadFirst
<1>7. r.key = OrderKey(c.series) <=> r.series = c.series
  <2>1. CASE c.series = <<>>
    BY <1>1, <2>1, EmptyKey
  <2>2. CASE c.series \in {s.series : s \in RowsOf(table)}
    BY <1>0, <1>1, <2>2, TableLengths
  <2>3. QED
    BY <1>2, <2>1, <2>2
<1>8. KeyIn(b, r) = CursorKey /\ r.ts = c.ts <=> p = c
  <2>1. p = c <=> b.chunk = c.chunk /\ r.series = c.series /\ r.ts = c.ts
    BY <1>2, <1>3
  <2>2. QED
    BY <1>6, <1>7, <2>1
<1>9. ASSUME CursorHeld
      PROVE  (Precedes(KeyIn(b, r), CursorKey) \/ (KeyIn(b, r) = CursorKey /\ r.ts <= c.ts))
             <=> ~PlaceBefore(c, p)
  <2>1. IsPlace(c)
    BY <1>0, <1>9, AskedPlaces DEF CursorHeld, c
  <2>2. IsPlace(p)
    BY <1>0, AskedPlaces, RowsAsked
  <2>3. PlaceBefore(c, p) <=>
          \/ c.chunk < b.chunk
          \/ c.chunk = b.chunk /\ Precedes(OrderKey(c.series), r.key)
          \/ c.chunk = b.chunk /\ OrderKey(c.series) = r.key /\ c.ts < r.ts
    BY <1>0, <1>1, <1>3, <2>1, <2>2, PlaceByKey DEF KeyBefore
  <2> DEFINE k == OrderKey(c.series)
  <2>4. k = r.key \/ Precedes(k, r.key) \/ Precedes(r.key, k)
    BY <1>1, <1>2, PrecedesTotal
  <2>5. /\ Precedes(k, r.key) => ~Precedes(r.key, k) /\ k # r.key
        /\ Precedes(r.key, k) => k # r.key
    BY <1>1, <1>2, PrecedesAsymmetric
  <2>6. c.chunk \in Int /\ b.chunk \in Int
    BY <1>2, TimesFacts
  <2> HIDE DEF k
  <2>7. QED
    BY <1>1, <1>2, <1>6, <2>3, <2>4, <2>5, <2>6 DEF k
<1>10. QED
  BY <1>8, <1>9 DEF c

-----------------------------------------------------------------------------
(* What is still to come.                                                  *)

PlanSet == {Planned[i] : i \in 1 .. Len(Planned)}

LEMMA PlanSeq ==
  ASSUME table \in Tables, ~Empty
  PROVE  Planned \in Seq(PlanSet)
<1>1. Len(Planned) \in Nat /\ Planned = [i \in 1 .. Len(Planned) |-> Planned[i]]
  BY PlanFacts
<1>2. Planned \in [1 .. Len(Planned) -> PlanSet]
  BY <1>1 DEF PlanSet
<1>3. QED
  BY <1>1, <1>2

LEMMA TodoFacts ==
  ASSUME table \in Tables, ~Empty
  PROVE  /\ Todo(0) = Asked /\ Todo(Len(Planned)) = {}
         /\ \A k \in 0 .. Len(Planned) - 1 :
              Todo(k) = BucketPlaces(Planned[k + 1]) \cup Todo(k + 1)
<1> DEFINE L == Len(Planned)
           part(i) == BucketPlaces(Planned[i])
<1>1. L \in Nat /\ \A i \in 1 .. L : Homes(Planned[i])
  BY PlanFacts
<1>2. \A k : \A p : p \in Todo(k) <=> \E i \in k + 1 .. L : p \in part(i)
  BY DEF Todo
<1>3. Todo(0) \subseteq Asked
  <2>1. SUFFICES ASSUME NEW p \in Todo(0) PROVE p \in Asked
    OBVIOUS
  <2>2. PICK i \in 1 .. L : p \in BucketPlaces(Planned[i])
    BY <1>2
  <2>3. PICK r \in RowSet(Planned[i]) : p = PlaceIn(Planned[i], r)
    BY <2>2 DEF BucketPlaces
  <2>4. QED
    BY <1>1, <2>3, RowsAsked
<1>4. Asked \subseteq Todo(0)
  <2>1. SUFFICES ASSUME NEW p \in Asked PROVE p \in Todo(0)
    OBVIOUS
  <2>2. PICK i \in 1 .. L : p \in BucketPlaces(Planned[i])
    BY AskedRead
  <2>3. QED
    BY <1>2, <2>2
<1>5. Todo(L) = {}
  <2>1. L + 1 .. L = {}
    BY <1>1
  <2>2. QED
    BY <1>2, <2>1
<1>6. ASSUME NEW k \in 0 .. L - 1 PROVE Todo(k) = part(k + 1) \cup Todo(k + 1)
  <2>1. k + 1 .. L = {k + 1} \cup ((k + 1) + 1 .. L)
    BY <1>1
  <2> HIDE DEF part
  <2>2. QED
    BY <1>2, <2>1
<1>7. QED
  BY <1>3, <1>4, <1>5, <1>6

LEMMA RowsTodoFacts ==
  ASSUME table \in Tables, NEW b, CutFrom(b)
  PROVE  /\ RowsTodo(b, 0) = BucketPlaces(b) /\ RowsTodo(b, Len(ReadRows(b))) = {}
         /\ \A m \in 0 .. Len(ReadRows(b)) - 1 :
              RowsTodo(b, m) = {PlaceIn(b, ReadRows(b)[m + 1])} \cup RowsTodo(b, m + 1)
<1> DEFINE q == ReadRows(b)
           L == Len(q)
           place(j) == PlaceIn(b, q[j])
<1>1. /\ L \in Nat /\ \A j \in 1 .. L : q[j] \in RowSet(b)
      /\ \A r \in RowSet(b) : \E j \in 1 .. L : q[j] = r
  BY SortedRows
<1>2. \A m : RowsTodo(b, m) = {place(j) : j \in m + 1 .. L}
  BY DEF RowsTodo
<1>3. BucketPlaces(b) = {place(j) : j \in 1 .. L}
  <2> HIDE DEF q, L
  <2> QED BY <1>1 DEF BucketPlaces
<1> HIDE DEF place, L
<1>4. RowsTodo(b, 0) = BucketPlaces(b)
  <2>1. 0 + 1 .. L = 1 .. L
    OBVIOUS
  <2>2. QED
    BY <1>2, <1>3, <2>1
<1>5. RowsTodo(b, L) = {}
  <2>1. L + 1 .. L = {}
    BY <1>1
  <2>2. QED
    BY <1>2, <2>1
<1>6. ASSUME NEW m \in 0 .. L - 1 PROVE RowsTodo(b, m) = {place(m + 1)} \cup RowsTodo(b, m + 1)
  <2>1. m + 1 .. L = {m + 1} \cup ((m + 1) + 1 .. L)
    BY <1>1
  <2>2. QED
    BY <1>2, <2>1
<1>7. QED
  BY <1>4, <1>5, <1>6 DEF L, place

\* Row m + 1 has a newer row of its place behind it.
OlderAt(b, m) ==
  /\ m + 1 < Len(ReadRows(b))
  /\ ReadRows(b)[m + 2].key = ReadRows(b)[m + 1].key
  /\ ReadRows(b)[m + 2].ts = ReadRows(b)[m + 1].ts

(* A row behind row m + 1 is at its place only if the next row is.         *)
LEMMA NextOfPlace ==
  ASSUME table \in Tables, NEW b, CutFrom(b), NEW m \in 0 .. Len(ReadRows(b)) - 1,
         NEW j \in m + 2 .. Len(ReadRows(b)),
         ReadRows(b)[j].key = ReadRows(b)[m + 1].key, ReadRows(b)[j].ts = ReadRows(b)[m + 1].ts
  PROVE  OlderAt(b, m)
<1> DEFINE q == ReadRows(b)
           L == Len(q)
           r == q[m + 1]
           s == q[m + 2]
           t == q[j]
<1>1. /\ L \in Nat /\ \A i \in 1 .. L : q[i] \in AllRows(b)
      /\ \A i, n \in 1 .. L : RowBefore(q[i], q[n]) <=> i < n
  BY SortedRows, RowsFinite
<1>2. m + 1 \in 1 .. L /\ m + 2 \in 1 .. L /\ j \in 1 .. L /\ m + 1 < m + 2 /\ m + 1 < L
  BY <1>1
<1>3. /\ r.key \in Seq(Int) /\ r.ts \in Int
      /\ s.key \in Seq(Int) /\ s.ts \in Int
      /\ t.key \in Seq(Int) /\ t.ts \in Int
  BY <1>1, <1>2, RowFacts, TimesFacts
<1>4. RowBefore(r, s)
  BY <1>1, <1>2
<1>5. s = t \/ RowBefore(s, t)
  <2>1. j = m + 2 \/ m + 2 < j
    BY <1>1
  <2>2. QED
    BY <1>1, <1>2, <2>1
<1>6. t.key = r.key /\ t.ts = r.ts
  OBVIOUS
<1> HIDE DEF r, s, t
<1>7. s.key = r.key /\ s.ts = r.ts
  <2>1. CASE s = t
    BY <1>6, <2>1
  <2>2. CASE RowBefore(s, t)
    <3>1. Precedes(r.key, s.key) \/ (r.key = s.key /\ (r.ts < s.ts \/ r.ts = s.ts))
      BY <1>4 DEF RowBefore
    <3>2. Precedes(s.key, r.key) \/ (s.key = r.key /\ (s.ts < r.ts \/ s.ts = r.ts))
      BY <1>6, <2>2 DEF RowBefore
    <3>3. ~(Precedes(r.key, s.key) /\ Precedes(s.key, r.key))
      BY <1>3, PrecedesAsymmetric
    <3>4. Precedes(r.key, s.key) => r.key # s.key
      BY <1>3, PrecedesAsymmetric
    <3>5. Precedes(s.key, r.key) => r.key # s.key
      BY <1>3, PrecedesAsymmetric
    <3>6. QED
      BY <1>3, <3>1, <3>2, <3>3, <3>4, <3>5
  <2>3. QED
    BY <1>5, <2>1, <2>2
<1>8. QED
  BY <1>2, <1>7 DEF OlderAt, r, s

LEMMA NewestAt ==
  ASSUME table \in Tables, NEW b, Homes(b), NEW m \in 0 .. Len(ReadRows(b)) - 1, ~OlderAt(b, m)
  PROVE  /\ Newest(PlaceIn(b, ReadRows(b)[m + 1])) = ReadRows(b)[m + 1].src
         /\ PlaceIn(b, ReadRows(b)[m + 1]) \notin RowsTodo(b, m + 1)
<1> DEFINE q == ReadRows(b)
           L == Len(q)
           r == q[m + 1]
<1>0. CutFrom(b)
  BY HomesCut
<1>1. /\ L \in Nat /\ \A i \in 1 .. L : q[i] \in RowSet(b)
      /\ \A i, n \in 1 .. L : RowBefore(q[i], q[n]) <=> i < n
      /\ \A s \in RowSet(b) : \E i \in 1 .. L : q[i] = s
      /\ RowSet(b) \subseteq AllRows(b)
  BY <1>0, SortedRows, RowsFinite
<1>2. m + 1 \in 1 .. L /\ r \in RowSet(b)
  BY <1>1
<1>3. \A s \in RowSet(b) : s.key = OrderKey(s.series)
  BY <1>0, <1>1, RowFacts
<1>4. ASSUME NEW j \in m + 2 .. L PROVE q[j].series # r.series \/ q[j].ts # r.ts
  <2>1. j \in 1 .. L
    BY <1>1
  <2>2. q[j].key = OrderKey(q[j].series) /\ r.key = OrderKey(r.series)
    BY <1>1, <1>2, <1>3, <2>1
  <2>3. ~(q[j].key = r.key /\ q[j].ts = r.ts)
    BY <1>0, NextOfPlace
  <2>4. QED
    BY <2>2, <2>3
<1>5. ASSUME NEW s \in RowSet(b), s.series = r.series, s.ts = r.ts PROVE ~(r.rank < s.rank)
  <2>1. SUFFICES ASSUME r.rank < s.rank PROVE FALSE
    OBVIOUS
  <2>2. PICK j \in 1 .. L : q[j] = s
    BY <1>1
  <2>3. s.key = r.key
    BY <1>2, <1>3, <1>5
  <2>4. RowBefore(r, s)
    BY <1>5, <2>1, <2>3 DEF RowBefore
  <2>5. m + 1 < j
    BY <1>1, <1>2, <2>2, <2>4
  <2>6. j \in m + 2 .. L
    BY <1>1, <2>5
  <2>7. QED
    BY <1>4, <1>5, <2>2, <2>6
<1>6. Newest(PlaceIn(b, r)) = r.src
  <2> HIDE DEF r
  <2> QED BY <1>2, <1>5, NewestRow
<1>7. PlaceIn(b, r) \notin RowsTodo(b, m + 1)
  <2>1. SUFFICES ASSUME NEW j \in (m + 1) + 1 .. L, PlaceIn(b, r) = PlaceIn(b, q[j]) PROVE FALSE
    BY DEF RowsTodo
  <2>2. j \in m + 2 .. L
    BY <1>1
  <2>3. r.series = q[j].series /\ r.ts = q[j].ts
    <3> HIDE DEF r, q
    <3> QED BY <2>1 DEF PlaceIn
  <2>4. QED
    BY <1>4, <2>2, <2>3
<1>8. QED
  BY <1>6, <1>7

(* An earlier row of a bucket is at an earlier place, or at the same one.  *)
LEMMA RowPlaces ==
  ASSUME table \in Tables, NEW b, Homes(b), b.chunk \in Times,
         NEW r \in RowSet(b), NEW s \in RowSet(b), RowBefore(r, s)
  PROVE  PlaceIn(b, r) = PlaceIn(b, s) \/ PlaceBefore(PlaceIn(b, r), PlaceIn(b, s))
<1> DEFINE p == PlaceIn(b, r)
           q == PlaceIn(b, s)
<1>1. CutFrom(b) /\ r \in AllRows(b) /\ s \in AllRows(b)
  BY HomesCut, RowsFinite
<1>2. /\ r.key = OrderKey(r.series) /\ r.series \in {u.series : u \in RowsOf(table)}
      /\ s.key = OrderKey(s.series) /\ s.series \in {u.series : u \in RowsOf(table)}
  BY <1>1, RowFacts
<1>3. r.key = s.key => r.series = s.series
  BY <1>2, TableLengths
<1>4. IsPlace(p) /\ IsPlace(q)
  BY AskedPlaces, RowsAsked
<1>5. /\ p = [chunk |-> b.chunk, series |-> r.series, ts |-> r.ts]
      /\ q = [chunk |-> b.chunk, series |-> s.series, ts |-> s.ts]
  BY DEF PlaceIn
<1> HIDE DEF p, q
<1>6. p.chunk = b.chunk /\ p.series = r.series /\ p.ts = r.ts
      /\ q.chunk = b.chunk /\ q.series = s.series /\ q.ts = s.ts
  BY <1>5
<1>7. \/ Precedes(r.key, s.key)
      \/ r.key = s.key /\ r.ts < s.ts
      \/ r.key = s.key /\ r.ts = s.ts
  BY DEF RowBefore
<1>8. KeyBefore(p, q) \/ p = q
  BY <1>2, <1>3, <1>5, <1>6, <1>7 DEF KeyBefore
<1>9. QED
  BY <1>4, <1>8, PlaceByKey DEF p, q

LEMMA LaterBuckets ==
  ASSUME table \in Tables, ~Empty, NEW k \in 0 .. Len(Planned) - 1, NEW p, p.chunk = Planned[k + 1].chunk,
         NEW x \in Todo(k + 1)
  PROVE  PlaceBefore(p, x) /\ p # x
<1>1. PICK i \in (k + 1) + 1 .. Len(Planned) : x \in BucketPlaces(Planned[i])
  BY DEF Todo
<1>2. /\ Len(Planned) \in Nat /\ k + 1 \in 1 .. Len(Planned) /\ i \in 1 .. Len(Planned) /\ k + 1 < i
  BY <1>1, PlanFacts
<1>3. x.chunk = Planned[i].chunk
  BY <1>1 DEF BucketPlaces, PlaceIn
<1>4. Planned[k + 1].chunk < Planned[i].chunk
  BY <1>2, PlanFacts
<1>5. Planned[k + 1].chunk \in Int /\ Planned[i].chunk \in Int
  BY <1>2, PlanFacts, TimesFacts
<1>6. QED
  BY <1>3, <1>4, <1>5 DEF PlaceBefore

(* With the first m rows of the bucket behind it, the next row's place is  *)
(* the first of those to come, and all of the others come before it.       *)
LEMMA PlaceInTurn ==
  ASSUME table \in Tables, ~Empty, NEW k \in 0 .. Len(Planned) - 1,
         NEW m \in 0 .. Len(ReadRows(Planned[k + 1])) - 1
  PROVE  LET p == PlaceIn(Planned[k + 1], ReadRows(Planned[k + 1])[m + 1])
         IN  /\ p \in Asked /\ p \in TodoAt(k, m)
             /\ TodoAt(k, m) = {p} \cup TodoAt(k, m + 1)
             /\ \A x \in TodoAt(k, m) : x = p \/ PlaceBefore(p, x)
             /\ \A x \in Asked \ TodoAt(k, m) : PlaceBefore(x, p)
             /\ p \in TodoAt(k, m + 1) <=> OlderAt(Planned[k + 1], m)
<1> DEFINE b == Planned[k + 1]
           q == ReadRows(b)
           L == Len(q)
           r == q[m + 1]
           p == PlaceIn(b, r)
           T == TodoAt(k, m)
<1>1. /\ Len(Planned) \in Nat /\ k + 1 \in 1 .. Len(Planned)
      /\ Homes(b) /\ b.chunk \in Times /\ CutFrom(b)
  BY PlanFacts, HomesCut
<1> HIDE DEF b
<1>2. /\ L \in Nat /\ \A i \in 1 .. L : q[i] \in RowSet(b)
      /\ \A i, n \in 1 .. L : RowBefore(q[i], q[n]) <=> i < n
  BY <1>1, SortedRows
<1>3. m \in 0 .. L - 1
  BY DEF b
<1>4. m + 1 \in 1 .. L /\ r \in RowSet(b)
  BY <1>2, <1>3
<1>5. p \in Asked
  BY <1>1, <1>4, RowsAsked
<1>6. RowsTodo(b, m) = {p} \cup RowsTodo(b, m + 1)
  BY <1>1, <1>3, RowsTodoFacts
<1>7. TodoAt(k, m) = RowsTodo(b, m) \cup Todo(k + 1) /\ TodoAt(k, m + 1) = RowsTodo(b, m + 1) \cup Todo(k + 1)
  BY DEF TodoAt, b
<1>8. p.chunk = b.chunk
  BY DEF PlaceIn
<1>9. ASSUME NEW x \in Todo(k + 1) PROVE PlaceBefore(p, x) /\ p # x
  <2>1. p.chunk = Planned[k + 1].chunk
    BY <1>8 DEF b
  <2> HIDE DEF p
  <2>2. QED
    BY <2>1, LaterBuckets
<1>10. ASSUME NEW x \in RowsTodo(b, m) PROVE x = p \/ PlaceBefore(p, x)
  <2>1. PICK j \in m + 1 .. L : x = PlaceIn(b, q[j])
    BY DEF RowsTodo
  <2>2. j \in 1 .. L /\ (j = m + 1 \/ m + 1 < j)
    BY <1>2, <1>3
  <2>3. CASE j = m + 1
    BY <2>1, <2>3
  <2>4. CASE m + 1 < j
    <3>1. RowBefore(r, q[j]) /\ q[j] \in RowSet(b)
      BY <1>2, <1>4, <2>2, <2>4
    <3> HIDE DEF r, q
    <3>2. QED
      BY <1>1, <1>4, <2>1, <3>1, RowPlaces DEF p
  <2>5. QED
    BY <2>2, <2>3, <2>4
<1>11. ASSUME NEW x \in Asked, x \notin T PROVE PlaceBefore(x, p)
  <2>1. PICK i \in 1 .. Len(Planned) : x.chunk = Planned[i].chunk /\ x \in BucketPlaces(Planned[i])
    BY AskedRead
  <2>2. ~(i \in (k + 1) + 1 .. Len(Planned))
    <3>1. x \notin Todo(k + 1)
      BY <1>7, <1>11
    <3>2. QED
      BY <2>1, <3>1 DEF Todo
  <2>3. i = k + 1 \/ i < k + 1
    BY <1>1, <2>2
  <2>4. CASE i < k + 1
    <3>1. Planned[i].chunk < b.chunk
      BY <1>1, <2>4, PlanFacts DEF b
    <3>2. QED
      BY <1>8, <2>1, <3>1 DEF PlaceBefore
  <2>5. CASE i = k + 1
    <3>1. x \in RowsTodo(b, 0)
      BY <1>1, <2>1, <2>5, RowsTodoFacts DEF b
    <3>2. PICK j \in 0 + 1 .. L : x = PlaceIn(b, q[j])
      BY <3>1 DEF RowsTodo
    <3>3. j \in 1 .. L /\ j < m + 1
      <4>1. ~(j \in m + 1 .. L)
        BY <1>7, <1>11, <3>2 DEF RowsTodo
      <4>2. QED
        BY <1>2, <1>3, <4>1
    <3>4. RowBefore(q[j], r) /\ q[j] \in RowSet(b)
      BY <1>2, <1>4, <3>3
    <3> DEFINE s == q[j]
    <3>5. RowBefore(s, r) /\ s \in RowSet(b) /\ x = PlaceIn(b, s)
      BY <3>2, <3>4
    <3> HIDE DEF s, r, q
    <3>6. x = p \/ PlaceBefore(x, p)
      BY <1>1, <1>4, <3>5, RowPlaces DEF p
    <3>7. x # p
      BY <1>6, <1>7, <1>11
    <3>8. QED
      BY <3>6, <3>7
  <2>6. QED
    BY <2>3, <2>4, <2>5
<1>12. ASSUME OlderAt(b, m) PROVE p \in TodoAt(k, m + 1)
  <2>1. m + 1 \in 0 .. L - 1 /\ m + 2 \in 1 .. L /\ q[m + 2].key = r.key /\ q[m + 2].ts = r.ts
        /\ (m + 1) + 1 = m + 2
    BY <1>2, <1>3, <1>12 DEF OlderAt
  <2>2. PlaceIn(b, q[m + 2]) \in RowsTodo(b, m + 1)
    BY <1>1, <2>1, RowsTodoFacts
  <2>3. q[m + 2].series = r.series
    <3> DEFINE s == q[m + 2]
    <3>1. s \in AllRows(b) /\ r \in AllRows(b) /\ s.key = r.key
      BY <1>1, <1>2, <1>4, <2>1, RowsFinite
    <3> HIDE DEF s, r
    <3>2. /\ r.key = OrderKey(r.series) /\ r.series \in {u.series : u \in RowsOf(table)}
          /\ s.key = OrderKey(s.series) /\ s.series \in {u.series : u \in RowsOf(table)}
      BY <1>1, <3>1, RowFacts
    <3>3. s.series = r.series
      BY <3>1, <3>2, TableLengths
    <3>4. QED
      BY <3>3 DEF s
  <2>4. PlaceIn(b, q[m + 2]) = p
    BY <2>1, <2>3 DEF PlaceIn
  <2>5. QED
    BY <1>7, <2>2, <2>4
<1>13. ASSUME ~OlderAt(b, m) PROVE p \notin TodoAt(k, m + 1)
  <2>1. p \notin RowsTodo(b, m + 1)
    BY <1>1, <1>3, <1>13, NewestAt
  <2>2. QED
    BY <1>7, <1>9, <2>1
<1>14. /\ p \in Asked /\ p \in T /\ T = {p} \cup TodoAt(k, m + 1)
       /\ \A x \in T : x = p \/ PlaceBefore(p, x)
       /\ \A x \in Asked \ T : PlaceBefore(x, p)
       /\ p \in TodoAt(k, m + 1) <=> OlderAt(b, m)
  <2> HIDE DEF p
  <2> QED BY <1>5, <1>6, <1>7, <1>9, <1>10, <1>11, <1>12, <1>13
<1>15. QED
  BY <1>14 DEF b
-----------------------------------------------------------------------------
(* What has been emitted.                                                  *)

LEMMA EmittedPrefix ==
  ASSUME table \in Tables, CursorHeld, NEW e, NEW s, NEW T, Delivers(e, s, T)
  PROVE  /\ Len(e) \in 0 .. Cardinality(Rest) /\ e \in Seq({Expected[i] : i \in 1 .. Cardinality(Rest)})
         /\ IsPrefix(e, Expected)
         /\ Rest \cap T = {} => e = Expected
<1> DEFINE L == Cardinality(Rest)
           P == {Expected[i] : i \in 1 .. L}
<1>1. Len(e) = Cardinality(Rest \ T) /\ e = [i \in 1 .. Len(e) |-> Expected[i]]
  BY DEF Delivers
<1>2. L \in Nat /\ Len(Expected) = L /\ Expected = [i \in 1 .. L |-> Expected[i]]
  BY ExpectedAt
<1>3. IsFiniteSet(Rest)
  BY PlacesFinite
<1>4. Cardinality(Rest \ T) <= L /\ IsFiniteSet(Rest \ T)
  <2>1. (Rest \ T) \in SUBSET Rest
    OBVIOUS
  <2>2. QED
    BY <1>3, <2>1, FS_Subset
<1>5. Cardinality(Rest \ T) \in Nat
  BY <1>4, FS_CardinalityType
<1> HIDE DEF L
<1>6. Len(e) \in 0 .. L
  BY <1>1, <1>2, <1>4, <1>5
<1>7. e \in [1 .. Len(e) -> P]
  <2>1. \A i \in 1 .. Len(e) : Expected[i] \in P
    BY <1>2, <1>6
  <2> HIDE DEF P
  <2>2. QED
    BY <1>1, <2>1
<1>8. Expected \in [1 .. L -> P]
  <2>1. \A i \in 1 .. L : Expected[i] \in P
    OBVIOUS
  <2> HIDE DEF P
  <2>2. QED
    BY <1>2, <2>1
<1>9. e \in Seq(P) /\ Expected \in Seq(P)
  <2> HIDE DEF P
  <2> QED BY <1>2, <1>6, <1>7, <1>8
<1>10. \A i \in 1 .. Len(e) : e[i] = Expected[i]
  BY <1>1
<1> HIDE DEF P
<1>11. IsPrefix(e, Expected)
  <2>1. SubSeq(e, 1, Len(e)) = SubSeq(Expected, 1, Len(e))
    BY <1>2, <1>6, <1>9, <1>10
  <2>2. QED
    BY <1>2, <1>6, <2>1 DEF IsPrefix
<1>12. ASSUME Rest \cap T = {} PROVE e = Expected
  <2>1. Rest \ T = Rest
    BY <1>12
  <2>2. Len(e) = L
    BY <1>1, <2>1 DEF L
  <2>3. QED
    BY <1>1, <1>2, <2>2
<1>13. QED
  BY <1>6, <1>9, <1>11, <1>12 DEF L, P

(* Places that are not to be emitted are passed over.                      *)
LEMMA PassedOver ==
  ASSUME NEW e, NEW s, NEW u, NEW T, NEW V, Delivers(e, s, T),
         CursorHeld => Rest \ V = Rest \ T /\ (u \/ (cursor # <<>> /\ Cursor \in V)),
         ~CursorHeld => ~u
  PROVE  Delivers(e, u, V)
  BY DEF Delivers

(* The first of the places to come is emitted next.                        *)
LEMMA EmittedNext ==
  ASSUME table \in Tables, CursorHeld, NEW e, NEW s, s, NEW T, NEW V, Delivers(e, s, T),
         NEW p \in Rest, p \notin V, T = {p} \cup V,
         \A x \in T : x = p \/ PlaceBefore(p, x),
         \A x \in Asked \ T : PlaceBefore(x, p)
  PROVE  Delivers(Append(e, PointAt(p)), s, V)
<1> DEFINE n == Cardinality({y \in Rest : PlaceBefore(y, p)})
           L == Cardinality(Rest)
           P == {Expected[i] : i \in 1 .. L}
<1>1. Rest \subseteq Asked /\ IsFiniteSet(Rest)
  BY PlacesFinite
<1>2. \A x \in Rest : IsPlace(x)
  BY <1>1, AskedPlaces
<1>3. \A x \in Rest : PlaceBefore(x, p) => ~PlaceBefore(p, x) /\ x # p
  BY <1>2, PlacesOrdered
<1>4. {y \in Rest : PlaceBefore(y, p)} = Rest \ T
  BY <1>1, <1>3
<1>5. n + 1 \in 1 .. L /\ Expected[n + 1] = PointAt(p) /\ L \in Nat
  BY ExpectedAt
<1>6. Len(e) = n /\ e = [i \in 1 .. Len(e) |-> Expected[i]]
  BY <1>4 DEF Delivers
<1>7. Rest \ V = (Rest \ T) \cup {p} /\ p \notin Rest \ T
  OBVIOUS
<1>8. IsFiniteSet(Rest \ T)
  BY <1>1, FS_Subset
<1>9. Cardinality(Rest \ V) = n + 1
  BY <1>4, <1>7, <1>8, FS_AddElement
<1>10. e \in Seq(P)
  BY EmittedPrefix
<1>11. PointAt(p) \in P
  BY <1>5
<1> HIDE DEF n, L, P
<1>12. n \in Nat
  BY <1>6, <1>10
<1> DEFINE w == Append(e, PointAt(p))
<1>13. w \in Seq(P) /\ Len(w) = n + 1
  BY <1>6, <1>10, <1>11
<1>14. \A i \in 1 .. n + 1 : w[i] = Expected[i]
  <2>1. w[n + 1] = PointAt(p)
    BY <1>6, <1>10, <1>11
  <2>2. ASSUME NEW i \in 1 .. n PROVE w[i] = Expected[i]
    <3>1. w[i] = e[i]
      BY <1>6, <1>10, <1>11
    <3>2. e[i] = Expected[i]
      BY <1>6
    <3>3. QED
      BY <3>1, <3>2
  <2>3. QED
    <3> HIDE DEF w
    <3>1. \A i \in 1 .. n + 1 : i \in 1 .. n \/ i = n + 1
      BY <1>12
    <3>2. QED
      BY <1>5, <2>1, <2>2, <3>1, Zenon
<1> HIDE DEF w
<1>15. w = [i \in 1 .. Len(w) |-> w[i]]
  <2>1. w \in [1 .. Len(w) -> P]
    BY <1>13, LenProperties
  <2>2. QED
    BY <2>1
<1>16. w = [i \in 1 .. Len(w) |-> Expected[i]]
  BY <1>13, <1>14, <1>15
<1>17. Delivers(w, s, V)
  BY <1>9, <1>13, <1>16 DEF Delivers
<1>18. QED
  BY <1>17 DEF w

-----------------------------------------------------------------------------
(* The buckets and the rows left.                                          *)

LEMMA BucketsLeft ==
  ASSUME table \in Tables, ~Empty, NEW bs, NEW k \in 0 .. Len(Planned), AtBucket(bs, k)
  PROVE  /\ \A i \in DOMAIN bs : bs[i].chunk \in Times
         /\ bs = <<>> <=> k = Len(Planned)
         /\ bs # <<>> =>
              /\ k \in 0 .. Len(Planned) - 1 /\ k + 1 \in 0 .. Len(Planned)
              /\ Head(bs) = Planned[k + 1] /\ AtBucket(Tail(bs), k + 1)
              /\ Homes(Planned[k + 1]) /\ CutFrom(Planned[k + 1]) /\ Planned[k + 1].chunk \in Times
<1>1. /\ Len(Planned) \in Nat /\ \A i \in 1 .. Len(Planned) : Homes(Planned[i]) /\ Planned[i].chunk \in Times
  BY PlanFacts
<1>2. bs = From(Planned, k)
  BY DEF AtBucket
<1>3. Planned \in Seq(PlanSet)
  BY PlanSeq
<1>4. /\ DOMAIN bs = 1 .. Len(Planned) - k /\ \A i \in 1 .. Len(Planned) - k : bs[i] = Planned[k + i]
      /\ bs # <<>> <=> k < Len(Planned)
      /\ k < Len(Planned) => Head(bs) = Planned[k + 1] /\ Tail(bs) = From(Planned, k + 1)
  <2>1. IsLeft(PlanSet, Planned, k)
    BY <1>3, FromFacts, Zenon
  <2>2. QED
    BY <1>2, <2>1, Zenon DEF IsLeft
<1>5. \A i \in 1 .. Len(Planned) - k : k + i \in 1 .. Len(Planned)
  BY <1>1
<1>6. \A i \in DOMAIN bs : bs[i].chunk \in Times
  BY <1>1, <1>4, <1>5
<1>7. bs = <<>> <=> k = Len(Planned)
  BY <1>1, <1>4
<1>8. ASSUME bs # <<>>
      PROVE  /\ k \in 0 .. Len(Planned) - 1 /\ k + 1 \in 0 .. Len(Planned) /\ k + 1 \in 1 .. Len(Planned)
             /\ Head(bs) = Planned[k + 1] /\ AtBucket(Tail(bs), k + 1)
  <2>1. /\ k \in 0 .. Len(Planned) - 1 /\ k + 1 \in 0 .. Len(Planned) /\ k + 1 \in 1 .. Len(Planned)
    BY <1>1, <1>4, <1>8
  <2>2. Head(bs) = Planned[k + 1] /\ Tail(bs) = From(Planned, k + 1)
    BY <1>1, <1>4, <1>8
  <2>3. QED
    BY <2>1, <2>2 DEF AtBucket
<1>9. QED
  BY <1>1, <1>6, <1>7, <1>8, HomesCut

RowsAhead(bs, rs, k, m) ==
  /\ \A i \in DOMAIN rs : rs[i].rank \in Nat /\ rs[i].ts \in Times
  /\ rs = <<>> <=> m = Len(ReadRows(Planned[k + 1]))
  /\ bs # <<>> /\ AtBucket(bs, k) /\ k \in 0 .. Len(Planned)
  /\ rs # <<>> =>
       /\ m \in 0 .. Len(ReadRows(Planned[k + 1])) - 1
       /\ m + 1 \in 0 .. Len(ReadRows(Planned[k + 1]))
       /\ rs[1] = ReadRows(Planned[k + 1])[m + 1] /\ rs[1] \in RowSet(Planned[k + 1])
       /\ AtRow(bs, Tail(rs), k, m + 1)
       /\ Len(rs) > 1 /\ rs[2].key = rs[1].key /\ rs[2].ts = rs[1].ts
            <=> OlderAt(Planned[k + 1], m)

LEMMA RowsLeft ==
  ASSUME table \in Tables, ~Empty, NEW bs, NEW rs, NEW k \in 0 .. Len(Planned) - 1,
         NEW m \in 0 .. Len(ReadRows(Planned[k + 1])), AtRow(bs, rs, k, m)
  PROVE  RowsAhead(bs, rs, k, m)
<1> DEFINE b == Planned[k + 1]
           q == ReadRows(b)
           L == Len(q)
<1>1. /\ Len(Planned) \in Nat /\ k \in 0 .. Len(Planned) /\ k # Len(Planned)
      /\ k + 1 \in 1 .. Len(Planned)
  BY PlanFacts
<1>2. /\ AtBucket(bs, k) /\ rs = From(q, m)
  BY DEF AtRow
<1>3. bs # <<>> /\ CutFrom(b)
  BY <1>1, <1>2, BucketsLeft
<1>4. m \in 0 .. L
  OBVIOUS
<1> HIDE DEF b
<1>5. /\ q \in Seq(RowSet(b)) /\ L \in Nat /\ \A i \in 1 .. L : q[i] \in RowSet(b)
  BY <1>3, SortedRows
<1>6. \A r \in RowSet(b) : r.rank \in Nat /\ r.ts \in Times
  BY <1>3, RowFacts, RowsFinite
<1> HIDE DEF q, L
<1>7. L = Len(q)
  BY DEF L
<1>8. /\ Len(rs) = L - m /\ DOMAIN rs = 1 .. L - m /\ \A i \in 1 .. L - m : rs[i] = q[m + i]
      /\ rs # <<>> <=> m < L
      /\ m < L => Tail(rs) = From(q, m + 1)
  <2>1. IsLeft(RowSet(b), q, m)
    BY <1>4, <1>5, <1>7, FromFacts, Zenon
  <2>2. QED
    BY <1>2, <1>7, <2>1, Zenon DEF IsLeft
<1>9. \A i \in 1 .. L - m : m + i \in 1 .. L
  BY <1>4, <1>5
<1>10. \A i \in DOMAIN rs : rs[i].rank \in Nat /\ rs[i].ts \in Times
  BY <1>5, <1>6, <1>8, <1>9
<1>11. rs = <<>> <=> m = L
  BY <1>4, <1>5, <1>8
<1>12. ASSUME rs # <<>>
       PROVE  /\ m \in 0 .. L - 1 /\ m + 1 \in 0 .. L
              /\ rs[1] = q[m + 1] /\ rs[1] \in RowSet(b)
              /\ Tail(rs) = From(q, m + 1)
              /\ Len(rs) > 1 <=> m + 1 < L
              /\ Len(rs) > 1 => rs[2] = q[m + 2]
  <2>1. m < L /\ m \in 0 .. L - 1 /\ m + 1 \in 0 .. L /\ 1 \in 1 .. L - m
    BY <1>4, <1>5, <1>8, <1>12
  <2>2. Len(rs) > 1 <=> m + 1 < L
    BY <1>4, <1>5, <1>8
  <2>3. ASSUME Len(rs) > 1 PROVE rs[2] = q[m + 2]
    <3>1. 2 \in 1 .. L - m
      BY <1>4, <1>5, <1>8, <2>3
    <3>2. QED
      BY <1>8, <3>1
  <2>4. QED
    BY <1>5, <1>8, <1>9, <2>1, <2>2, <2>3
<1>13. OlderAt(b, m) <=> m + 1 < L /\ q[m + 2].key = q[m + 1].key /\ q[m + 2].ts = q[m + 1].ts
  BY DEF OlderAt, q, L
<1>14. ASSUME rs # <<>>
       PROVE  Len(rs) > 1 /\ rs[2].key = rs[1].key /\ rs[2].ts = rs[1].ts <=> OlderAt(b, m)
  BY <1>12, <1>13, <1>14
<1>15. ASSUME rs # <<>> PROVE AtRow(bs, Tail(rs), k, m + 1)
  BY <1>12, <1>15 DEF AtRow, q, L, b
<1>16. QED
  BY <1>1, <1>2, <1>3, <1>10, <1>11, <1>12, <1>14, <1>15 DEF q, L, b, RowsAhead

-----------------------------------------------------------------------------
(* The next state.                                                         *)

LEMMA SameTodo ==
  ASSUME UNCHANGED inputs
  PROVE  /\ Inputs' <=> Inputs
         /\ Empty' <=> Empty
         /\ \A k : Todo(k)' = Todo(k)
         /\ \A k, m : TodoAt(k, m)' = TodoAt(k, m)
<1>1. table' = table /\ range' = range /\ cursor' = cursor
  BY DEF inputs
<1>2. Planned' = Planned
  BY SamePlan
<1>3. ASSUME NEW b PROVE RowSet(b)' = RowSet(b) /\ ReadRows(b)' = ReadRows(b)
  BY SameRows
<1>4. ASSUME NEW k PROVE Todo(k)' = Todo(k)
  BY <1>2, <1>3 DEF Todo, BucketPlaces, PlaceIn
<1>5. ASSUME NEW k, NEW m PROVE TodoAt(k, m)' = TodoAt(k, m)
  BY <1>2, <1>3, <1>4 DEF TodoAt, RowsTodo, PlaceIn
<1>6. (Inputs' <=> Inputs) /\ (Empty' <=> Empty)
  BY <1>1 DEF Inputs, Empty
<1>7. QED
  BY <1>4, <1>5, <1>6

(* What OutputExact and StaleCursorFails say, of a phase and points.       *)
Exact(ph, e) ==
  IF CursorHeld THEN IsPrefix(e, Expected) /\ (ph = "done" => e = Expected) /\ ph # "stale"
  ELSE e = <<>> /\ (ph = "done" => Empty)

\* Where a phase leaves the extraction.
Placed(ph, bs, rs, e, s) ==
  /\ ph = "plan" => Delivers(e, s, Asked)
  /\ ph = "bucket" =>
       ~Empty /\ \E k \in 0 .. Len(Planned) : AtBucket(bs, k) /\ Delivers(e, s, Todo(k))
  /\ ph = "rows" =>
       ~Empty /\ \E k \in 0 .. Len(Planned) - 1 : \E m \in 0 .. Len(ReadRows(Planned[k + 1])) :
                   AtRow(bs, rs, k, m) /\ Delivers(e, s, TodoAt(k, m))

LEMMA IInvParts ==
  IInv <=> TypeOK /\ Inputs /\ Placed(phase, buckets, rows, emitted, seen) /\ Exact(phase, emitted)
  BY DEF IInv, Placed, Exact, OutputExact, StaleCursorFails

LEMMA NextState ==
  ASSUME Inputs, UNCHANGED inputs, TypeOK',
         Placed(phase', buckets', rows', emitted', seen'), Exact(phase', emitted')
  PROVE  IInv'
<1>1. Inputs' /\ (Empty' <=> Empty) /\ \A k : Todo(k)' = Todo(k) /\ \A m : TodoAt(k, m)' = TodoAt(k, m)
  BY SameTodo
<1>2. (CursorHeld' <=> CursorHeld) /\ Rest' = Rest /\ Expected' = Expected /\ Cursor' = Cursor
  BY SameRest
<1>3. Planned' = Planned /\ Asked' = Asked /\ cursor' = cursor
  BY SamePlan, SamePlaces DEF inputs
<1>4. ASSUME NEW b PROVE ReadRows(b)' = ReadRows(b)
  BY SameRows
<1>5. OutputExact' /\ StaleCursorFails'
  BY <1>1, <1>2 DEF OutputExact, StaleCursorFails, Exact
<1>6. ASSUME phase' = "plan" PROVE Delivers(emitted, seen, Asked)'
  BY <1>2, <1>3, <1>6 DEF Delivers, Placed
<1>7. ASSUME phase' = "bucket"
      PROVE  (~Empty /\ \E k \in 0 .. Len(Planned) : AtBucket(buckets, k) /\ Delivers(emitted, seen, Todo(k)))'
  <2>1. PICK k \in 0 .. Len(Planned) : AtBucket(buckets', k) /\ Delivers(emitted', seen', Todo(k))
    BY <1>7 DEF Placed
  <2>2. Todo(k)' = Todo(k)
    BY <1>1
  <2>3. AtBucket(buckets, k)' /\ Delivers(emitted, seen, Todo(k))'
    BY <1>2, <1>3, <2>1, <2>2 DEF AtBucket, Delivers
  <2>4. QED
    BY <1>1, <1>3, <1>7, <2>1, <2>3 DEF Placed
<1>8. ASSUME phase' = "rows"
      PROVE  (~Empty /\ \E k \in 0 .. Len(Planned) - 1 : \E m \in 0 .. Len(ReadRows(Planned[k + 1])) :
                AtRow(buckets, rows, k, m) /\ Delivers(emitted, seen, TodoAt(k, m)))'
  <2>1. PICK k \in 0 .. Len(Planned) - 1 : \E m \in 0 .. Len(ReadRows(Planned[k + 1])) :
                AtRow(buckets', rows', k, m) /\ Delivers(emitted', seen', TodoAt(k, m))
    BY <1>8 DEF Placed
  <2>2. PICK m \in 0 .. Len(ReadRows(Planned[k + 1])) :
                AtRow(buckets', rows', k, m) /\ Delivers(emitted', seen', TodoAt(k, m))
    BY <2>1
  <2>3. TodoAt(k, m)' = TodoAt(k, m)
    BY <1>1
  <2>4. AtRow(buckets, rows, k, m)' /\ Delivers(emitted, seen, TodoAt(k, m))'
    BY <1>2, <1>3, <1>4, <2>2, <2>3 DEF AtRow, AtBucket, Delivers
  <2>5. QED
    BY <1>1, <1>3, <1>4, <1>8, <2>2, <2>4 DEF Placed
<1>9. QED
  BY <1>1, <1>5, <1>6, <1>7, <1>8 DEF IInv

(* Before it has ended, an extraction is right as far as it has come; it   *)
(* may end with "done" when no place is to come, and with "stale" when the *)
(* cursor is none of this table.                                           *)
LEMMA SoFar ==
  ASSUME table \in Tables, NEW e, NEW s, NEW T, Delivers(e, s, T), NEW ph,
         ph = "done" => IF CursorHeld THEN Rest \cap T = {} ELSE Empty,
         ph = "stale" => ~CursorHeld
  PROVE  Exact(ph, e)
<1>1. CASE CursorHeld
  BY <1>1, EmittedPrefix DEF Exact
<1>2. CASE ~CursorHeld
  BY <1>2 DEF Exact, Delivers
<1>3. QED
  BY <1>1, <1>2

LEMMA SeenRight ==
  ASSUME NEW e, NEW s, NEW T, Delivers(e, s, T)
  PROVE  /\ s => CursorHeld
         /\ CursorHeld /\ (cursor = <<>> \/ Cursor \notin T) => s
  BY DEF Delivers

(* The cursor is not behind itself.                                        *)
LEMMA CursorNotRest ==
  ASSUME table \in Tables, CursorHeld, cursor # <<>>
  PROVE  /\ Cursor \in Asked /\ IsPlace(Cursor) /\ Cursor \notin Rest
         /\ \A p \in Asked : p \notin Rest <=> ~PlaceBefore(Cursor, p)
<1>1. Cursor \in Asked /\ IsPlace(Cursor)
  BY AskedPlaces DEF CursorHeld
<1>2. ~PlaceBefore(Cursor, Cursor)
  BY <1>1, PlacesOrdered
<1>3. QED
  BY <1>1, <1>2 DEF Rest

-----------------------------------------------------------------------------
(* Every step keeps the invariant.                                         *)

LEMMA EmptyTableStep ==
  ASSUME IInv, EmptyTable
  PROVE  IInv'
<1>1. /\ TypeOK /\ Inputs /\ table \in Tables /\ Delivers(emitted, seen, Asked)
  BY DEF IInv, EmptyTable, Inputs
<1>2. UNCHANGED <<inputs, buckets, rows, seen, emitted>> /\ phase' = "done" /\ Empty
  BY DEF EmptyTable
<1>3. Asked = {} /\ Rest \subseteq Asked
  BY <1>1, <1>2, AskedRead, PlacesFinite
<1>4. Exact("done", emitted)
  BY <1>1, <1>2, <1>3, SoFar
<1>5. TypeOK'
  BY <1>1, <1>2 DEF TypeOK
<1>6. Placed(phase', buckets', rows', emitted', seen')
  BY <1>2 DEF Placed
<1>7. QED
  BY <1>1, <1>2, <1>4, <1>5, <1>6, NextState

LEMMA CursorPrefix ==
  ASSUME Inputs, cursor # <<>>
  PROVE  CursorKey[1] = BucketPrefix(Cursor.chunk)
<1>1. OrderKey(Cursor.series) \in Seq(Int) /\ Cursor.chunk \in Times
  BY CursorFacts
<1>2. BucketPrefix(Cursor.chunk) \in Int
  BY <1>1, PrefixFacts
<1> DEFINE x == BucketPrefix(Cursor.chunk)
           k == OrderKey(Cursor.series)
<1>3. CursorKey = <<x>> \o k
  BY DEF CursorKey, SeriesKey
<1>4. x \in Int /\ k \in Seq(Int)
  BY <1>1, <1>2
<1> HIDE DEF x, k
<1>5. (<<x>> \o k)[1] = x
  BY <1>4
<1>6. QED
  BY <1>3, <1>5 DEF x

LEMMA MakePlanStep ==
  ASSUME IInv, MakePlan
  PROVE  IInv'
<1>1. /\ TypeOK /\ Inputs /\ table \in Tables /\ Delivers(emitted, seen, Asked) /\ ~Empty
  BY DEF IInv, MakePlan, Inputs
<1>2. /\ UNCHANGED <<inputs, rows, seen, emitted>> /\ buckets' = Planned
      /\ phase' \in {"bucket", "stale"}
      /\ phase' = "stale" => cursor # <<>> /\ ~BucketExists(Planned)
  BY DEF MakePlan
<1>3. /\ Len(Planned) \in Nat /\ DOMAIN Planned = 1 .. Len(Planned)
      /\ \A i \in 1 .. Len(Planned) : Planned[i].chunk \in Times
  BY <1>1, PlanFacts
<1>4. From(Planned, 0) = Planned
  <2>1. Planned \in Seq(PlanSet) /\ 0 \in 0 .. Len(Planned)
    BY <1>1, <1>3, PlanSeq
  <2>2. QED
    BY <2>1, FromFacts DEF IsLeft
<1>5. 0 \in 0 .. Len(Planned) /\ AtBucket(Planned, 0) /\ Todo(0) = Asked
  BY <1>1, <1>3, <1>4, TodoFacts DEF AtBucket
<1>6. ASSUME phase' = "stale" PROVE ~CursorHeld
  <2>1. SUFFICES ASSUME CursorHeld PROVE FALSE
    OBVIOUS
  <2>2. Cursor \in Asked
    BY <1>2, <1>6, <2>1 DEF CursorHeld
  <2>3. PICK i \in 1 .. Len(Planned) : Cursor.chunk = Planned[i].chunk
    BY <1>1, <2>2, AskedRead
  <2>4. CursorKey[1] = BucketPrefix(Cursor.chunk)
    BY <1>1, <1>2, <1>6, CursorPrefix
  <2>5. QED
    BY <1>2, <1>3, <1>6, <2>3, <2>4 DEF BucketExists
<1>7. Exact(phase', emitted')
  BY <1>1, <1>2, <1>6, SoFar
<1>8. Placed(phase', buckets', rows', emitted', seen')
  BY <1>1, <1>2, <1>5 DEF Placed
<1>9. TypeOK'
  BY <1>1, <1>2, <1>3 DEF TypeOK
<1>10. QED
  BY <1>1, <1>2, <1>7, <1>8, <1>9, NextState

(* No row of a bucket that is skipped is asked for.                        *)
LEMMA SkippedPlaces ==
  ASSUME Inputs, NEW b, Homes(b), b.chunk \in Times, Skippable(b), CursorHeld,
         NEW p \in BucketPlaces(b)
  PROVE  p \notin Rest /\ (cursor # <<>> => p # Cursor)
<1>1. table \in Tables /\ CutFrom(b)
  BY HomesCut DEF Inputs
<1>2. PICK r \in RowSet(b) : p = PlaceIn(b, r)
  BY DEF BucketPlaces
<1>3. p.chunk = b.chunk
  BY <1>2 DEF PlaceIn
<1>4. CASE cursor # <<>> /\ BucketPrefix(b.chunk) < CursorKey[1]
  <2>1. CursorKey[1] = BucketPrefix(Cursor.chunk) /\ Cursor.chunk \in Times
    BY <1>4, CursorPrefix, CursorFacts
  <2>2. b.chunk < Cursor.chunk
    BY <1>4, <2>1, PrefixFacts
  <2>3. b.chunk \in Int /\ Cursor.chunk \in Int
    BY <2>1, TimesFacts
  <2>4. ~PlaceBefore(Cursor, p) /\ p # Cursor
    BY <1>3, <2>2, <2>3 DEF PlaceBefore
  <2>5. QED
    BY <1>4, <2>4 DEF Rest
<1>5. CASE b.extra = {} /\ \A f \in ToSet(b.files) : ~Touches(f)
  <2>1. PICK i \in DOMAIN b.files : \E g \in b.files[i].rows : r.ts = g.ts
    BY <1>5 DEF RowSet, FileRows, ExtraRows
  <2>2. Touches(b.files[i])
    BY <2>1 DEF RowSet, InRange, Touches
  <2>3. b.files[i] \in ToSet(b.files)
    BY <2>1 DEF ToSet
  <2>4. QED
    BY <1>5, <2>2, <2>3
<1>6. QED
  BY <1>4, <1>5 DEF Skippable

LEMMA SkipBucketStep ==
  ASSUME IInv, SkipBucket
  PROVE  IInv'
<1>1. TypeOK /\ Inputs /\ table \in Tables /\ ~Empty
  BY DEF IInv, SkipBucket, Inputs
<1>2. PICK k \in 0 .. Len(Planned) : AtBucket(buckets, k) /\ Delivers(emitted, seen, Todo(k))
  BY DEF IInv, SkipBucket
<1>3. /\ UNCHANGED <<inputs, phase, rows, seen, emitted>> /\ buckets' = Tail(buckets)
      /\ phase = "bucket" /\ buckets # <<>> /\ Skippable(Head(buckets))
  BY DEF SkipBucket
<1> DEFINE b == Planned[k + 1]
<1>4. /\ k \in 0 .. Len(Planned) - 1 /\ k + 1 \in 0 .. Len(Planned)
      /\ Head(buckets) = b /\ AtBucket(buckets', k + 1)
      /\ Homes(b) /\ b.chunk \in Times
  BY <1>1, <1>2, <1>3, BucketsLeft
<1>5. Todo(k) = BucketPlaces(b) \cup Todo(k + 1)
  BY <1>1, <1>4, TodoFacts
<1> HIDE DEF b
<1>6. CursorHeld => \A p \in BucketPlaces(b) : p \notin Rest /\ (cursor # <<>> => p # Cursor)
  BY <1>1, <1>3, <1>4, SkippedPlaces
<1>7. Delivers(emitted, seen, Todo(k + 1))
  <2>1. CursorHeld => Rest \ Todo(k + 1) = Rest \ Todo(k)
    BY <1>5, <1>6
  <2>2. CursorHeld => (seen \/ (cursor # <<>> /\ Cursor \in Todo(k + 1)))
    BY <1>2, <1>5, <1>6, SeenRight DEF Delivers
  <2>3. ~CursorHeld => ~seen
    BY <1>2 DEF Delivers
  <2>4. QED
    BY <1>2, <2>1, <2>2, <2>3, PassedOver
<1>8. Placed(phase', buckets', rows', emitted', seen')
  BY <1>1, <1>3, <1>4, <1>7 DEF Placed
<1>9. Exact(phase', emitted')
  BY <1>1, <1>3, <1>7, SoFar
<1>10. \A i \in DOMAIN buckets' : buckets'[i].chunk \in Times
  BY <1>1, <1>4, BucketsLeft
<1>11. TypeOK'
  BY <1>1, <1>3, <1>10 DEF TypeOK
<1>12. QED
  BY <1>1, <1>3, <1>8, <1>9, <1>11, NextState

LEMMA ReadBucketStep ==
  ASSUME IInv, ReadBucket
  PROVE  IInv'
<1>1. TypeOK /\ Inputs /\ table \in Tables /\ ~Empty
  BY DEF IInv, ReadBucket, Inputs
<1>2. PICK k \in 0 .. Len(Planned) : AtBucket(buckets, k) /\ Delivers(emitted, seen, Todo(k))
  BY DEF IInv, ReadBucket
<1>3. /\ UNCHANGED <<inputs, buckets, seen, emitted>> /\ phase' = "rows"
      /\ buckets # <<>> /\ rows' = ReadRows(Head(buckets))
  BY DEF ReadBucket
<1> DEFINE b == Planned[k + 1]
<1>4. /\ k \in 0 .. Len(Planned) - 1 /\ k # Len(Planned)
      /\ Head(buckets) = b /\ CutFrom(b)
  BY <1>1, <1>2, <1>3, BucketsLeft
<1>5. Todo(k) = BucketPlaces(b) \cup Todo(k + 1)
  BY <1>1, <1>4, TodoFacts
<1>6. TodoAt(k, 0) = Todo(k)
  BY <1>1, <1>4, <1>5, RowsTodoFacts DEF TodoAt
<1>7. 0 \in 0 .. Len(ReadRows(b)) /\ rows' = From(ReadRows(b), 0)
  <2> HIDE DEF b
  <2>1. ReadRows(b) \in Seq(RowSet(b)) /\ Len(ReadRows(b)) \in Nat
    BY <1>1, <1>4, SortedRows
  <2>2. From(ReadRows(b), 0) = ReadRows(b)
    BY <2>1, FromFacts DEF IsLeft
  <2>3. QED
    BY <1>3, <1>4, <2>1, <2>2
<1>8. AtRow(buckets', rows', k, 0)
  <2>1. k < Len(Planned) /\ AtBucket(buckets', k)
    <3>1. Len(Planned) \in Nat
      BY <1>1, PlanFacts
    <3>2. QED
      BY <1>2, <1>3, <1>4, <3>1
  <2>2. QED
    BY <1>7, <2>1 DEF AtRow
<1>9. Placed(phase', buckets', rows', emitted', seen')
  BY <1>1, <1>2, <1>3, <1>4, <1>6, <1>7, <1>8 DEF Placed
<1>10. Exact(phase', emitted')
  BY <1>1, <1>2, <1>3, SoFar
<1>11. \A i \in DOMAIN rows' : rows'[i].rank \in Nat /\ rows'[i].ts \in Times
  <2>1. RowsAhead(buckets', rows', k, 0)
    BY <1>1, <1>4, <1>7, <1>8, RowsLeft
  <2>2. QED
    BY <2>1 DEF RowsAhead
<1>12. TypeOK'
  BY <1>1, <1>3, <1>11 DEF TypeOK
<1>13. QED
  BY <1>1, <1>3, <1>9, <1>10, <1>12, NextState

LEMMA ReadFailsStep ==
  ASSUME IInv, ReadFails
  PROVE  IInv'
<1>1. TypeOK /\ Inputs /\ table \in Tables
  BY DEF IInv, Inputs
<1>2. PICK k \in 0 .. Len(Planned) : Delivers(emitted, seen, Todo(k))
  BY DEF IInv, ReadFails
<1>3. UNCHANGED <<inputs, buckets, rows, seen, emitted>> /\ phase' = "failed"
  BY DEF ReadFails
<1>4. Exact(phase', emitted')
  BY <1>1, <1>2, <1>3, SoFar
<1>5. TypeOK' /\ Placed(phase', buckets', rows', emitted', seen')
  BY <1>1, <1>3 DEF TypeOK, Placed
<1>6. QED
  BY <1>1, <1>3, <1>4, <1>5, NextState

LEMMA FinishStep ==
  ASSUME IInv, Finish
  PROVE  IInv'
<1>1. TypeOK /\ Inputs /\ table \in Tables /\ ~Empty /\ seen \in BOOLEAN
  BY DEF IInv, Finish, Inputs, TypeOK
<1>2. PICK k \in 0 .. Len(Planned) : AtBucket(buckets, k) /\ Delivers(emitted, seen, Todo(k))
  BY DEF IInv, Finish
<1>3. /\ UNCHANGED <<inputs, buckets, rows, seen, emitted>> /\ buckets = <<>>
      /\ phase' = IF seen THEN "done" ELSE "stale"
  BY DEF Finish
<1>4. Todo(k) = {}
  BY <1>1, <1>2, <1>3, BucketsLeft, TodoFacts
<1>5. seen <=> CursorHeld
  BY <1>1, <1>2, <1>4, SeenRight
<1>6. Exact(phase', emitted')
  BY <1>1, <1>2, <1>3, <1>4, <1>5, SoFar
<1>7. TypeOK' /\ Placed(phase', buckets', rows', emitted', seen')
  BY <1>1, <1>3 DEF TypeOK, Placed
<1>8. QED
  BY <1>1, <1>3, <1>6, <1>7, NextState

\* Row m + 1 of bucket k + 1 is looked at, a row of the place p.
Turn(k, m, p) ==
  /\ k \in 0 .. Len(Planned) - 1 /\ m + 1 \in 0 .. Len(ReadRows(Planned[k + 1]))
  /\ AtRow(buckets, Tail(rows), k, m + 1)
  /\ Delivers(emitted, seen, TodoAt(k, m))
  /\ p \in Asked /\ TodoAt(k, m) = {p} \cup TodoAt(k, m + 1)
  /\ \A x \in TodoAt(k, m) : x = p \/ PlaceBefore(p, x)
  /\ \A x \in Asked \ TodoAt(k, m) : PlaceBefore(x, p)
  /\ p \in TodoAt(k, m + 1) <=> Superseded
  /\ ~Superseded => PointAt(p) = [series |-> rows[1].series, ts |-> rows[1].ts, src |-> rows[1].src]
  /\ AtCursor <=> cursor # <<>> /\ p = Cursor
  /\ CursorHeld => (Delivered <=> cursor # <<>> /\ ~PlaceBefore(Cursor, p))

LEMMA RowTurn ==
  ASSUME IInv, phase = "rows", rows # <<>>
  PROVE  \E k, m, p : Turn(k, m, p)
<1>1. Inputs /\ table \in Tables /\ ~Empty
  BY DEF IInv, Inputs
<1>2. PICK k \in 0 .. Len(Planned) - 1 : \E m \in 0 .. Len(ReadRows(Planned[k + 1])) :
             AtRow(buckets, rows, k, m) /\ Delivers(emitted, seen, TodoAt(k, m))
  BY DEF IInv
<1>3. PICK m \in 0 .. Len(ReadRows(Planned[k + 1])) :
             AtRow(buckets, rows, k, m) /\ Delivers(emitted, seen, TodoAt(k, m))
  BY <1>2
<1> DEFINE b == Planned[k + 1]
           r == ReadRows(b)[m + 1]
           p == PlaceIn(b, r)
<1>4. /\ buckets # <<>> /\ AtBucket(buckets, k) /\ k \in 0 .. Len(Planned)
      /\ m \in 0 .. Len(ReadRows(b)) - 1 /\ m + 1 \in 0 .. Len(ReadRows(b))
      /\ rows[1] = r /\ r \in RowSet(b)
      /\ AtRow(buckets, Tail(rows), k, m + 1)
      /\ Superseded <=> OlderAt(b, m)
  <2>1. RowsAhead(buckets, rows, k, m)
    BY <1>1, <1>3, RowsLeft, Zenon
  <2>2. QED
    BY <2>1 DEF Superseded, RowsAhead
<1>5. Head(buckets) = b /\ Homes(b) /\ b.chunk \in Times
  BY <1>1, <1>4, BucketsLeft
<1>6. /\ p \in Asked /\ TodoAt(k, m) = {p} \cup TodoAt(k, m + 1)
      /\ \A x \in TodoAt(k, m) : x = p \/ PlaceBefore(p, x)
      /\ \A x \in Asked \ TodoAt(k, m) : PlaceBefore(x, p)
      /\ p \in TodoAt(k, m + 1) <=> OlderAt(b, m)
  BY <1>1, <1>4, PlaceInTurn
<1>7. ASSUME ~Superseded PROVE PointAt(p) = [series |-> r.series, ts |-> r.ts, src |-> r.src]
  <2>1. Newest(p) = r.src
    BY <1>1, <1>4, <1>5, <1>7, NewestAt
  <2>2. p.series = r.series /\ p.ts = r.ts
    BY DEF PlaceIn
  <2> HIDE DEF p, r
  <2>3. QED
    BY <2>1, <2>2 DEF PointAt
<1> HIDE DEF r, b
<1>8. RowKey = KeyIn(b, r)
  BY <1>4, <1>5 DEF RowKey, KeyIn
<1>9. cursor # <<>> => (KeyIn(b, r) = CursorKey /\ r.ts = Cursor.ts <=> p = Cursor)
  BY <1>1, <1>4, <1>5, CursorMeets
<1>10. ASSUME cursor # <<>>, CursorHeld
       PROVE  (Precedes(KeyIn(b, r), CursorKey) \/ (KeyIn(b, r) = CursorKey /\ r.ts <= Cursor.ts))
              <=> ~PlaceBefore(Cursor, p)
  BY <1>1, <1>4, <1>5, <1>10, CursorMeets
<1> HIDE DEF p
<1>11. AtCursor <=> cursor # <<>> /\ p = Cursor
  BY <1>4, <1>8, <1>9 DEF AtCursor
<1>12. CursorHeld => (Delivered <=> cursor # <<>> /\ ~PlaceBefore(Cursor, p))
  BY <1>4, <1>8, <1>10 DEF Delivered
<1>13. Turn(k, m, p)
  BY <1>3, <1>4, <1>6, <1>7, <1>11, <1>12 DEF Turn, b
<1>14. QED
  BY <1>13

(* With the row dealt with, what is left is again of the invariant.        *)
LEMMA RowDone ==
  ASSUME IInv, phase = "rows", rows # <<>>, NEW k, NEW m, NEW p, Turn(k, m, p),
         UNCHANGED <<inputs, phase, buckets>>, rows' = Tail(rows), seen' \in BOOLEAN,
         \A i \in DOMAIN emitted' : emitted'[i].ts \in Times,
         Delivers(emitted', seen', TodoAt(k, m + 1))
  PROVE  IInv'
<1>1. TypeOK /\ Inputs /\ table \in Tables /\ ~Empty
  BY DEF IInv, Inputs
<1>2. /\ k \in 0 .. Len(Planned) - 1 /\ m + 1 \in 0 .. Len(ReadRows(Planned[k + 1]))
      /\ AtRow(buckets', rows', k, m + 1)
  BY DEF Turn
<1>3. Placed(phase', buckets', rows', emitted', seen')
  BY <1>1, <1>2 DEF Placed
<1>4. Exact(phase', emitted')
  BY <1>1, SoFar
<1>5. \A i \in DOMAIN rows' : rows'[i].rank \in Nat /\ rows'[i].ts \in Times
  <2>1. RowsAhead(buckets', rows', k, m + 1)
    BY <1>1, <1>2, RowsLeft
  <2>2. QED
    BY <2>1 DEF RowsAhead
<1>6. TypeOK'
  BY <1>1, <1>5 DEF TypeOK
<1>7. QED
  BY <1>1, <1>3, <1>4, <1>6, NextState

LEMMA SkipOlderStep ==
  ASSUME IInv, SkipOlder
  PROVE  IInv'
<1>1. /\ UNCHANGED <<inputs, phase, buckets, seen, emitted>> /\ rows' = Tail(rows)
      /\ phase = "rows" /\ rows # <<>> /\ Superseded
  BY DEF SkipOlder
<1>2. PICK k, m, p : Turn(k, m, p)
  BY <1>1, RowTurn
<1>3. TodoAt(k, m) = TodoAt(k, m + 1) /\ Delivers(emitted, seen, TodoAt(k, m))
  BY <1>1, <1>2 DEF Turn
<1>4. Delivers(emitted', seen', TodoAt(k, m + 1))
  BY <1>1, <1>3
<1>5. seen' \in BOOLEAN /\ \A i \in DOMAIN emitted' : emitted'[i].ts \in Times
  BY <1>1 DEF IInv, TypeOK
<1>6. QED
  BY <1>1, <1>2, <1>4, <1>5, RowDone

LEMMA SkipDeliveredStep ==
  ASSUME IInv, SkipDelivered
  PROVE  IInv'
<1>1. /\ UNCHANGED <<inputs, phase, buckets, emitted>> /\ rows' = Tail(rows)
      /\ phase = "rows" /\ rows # <<>> /\ ~Superseded /\ Delivered
      /\ seen' = (seen \/ AtCursor)
  BY DEF SkipDelivered, SawCursor
<1>2. PICK k, m, p : Turn(k, m, p)
  BY <1>1, RowTurn
<1> DEFINE T == TodoAt(k, m)
           V == TodoAt(k, m + 1)
<1>3. /\ Delivers(emitted, seen, T) /\ p \in Asked /\ T = {p} \cup V
      /\ AtCursor <=> cursor # <<>> /\ p = Cursor
      /\ CursorHeld => cursor # <<>> /\ ~PlaceBefore(Cursor, p)
  BY <1>1, <1>2 DEF Turn
<1> HIDE DEF T, V
<1>4. table \in Tables /\ seen \in BOOLEAN
  BY DEF IInv, Inputs, TypeOK
<1>5. ASSUME CursorHeld PROVE Rest \ V = Rest \ T /\ (seen' \/ (cursor # <<>> /\ Cursor \in V))
  <2>1. p \notin Rest
    BY <1>3, <1>4, <1>5, CursorNotRest
  <2>2. seen \/ (cursor # <<>> /\ Cursor \in T)
    BY <1>3, <1>5 DEF Delivers
  <2>3. seen' \/ (cursor # <<>> /\ Cursor \in V)
    BY <1>1, <1>3, <2>2
  <2>4. QED
    BY <1>3, <2>1, <2>3
<1>6. ASSUME ~CursorHeld PROVE ~seen'
  <2>1. ~seen
    BY <1>3, <1>6 DEF Delivers
  <2>2. ~AtCursor
    BY <1>3, <1>6 DEF CursorHeld
  <2>3. QED
    BY <1>1, <2>1, <2>2
<1>7. Delivers(emitted', seen', V)
  BY <1>1, <1>3, <1>5, <1>6, PassedOver
<1>8. seen' \in BOOLEAN /\ \A i \in DOMAIN emitted' : emitted'[i].ts \in Times
  <2>1. (seen \/ AtCursor) \in BOOLEAN
    OBVIOUS
  <2>2. QED
    BY <1>1, <2>1 DEF IInv, TypeOK
<1>9. QED
  BY <1>1, <1>2, <1>7, <1>8, RowDone DEF V

LEMMA CursorLostStep ==
  ASSUME IInv, CursorLost
  PROVE  IInv'
<1>1. /\ UNCHANGED <<inputs, buckets, rows, seen, emitted>>
      /\ phase = "rows" /\ rows # <<>> /\ ~Delivered /\ ~seen /\ phase' = "stale"
  BY DEF CursorLost
<1>2. PICK k, m, p : Turn(k, m, p)
  BY <1>1, RowTurn
<1> DEFINE T == TodoAt(k, m)
<1>3. /\ Delivers(emitted, seen, T) /\ p \in Asked
      /\ \A x \in T : x = p \/ PlaceBefore(p, x)
      /\ CursorHeld => cursor = <<>> \/ PlaceBefore(Cursor, p)
  BY <1>1, <1>2 DEF Turn
<1> HIDE DEF T
<1>4. TypeOK /\ Inputs /\ table \in Tables
  BY DEF IInv, Inputs
<1>5. ASSUME CursorHeld PROVE FALSE
  <2>1. cursor # <<>> /\ Cursor \in T
    BY <1>1, <1>3, <1>5 DEF Delivers
  <2>2. IsPlace(Cursor) /\ IsPlace(p)
    BY <1>3, <1>4, <1>5, <2>1, CursorNotRest, AskedPlaces
  <2>3. PlaceBefore(Cursor, p) /\ (Cursor = p \/ PlaceBefore(p, Cursor))
    BY <1>3, <1>5, <2>1
  <2>4. QED
    BY <1>4, <2>2, <2>3, PlacesOrdered
<1>6. Exact(phase', emitted')
  BY <1>1, <1>3, <1>4, <1>5, SoFar
<1>7. TypeOK' /\ Placed(phase', buckets', rows', emitted', seen')
  BY <1>1, <1>4 DEF TypeOK, Placed
<1>8. QED
  BY <1>1, <1>4, <1>6, <1>7, NextState

LEMMA EmitPointStep ==
  ASSUME IInv, EmitPoint
  PROVE  IInv'
<1> DEFINE point == [series |-> rows[1].series, ts |-> rows[1].ts, src |-> rows[1].src]
<1>1. /\ UNCHANGED <<inputs, phase, buckets, seen>> /\ rows' = Tail(rows)
      /\ phase = "rows" /\ rows # <<>> /\ ~Superseded /\ ~Delivered /\ seen
      /\ emitted' = Append(emitted, point)
  BY DEF EmitPoint
<1>2. PICK k, m, p : Turn(k, m, p)
  BY <1>1, RowTurn
<1> DEFINE T == TodoAt(k, m)
           V == TodoAt(k, m + 1)
<1>3. /\ Delivers(emitted, seen, T) /\ p \in Asked /\ T = {p} \cup V /\ p \notin V
      /\ \A x \in T : x = p \/ PlaceBefore(p, x)
      /\ \A x \in Asked \ T : PlaceBefore(x, p)
      /\ PointAt(p) = point
      /\ CursorHeld => cursor = <<>> \/ PlaceBefore(Cursor, p)
  BY <1>1, <1>2 DEF Turn
<1> HIDE DEF T, V, point
<1>4. Inputs /\ table \in Tables /\ seen \in BOOLEAN
  BY DEF IInv, Inputs, TypeOK
<1>5. CursorHeld
  BY <1>1, <1>3, SeenRight
<1>6. p \in Rest
  BY <1>3, <1>5 DEF Rest
<1>7. Delivers(Append(emitted, PointAt(p)), seen, V)
  BY <1>1, <1>3, <1>4, <1>5, <1>6, EmittedNext
<1>8. Delivers(emitted', seen', V)
  BY <1>1, <1>3, <1>7
<1>9. \A i \in DOMAIN emitted' : emitted'[i].ts \in Times
  <2> DEFINE P == {Expected[i] : i \in 1 .. Cardinality(Rest)}
  <2>1. emitted \in Seq(P)
    BY <1>3, <1>4, <1>5, EmittedPrefix
  <2>2. point.ts \in Times
    <3>1. IsPlace(p) /\ PointAt(p).ts = p.ts
      BY <1>3, <1>4, AskedPlaces DEF PointAt
    <3>2. QED
      BY <1>3, <3>1 DEF IsPlace
  <2>3. \A i \in DOMAIN emitted : emitted[i].ts \in Times
    BY DEF IInv, TypeOK
  <2> HIDE DEF P
  <2>4. emitted \in Seq(P \cup {point}) /\ point \in P \cup {point}
    BY <2>1
  <2>5. \A i \in DOMAIN Append(emitted, point) : Append(emitted, point)[i] = point \/ (i \in DOMAIN emitted /\ Append(emitted, point)[i] = emitted[i])
    BY <2>4
  <2>6. QED
    BY <1>1, <2>2, <2>3, <2>5
<1>10. QED
  BY <1>1, <1>2, <1>4, <1>8, <1>9, RowDone DEF V

LEMMA NextBucketStep ==
  ASSUME IInv, NextBucket
  PROVE  IInv'
<1>1. TypeOK /\ Inputs /\ table \in Tables /\ ~Empty
  BY DEF IInv, NextBucket, Inputs
<1>2. PICK k \in 0 .. Len(Planned) - 1 : \E m \in 0 .. Len(ReadRows(Planned[k + 1])) :
             AtRow(buckets, rows, k, m) /\ Delivers(emitted, seen, TodoAt(k, m))
  BY DEF IInv, NextBucket
<1>3. PICK m \in 0 .. Len(ReadRows(Planned[k + 1])) :
             AtRow(buckets, rows, k, m) /\ Delivers(emitted, seen, TodoAt(k, m))
  BY <1>2
<1>4. /\ UNCHANGED <<inputs, rows, seen, emitted>> /\ phase' = "bucket"
      /\ rows = <<>> /\ buckets' = Tail(buckets)
  BY DEF NextBucket
<1>5. /\ m = Len(ReadRows(Planned[k + 1]))
      /\ buckets # <<>> /\ AtBucket(buckets, k) /\ k \in 0 .. Len(Planned)
  <2>1. RowsAhead(buckets, rows, k, m)
    BY <1>1, <1>3, RowsLeft, Zenon
  <2>2. QED
    BY <1>4, <2>1 DEF RowsAhead
<1>6. k + 1 \in 0 .. Len(Planned) /\ AtBucket(buckets', k + 1) /\ CutFrom(Planned[k + 1])
  BY <1>1, <1>4, <1>5, BucketsLeft
<1>7. TodoAt(k, m) = Todo(k + 1)
  BY <1>1, <1>5, <1>6, RowsTodoFacts DEF TodoAt
<1>8. Placed(phase', buckets', rows', emitted', seen')
  BY <1>1, <1>3, <1>4, <1>6, <1>7 DEF Placed
<1>9. Exact(phase', emitted')
  BY <1>1, <1>3, <1>4, SoFar
<1>10. \A i \in DOMAIN buckets' : buckets'[i].chunk \in Times
  BY <1>1, <1>6, BucketsLeft
<1>11. TypeOK'
  BY <1>1, <1>4, <1>10 DEF TypeOK
<1>12. QED
  BY <1>1, <1>4, <1>8, <1>9, <1>11, NextState

-----------------------------------------------------------------------------
(* The theorems.                                                           *)

LEMMA InitIInv ==
  ASSUME Init
  PROVE  IInv
<1>1. /\ table \in Tables /\ range \in Ranges /\ phase = "plan"
      /\ buckets = <<>> /\ rows = <<>> /\ emitted = <<>> /\ seen = (cursor = <<>>)
      /\ cursor = <<>> \/ \E c \in Places(table) : cursor = <<c>>
  BY DEF Init
<1>2. Inputs
  BY <1>1 DEF Inputs
<1>3. TypeOK
  <2>1. seen \in BOOLEAN
    BY <1>1
  <2>2. QED
    BY <1>1, <2>1 DEF TypeOK
<1>4. Delivers(emitted, seen, Asked)
  <2>1. CASE CursorHeld
    <3>1. Rest \ Asked = {}
      BY DEF Rest
    <3>2. Cardinality(Rest \ Asked) = 0
      BY <3>1, FS_EmptySet
    <3>3. Len(emitted) = 0 /\ emitted = [i \in 1 .. 0 |-> Expected[i]]
      BY <1>1
    <3>4. cursor = <<>> \/ Cursor \in Asked
      BY <2>1 DEF CursorHeld
    <3>5. seen \/ (cursor # <<>> /\ Cursor \in Asked)
      BY <1>1, <3>4
    <3>6. QED
      BY <2>1, <3>2, <3>3, <3>5 DEF Delivers
  <2>2. CASE ~CursorHeld
    <3>1. ~seen
      BY <1>1, <2>2 DEF CursorHeld
    <3>2. QED
      BY <1>1, <2>2, <3>1 DEF Delivers
  <2>3. QED
    BY <2>1, <2>2
<1>5. Placed(phase, buckets, rows, emitted, seen)
  BY <1>1, <1>4 DEF Placed
<1>6. Exact(phase, emitted)
  BY <1>1, <1>4, SoFar
<1>7. QED
  BY <1>2, <1>3, <1>5, <1>6, IInvParts

LEMMA StutterStep ==
  ASSUME IInv, UNCHANGED vars
  PROVE  IInv'
<1>1. TypeOK /\ Inputs /\ Placed(phase, buckets, rows, emitted, seen) /\ Exact(phase, emitted)
  BY IInvParts
<1>2. UNCHANGED <<inputs, phase, buckets, rows, seen, emitted>>
  BY DEF vars, inputs
<1>3. TypeOK'
  BY <1>1, <1>2 DEF TypeOK
<1>4. Placed(phase', buckets', rows', emitted', seen') /\ Exact(phase', emitted')
  BY <1>1, <1>2
<1>5. QED
  BY <1>1, <1>2, <1>3, <1>4, NextState

(* In every reachable state the buckets and the rows left are the last     *)
(* ones of the plan and of the bucket read, the points emitted are those   *)
(* of the places passed, and the cursor has been met or is still to come   *)
(* (the loops of Extract over buckets and rows, with cursorSeen).          *)
THEOREM InductiveInvariant == Spec => []IInv
<1>1. Init => IInv
  BY InitIInv
<1>2. IInv /\ [Next]_vars => IInv'
  BY EmptyTableStep, MakePlanStep, SkipBucketStep, ReadBucketStep, ReadFailsStep, SkipOlderStep,
     SkipDeliveredStep, CursorLostStep, EmitPointStep, NextBucketStep, FinishStep, StutterStep
     DEF Next
<1>3. QED
  BY <1>1, <1>2, PTL DEF Spec

(* What changes keeps its types, in every reachable state of Extract.      *)
THEOREM TypeCorrect == Spec => []TypeOK
<1>1. IInv => TypeOK
  BY DEF IInv
<1>2. QED
  BY <1>1, InductiveInvariant, PTL

(* Extract gives every series and time asked for once, in order, with the  *)
(* row written last, and all of them when it is done, for every table,     *)
(* range and cursor.                                                       *)
THEOREM ExactlyOnceInOrder == Spec => []OutputExact
<1>1. IInv => OutputExact
  BY DEF IInv
<1>2. QED
  BY <1>1, InductiveInvariant, PTL

(* A cursor that is no point of the source fails before anything is        *)
(* emitted, and never passes unnoticed: "resume cursor position not found  *)
(* ... source changed since checkpoint" (Extract).                         *)
THEOREM StaleCursorEmitsNothing == Spec => []StaleCursorFails
<1>1. IInv => StaleCursorFails
  BY DEF IInv
<1>2. QED
  BY <1>1, InductiveInvariant, PTL
=============================================================================
