--------------------------- MODULE SequenceFolds ---------------------------
(***************************************************************************)
(* Facts about FoldLeft, by induction on sets of numbers: what a fold      *)
(* computes for every sequence.  The operation is given as a function of   *)
(* the place, so that the facts need no operator as a parameter.  The bytes*)
(* of a text and the text of pieces are such folds.                        *)
(***************************************************************************)
EXTENDS TextPieces, FiniteSetTheorems, WellFoundedInduction,
        SequenceTheorems, TLAPS

\* Every set of natural numbers has a least element.
LEMMA LeastNumber ==
    ASSUME NEW T \in SUBSET Nat, T # {}
    PROVE  \E m \in T : \A k \in T : m <= k
<1> DEFINE I == {0..m : m \in T}
<1>1. I \subseteq FiniteSubsetsOf(Nat)
  <2>1. ASSUME NEW m \in T PROVE 0..m \subseteq Nat /\ IsFiniteSet(0..m)
    <3>1. 0 \in Int /\ m \in Int
      OBVIOUS
    <3>2. IsFiniteSet(0..m)
      BY <3>1, FS_Interval
    <3> QED
      BY <3>2
  <2> QED
    BY <2>1 DEF FiniteSubsetsOf
<1>2. I # {}
  OBVIOUS
<1>3. PICK x \in I : \A y \in I : ~ (<<y, x>> \in StrictSubsetOrdering(Nat))
  <2> HIDE DEF I
  <2> QED
    BY <1>1, <1>2, FS_StrictSubsetOrderingWellFounded, WFMin, Zenon
<1>4. PICK m \in T : x = 0..m
  BY <1>3
<1>5. ASSUME NEW k \in T, ~(m <= k) PROVE FALSE
  <2>1. 0..k \in I
    OBVIOUS
  <2>2. 0..k \subseteq 0..m /\ 0..k # 0..m /\ 0..k \in SUBSET Nat /\ 0..m \in SUBSET Nat
    BY <1>5
  <2> QED
    BY <1>3, <1>4, <2>1, <2>2 DEF StrictSubsetOrdering
<1> QED
  BY <1>5

\* Induction up to a bound, for the numbers of a set.
LEMMA Induction ==
    ASSUME NEW n \in Nat, NEW T, 0 \in T, \A k \in 1..n : k - 1 \in T => k \in T
    PROVE  \A k \in 0..n : k \in T
<1> SUFFICES ASSUME NEW j \in 0..n, j \notin T PROVE FALSE
  OBVIOUS
<1> DEFINE Out == {k \in 0..n : k \notin T}
<1>1. PICK m \in Out : \A k \in Out : m <= k
  <2>1. Out \in SUBSET Nat /\ Out # {}
    OBVIOUS
  <2> HIDE DEF Out
  <2> QED
    BY <2>1, LeastNumber
<1>2. m \in 1..n /\ m - 1 \in 0..n /\ ~(m <= m - 1)
  BY <1>1
<1>3. m - 1 \in T
  BY <1>1, <1>2
<1> QED
  BY <1>1, <1>2, <1>3

\* The last of the first k places.
LEMMA Highest ==
    ASSUME NEW k \in Nat \ {0}, NEW s \in SUBSET (1..k), k \in s
    PROVE  Max(s) = k
<1>1. \A y \in s : k >= y
  OBVIOUS
<1>2. ASSUME NEW x \in s, \A y \in s : x >= y PROVE x = k
  BY <1>2
<1> QED
  BY <1>1, <1>2 DEF Max

\* What the first k elements make of a base.
FoldsUpTo(g, k, base, h) ==
    \A s \in SUBSET (1..k) : g[s] = IF s = {} THEN base ELSE h[Max(s)][g[s \ {Max(s)}]]

\* A fold has a value on every set of places.
LEMMA FoldExists ==
    ASSUME NEW D, NEW base \in D, NEW n \in Nat, NEW h \in [1..n -> [D -> D]]
    PROVE  \E g \in [SUBSET (1..n) -> D] : FoldsUpTo(g, n, base, h)
<1> DEFINE T == {k \in 0..n : \E g \in [SUBSET (1..k) -> D] : FoldsUpTo(g, k, base, h)}
<1>1. 0 \in T
  <2> DEFINE g == [s \in SUBSET (1..0) |-> base]
  <2>1. g \in [SUBSET (1..0) -> D]
    OBVIOUS
  <2>2. FoldsUpTo(g, 0, base, h)
    <3>1. \A s \in SUBSET (1..0) : s = {}
      OBVIOUS
    <3> QED
      BY <3>1 DEF FoldsUpTo
  <2>3. 0 \in 0..n
    OBVIOUS
  <2> HIDE DEF g
  <2> QED
    BY <2>1, <2>2, <2>3, Zenon
<1>2. ASSUME NEW k \in 1..n, k - 1 \in T PROVE k \in T
  <2>1. PICK g \in [SUBSET (1..(k - 1)) -> D] : FoldsUpTo(g, k - 1, base, h)
    BY <1>2
  <2> DEFINE f == [s \in SUBSET (1..k) |-> IF k \in s THEN h[k][g[s \ {k}]] ELSE g[s]]
  <2>2. \A s \in SUBSET (1..k) : s \ {k} \in SUBSET (1..(k - 1)) /\ (k \notin s => s \in SUBSET (1..(k - 1)))
    <3> SUFFICES ASSUME NEW s \in SUBSET (1..k), NEW i \in s, i # k PROVE i \in 1..(k - 1)
      OBVIOUS
    <3> QED
      OBVIOUS
  <2>3. f \in [SUBSET (1..k) -> D]
    <3>1. ASSUME NEW s \in SUBSET (1..k) PROVE (IF k \in s THEN h[k][g[s \ {k}]] ELSE g[s]) \in D
      <4>1. g[s \ {k}] \in D /\ h[k] \in [D -> D]
        BY <2>2
      <4>2. k \notin s => g[s] \in D
        BY <2>2
      <4> QED
        BY <4>1, <4>2
    <3> QED
      BY <3>1
  <2>4. ASSUME NEW s \in SUBSET (1..k)
        PROVE  f[s] = IF s = {} THEN base ELSE h[Max(s)][f[s \ {Max(s)}]]
    <3>1. CASE k \in s
      <4>1. Max(s) = k
        BY <3>1, Highest
      <4>2. f[s \ {k}] = g[s \ {k}]
        BY <2>2
      <4> QED
        BY <3>1, <4>1, <4>2
    <3>2. CASE k \notin s
      <4>1. s \in SUBSET (1..(k - 1)) /\ f[s] = g[s]
        BY <2>2, <3>2
      <4>2. f[s \ {Max(s)}] = g[s \ {Max(s)}]
        BY <3>2
      <4> QED
        BY <2>1, <4>1, <4>2 DEF FoldsUpTo
    <3> QED
      BY <3>1, <3>2
  <2> HIDE DEF f
  <2>5. FoldsUpTo(f, k, base, h)
    BY <2>4 DEF FoldsUpTo
  <2> QED
    BY <2>3, <2>5
<1>3. \A k \in 0..n : k \in T
  <2> HIDE DEF T
  <2> QED
    BY <1>1, <1>2, Induction
<1>4. n \in 0..n
  OBVIOUS
<1> QED
  BY <1>3, <1>4, Zenon

\* The values a fold goes through.
IsRun(r, n, base, h, D) ==
    r \in [0..n -> D] /\ r[0] = base /\ \A k \in 1..n : r[k] = h[k][r[k - 1]]

\* The value a fold arrives at.
FoldsTo(value, n, base, h, D) == \E r : IsRun(r, n, base, h, D) /\ r[n] = value

\* Every set of places but the empty one has a last.
LEMMA LastPlace ==
    ASSUME NEW n \in Nat, NEW s \in SUBSET (1..n), s # {}
    PROVE  Max(s) \in s
<1> DEFINE T == {n - x : x \in s}
<1>1. PICK m \in T : \A k \in T : m <= k
  <2>1. \A x \in s : n - x \in Nat
    OBVIOUS
  <2>2. T \in SUBSET Nat /\ T # {}
    BY <2>1
  <2> HIDE DEF T
  <2> QED
    BY <2>2, LeastNumber
<1>2. PICK x \in s : m = n - x
  BY <1>1
<1>3. ASSUME NEW y \in s PROVE x >= y
  <2>1. n - x <= n - y
    BY <1>1, <1>2
  <2> QED
    BY <2>1
<1> QED
  BY <1>2, <1>3 DEF Max

\* The function computes a fold, as long as its values are in D.
Computes(f, n, base, h, D) ==
    /\ f[{}] = base
    /\ \A s \in SUBSET (1..n) :
         s # {} /\ f[s \ {Max(s)}] \in D => f[s] = h[Max(s)][f[s \ {Max(s)}]]

\* A function on sets of places that computes a fold goes through its values in
\* order.
LEMMA FoldRuns ==
    ASSUME NEW D, NEW base \in D, NEW n \in Nat, NEW h \in [1..n -> [D -> D]], NEW f,
           Computes(f, n, base, h, D)
    PROVE  FoldsTo(f[1..n], n, base, h, D)
<1> DEFINE r == [k \in 0..n |-> f[1..k]]
<1> DEFINE T == {k \in 0..n : r[k] \in D}
<1>1. r[0] = base
  <2>1. 1..0 = {} /\ 0 \in 0..n
    OBVIOUS
  <2> QED
    BY <2>1 DEF Computes
<1>2. ASSUME NEW k \in 1..n, r[k - 1] \in D PROVE r[k] = h[k][r[k - 1]]
  <2>1. Max(1..k) = k
    BY Highest
  <2>2. (1..k) \ {k} = 1..(k - 1) /\ 1..k # {}
    <3>1. \A i : i \in (1..k) \ {k} <=> i \in 1..(k - 1)
      OBVIOUS
    <3> QED
      BY <3>1
  <2>3. 1..k \in SUBSET (1..n) /\ r[k] = f[1..k] /\ r[k - 1] = f[1..(k - 1)]
    OBVIOUS
  <2> HIDE DEF r
  <2>4. f[(1..k) \ {Max(1..k)}] = r[k - 1]
    BY <2>1, <2>2, <2>3
  <2>5. f[1..k] = h[Max(1..k)][r[k - 1]]
    BY <1>2, <2>2, <2>3, <2>4, Zenon DEF Computes
  <2> QED
    BY <2>1, <2>3, <2>5
<1>3. \A k \in 0..n : r[k] \in D
  <2>1. 0 \in T
    BY <1>1
  <2>2. ASSUME NEW k \in 1..n, k - 1 \in T PROVE k \in T
    <3>1. k \in 0..n /\ r[k - 1] \in D
      BY <2>2
    <3>2. r[k] = h[k][r[k - 1]]
      BY <1>2, <3>1
    <3> HIDE DEF r
    <3> QED
      BY <3>1, <3>2
  <2>3. \A k \in 0..n : k \in T
    <3> HIDE DEF T
    <3> QED
      BY <2>1, <2>2, Induction
  <2> QED
    BY <2>3
<1>4. \A k \in 1..n : k - 1 \in 0..n
  OBVIOUS
<1>5. r \in [0..n -> D]
  BY <1>3
<1>6. r[n] = f[1..n]
  OBVIOUS
<1> HIDE DEF r
<1> QED
  BY <1>1, <1>2, <1>3, <1>4, <1>5, <1>6 DEF IsRun, FoldsTo

\* Two folds have the same first n elements.
Agree(h, g, n, D) == \A k \in 1..n : \A x \in D : h[k][x] = g[k][x]

\* Two folds that agree on their elements agree on their values.
LEMMA RunsAgree ==
    ASSUME NEW D, NEW E, NEW base, NEW n \in Nat, NEW h, NEW g, NEW r, NEW q, NEW m \in Nat, n <= m,
           IsRun(r, n, base, h, D), IsRun(q, m, base, g, E),
           Agree(h, g, n, D)
    PROVE  \A k \in 0..n : r[k] = q[k]
<1> DEFINE T == {k \in 0..n : r[k] = q[k]}
<1>1. 0 \in T
  BY DEF IsRun
<1>2. ASSUME NEW k \in 1..n, k - 1 \in T PROVE k \in T
  <2>1. k - 1 \in 0..n /\ k \in 1..m
    OBVIOUS
  <2> QED
    BY <1>2, <2>1 DEF IsRun, Agree
<1>3. \A k \in 0..n : k \in T
  <2> HIDE DEF T
  <2> QED
    BY <1>1, <1>2, Induction
<1> QED
  BY <1>3
\* A fold of no elements is its base.
LEMMA FoldOfNone ==
    ASSUME NEW D, NEW base, NEW h, NEW value, FoldsTo(value, 0, base, h, D)
    PROVE  value = base
BY DEF FoldsTo, IsRun

\* One more element is one more operation.
LEMMA FoldOfOneMore ==
    ASSUME NEW D, NEW base, NEW n \in Nat, NEW h, NEW g, NEW value, NEW next,
           FoldsTo(value, n, base, h, D), FoldsTo(next, n + 1, base, g, D),
           Agree(h, g, n, D)
    PROVE  value \in D /\ next = g[n + 1][value]
<1>1. PICK r : IsRun(r, n, base, h, D) /\ r[n] = value
  BY DEF FoldsTo
<1>2. PICK q : IsRun(q, n + 1, base, g, D) /\ q[n + 1] = next
  BY DEF FoldsTo
<1>3. \A k \in 0..n : r[k] = q[k]
  <2> DEFINE m == n + 1
  <2>1. m \in Nat /\ n <= m
    OBVIOUS
  <2>2. IsRun(q, m, base, g, D)
    BY <1>2
  <2> HIDE DEF m
  <2> QED
    BY <1>1, <2>1, <2>2, RunsAgree
<1>4. n \in 0..n /\ n + 1 \in 1..(n + 1) /\ (n + 1) - 1 = n
  OBVIOUS
<1> QED
  BY <1>1, <1>2, <1>3, <1>4 DEF IsRun

\* A sequence without its last element.
LEMMA AllButLast ==
    ASSUME NEW S, NEW n \in Nat, NEW s \in [1..(n + 1) -> S]
    PROVE  /\ [i \in 1..n |-> s[i]] \in [1..n -> S]
           /\ s[n + 1] \in S
           /\ s = Append([i \in 1..n |-> s[i]], s[n + 1])
<1> DEFINE t == [i \in 1..n |-> s[i]]
<1>1. t \in [1..n -> S] /\ s[n + 1] \in S
  OBVIOUS
<1>2. s = Append(t, s[n + 1])
  <2>1. s \in Seq(S) /\ t \in Seq(S) /\ Len(s) = n + 1 /\ Len(t) = n
    OBVIOUS
  <2>2. Append(t, s[n + 1]) \in Seq(S) /\ Len(Append(t, s[n + 1])) = n + 1
    BY <1>1, <2>1
  <2>3. \A i \in 1..(n + 1) : s[i] = Append(t, s[n + 1])[i]
    <3> SUFFICES ASSUME NEW i \in 1..(n + 1) PROVE s[i] = Append(t, s[n + 1])[i]
      OBVIOUS
    <3>1. CASE i = n + 1
      BY <2>1, <3>1
    <3>2. CASE i # n + 1
      <4>1. i \in 1..n
        BY <3>2
      <4> QED
        BY <2>1, <4>1
    <3> QED
      BY <3>1, <3>2
  <2> HIDE DEF t
  <2> QED
    BY <2>1, <2>2, <2>3, SeqEqual
<1> QED
  BY <1>1, <1>2

\* Induction over sequences: what holds of the empty sequence, and of a sequence
\* with one more element, holds of all.
LEMMA SequenceInduction ==
    ASSUME NEW S, NEW T, <<>> \in T,
           \A s \in Seq(S) : \A e \in S : s \in T => Append(s, e) \in T
    PROVE  Seq(S) \subseteq T
<1> SUFFICES ASSUME NEW s \in Seq(S) PROVE s \in T
  OBVIOUS
<1> DEFINE n == Len(s)
<1> DEFINE Good == {k \in 0..n : \A t \in [1..k -> S] : t \in T}
<1>1. n \in Nat /\ s \in [1..n -> S]
  OBVIOUS
<1> HIDE DEF n
<1>2. 0 \in Good
  <2>1. \A t \in [1..0 -> S] : t = <<>>
    <3> SUFFICES ASSUME NEW t \in [1..0 -> S] PROVE t = <<>>
      OBVIOUS
    <3>1. t \in Seq(S) /\ Len(t) = 0
      OBVIOUS
    <3> QED
      BY <3>1
  <2> QED
    BY <1>1, <2>1
<1>3. ASSUME NEW k \in 1..n, k - 1 \in Good PROVE k \in Good
  <2> SUFFICES ASSUME NEW t \in [1..k -> S] PROVE t \in T
    BY <1>1, <1>3
  <2> DEFINE j == k - 1
  <2>1. j \in Nat /\ k = j + 1
    BY <1>1
  <2>2. PICK u \in [1..j -> S] : t[k] \in S /\ t = Append(u, t[k])
    <3> HIDE DEF j
    <3> QED
      BY <2>1, AllButLast
  <2>3. u \in T
    BY <1>3
  <2>4. u \in Seq(S)
    BY <2>1
  <2> QED
    BY <2>2, <2>3, <2>4
<1>4. \A k \in 0..n : k \in Good
  <2> HIDE DEF Good
  <2> QED
    BY <1>1, <1>2, <1>3, Induction
<1>5. n \in Good
  BY <1>1, <1>4
<1> QED
  BY <1>1, <1>5

\* The operation at each place of a sequence, given the operation for each element.
AtPlaces(h, s) == [i \in 1..Len(s) |-> h[s[i]]]

\* A function that is a fold for every sequence.
FoldsAll(f, S, base, h, D) == \A s \in Seq(S) : FoldsTo(f[s], Len(s), base, AtPlaces(h, s), D)

\* A function that is the base for the empty sequence and takes one step for one
\* more element.
StepsThrough(f, S, base, h, D) ==
    /\ f[<<>>] = base
    /\ \A s \in Seq(S) : f[s] \in D
    /\ \A s \in Seq(S) : \A e \in S : f[Append(s, e)] = h[e][f[s]]

\* The first is the second.
LEMMA FoldSteps ==
    ASSUME NEW S, NEW D, NEW base, NEW h, NEW f, FoldsAll(f, S, base, h, D)
    PROVE  StepsThrough(f, S, base, h, D)
<1>0. \A s \in Seq(S) : FoldsTo(f[s], Len(s), base, AtPlaces(h, s), D)
  BY DEF FoldsAll
<1>1. f[<<>>] = base
  <2>1. <<>> \in Seq(S) /\ Len(<<>>) = 0
    OBVIOUS
  <2>2. FoldsTo(f[<<>>], 0, base, AtPlaces(h, <<>>), D)
    BY <1>0, <2>1
  <2> QED
    BY <2>2, FoldOfNone
<1>2. ASSUME NEW s \in Seq(S), NEW e \in S PROVE f[s] \in D /\ f[Append(s, e)] = h[e][f[s]]
  <2> DEFINE n == Len(s)
  <2> DEFINE t == Append(s, e)
  <2>1. n \in Nat /\ t \in Seq(S) /\ Len(t) = n + 1 /\ t[n + 1] = e /\ \A i \in 1..n : t[i] = s[i]
    OBVIOUS
  <2> HIDE DEF t
  <2>2. FoldsTo(f[s], n, base, AtPlaces(h, s), D) /\ FoldsTo(f[t], n + 1, base, AtPlaces(h, t), D)
    BY <1>0, <2>1
  <2>3. Agree(AtPlaces(h, s), AtPlaces(h, t), n, D)
    <3> SUFFICES ASSUME NEW k \in 1..n, NEW x \in D
                 PROVE AtPlaces(h, s)[k][x] = AtPlaces(h, t)[k][x]
      BY DEF Agree
    <3>1. k \in 1..Len(s) /\ k \in 1..Len(t)
      BY <2>1
    <3> QED
      BY <2>1, <3>1 DEF AtPlaces
  <2>4. f[s] \in D /\ f[t] = AtPlaces(h, t)[n + 1][f[s]]
    <3> HIDE DEF n
    <3> QED
      BY <2>1, <2>2, <2>3, FoldOfOneMore
  <2>5. n + 1 \in 1..Len(t)
    BY <2>1
  <2> QED
    BY <2>1, <2>4, <2>5 DEF AtPlaces, t
<1>3. ASSUME NEW s \in Seq(S) PROVE f[s] \in D
  <2>1. Len(s) \in 0..Len(s)
    OBVIOUS
  <2> QED
    BY <1>0, <2>1 DEF FoldsTo, IsRun
<1> QED
  BY <1>1, <1>2, <1>3 DEF StepsThrough

-----------------------------------------------------------------------------
(* Folds over pieces: the bytes of a text, and the text of what was inserted *)

\* What each piece adds to the bytes of a text.
AddsSize(s) == [i \in 1..Len(s) |-> [x \in Nat |-> x + s[i].size]]

\* The bytes of a text are counted piece by piece.
LEMMA BytesFolds ==
    ASSUME NEW P, \A p \in P : p.size \in Nat, NEW s \in Seq(P)
    PROVE  FoldsTo(Bytes(s), Len(s), 0, AddsSize(s), Nat)
<1> DEFINE n == Len(s)
<1> DEFINE h == AddsSize(s)
<1> DEFINE Fold(f) == [t \in SUBSET DOMAIN s |->
                         IF t = {} THEN 0 ELSE LET x == Max(t) IN f[t \ {x}] + s[x].size]
<1> DEFINE fold == CHOOSE f : f = Fold(f)
<1>1. n \in Nat /\ DOMAIN s = 1..n /\ 0 \in Nat
  OBVIOUS
<1>2. \A i \in 1..n : \A x \in Nat : h[i][x] = x + s[i].size
  BY DEF AddsSize
<1>3. h \in [1..n -> [Nat -> Nat]]
  <2>1. \A i \in 1..n : \A x \in Nat : x + s[i].size \in Nat
    OBVIOUS
  <2> QED
    BY <2>1 DEF AddsSize
<1>4. Bytes(s) = fold[DOMAIN s]
  BY DEF Bytes, FoldLeft, MapThenFoldSet
<1> HIDE DEF h, n, fold
<1>5. PICK g \in [SUBSET (1..n) -> Nat] : FoldsUpTo(g, n, 0, h)
  BY <1>1, <1>3, FoldExists
<1>6. g = Fold(g)
  <2>1. ASSUME NEW t \in SUBSET (1..n), t # {}
        PROVE  h[Max(t)][g[t \ {Max(t)}]] = g[t \ {Max(t)}] + s[Max(t)].size
    <3>1. Max(t) \in 1..n /\ t \ {Max(t)} \in SUBSET (1..n)
      BY <1>1, <2>1, LastPlace
    <3> QED
      BY <1>2, <3>1
  <2> QED
    BY <1>1, <1>5, <2>1 DEF FoldsUpTo
<1>7. fold = Fold(fold)
  <2> HIDE DEF Fold
  <2> QED
    BY <1>6 DEF fold
<1>8. fold[{}] = 0
  BY <1>7
<1>9. ASSUME NEW t \in SUBSET (1..n), t # {}, fold[t \ {Max(t)}] \in Nat
      PROVE  fold[t] = h[Max(t)][fold[t \ {Max(t)}]]
  <2>1. Max(t) \in 1..n
    BY <1>1, <1>9, LastPlace
  <2>2. fold[t] = fold[t \ {Max(t)}] + s[Max(t)].size
    BY <1>1, <1>7, <1>9
  <2> QED
    BY <1>2, <1>9, <2>1, <2>2
<1>10. Computes(fold, n, 0, h, Nat)
  BY <1>8, <1>9 DEF Computes
<1> QED
  <2>1. FoldsTo(fold[1..n], n, 0, h, Nat)
    BY <1>1, <1>3, <1>10, FoldRuns
  <2> QED
    BY <1>1, <1>4, <2>1 DEF h, n

\* Counting bytes: none, and one more piece.
LEMMA BytesOfText ==
    ASSUME NEW P, \A p \in P : p.size \in Nat
    PROVE  /\ Bytes(<<>>) = 0
           /\ \A s \in Seq(P) : Bytes(s) \in Nat
           /\ \A s \in Seq(P) : \A p \in P : Bytes(Append(s, p)) = Bytes(s) + p.size
<1>1. Bytes(<<>>) = 0
  <2>1. <<>> \in Seq(P) /\ Len(<<>>) = 0
    OBVIOUS
  <2>2. FoldsTo(Bytes(<<>>), 0, 0, AddsSize(<<>>), Nat)
    BY <2>1, BytesFolds
  <2> QED
    BY <2>2, FoldOfNone
<1>2. ASSUME NEW s \in Seq(P) PROVE Bytes(s) \in Nat
  <2>1. Len(s) \in 0..Len(s)
    OBVIOUS
  <2> QED
    BY <2>1, BytesFolds DEF FoldsTo, IsRun
<1>3. ASSUME NEW s \in Seq(P), NEW p \in P PROVE Bytes(Append(s, p)) = Bytes(s) + p.size
  <2> DEFINE n == Len(s)
  <2> DEFINE t == Append(s, p)
  <2>1. n \in Nat /\ t \in Seq(P) /\ Len(t) = n + 1 /\ t[n + 1] = p /\ \A i \in 1..n : t[i] = s[i]
    OBVIOUS
  <2> HIDE DEF t
  <2>2. FoldsTo(Bytes(s), n, 0, AddsSize(s), Nat) /\ FoldsTo(Bytes(t), n + 1, 0, AddsSize(t), Nat)
    BY <2>1, BytesFolds
  <2>3. Agree(AddsSize(s), AddsSize(t), n, Nat)
    <3> SUFFICES ASSUME NEW k \in 1..n, NEW x \in Nat PROVE AddsSize(s)[k][x] = AddsSize(t)[k][x]
      BY DEF Agree
    <3>1. k \in 1..Len(s) /\ k \in 1..Len(t)
      BY <2>1
    <3> QED
      BY <2>1, <3>1 DEF AddsSize
  <2>4. Bytes(t) = AddsSize(t)[n + 1][Bytes(s)]
    <3> HIDE DEF n
    <3> QED
      BY <2>1, <2>2, <2>3, FoldOfOneMore
  <2>5. Bytes(s) \in Nat /\ n + 1 \in 1..Len(t)
    BY <1>2, <2>1
  <2> QED
    BY <2>1, <2>4, <2>5 DEF AddsSize, t
<1> QED
  BY <1>1, <1>2, <1>3

\* A text with one more piece.
WithPiece(text, p) == IF p.size = 0 THEN text ELSE Append(text, p)

\* What each piece adds to a text.
AddsPiece(s, P) == [i \in 1..Len(s) |-> [x \in Seq(P) |-> WithPiece(x, s[i])]]

\* A text is put together piece by piece.
LEMMA TextFolds ==
    ASSUME NEW P, NEW s \in Seq(P)
    PROVE  FoldsTo(TextOf(s), Len(s), <<>>, AddsPiece(s, P), Seq(P))
<1> DEFINE n == Len(s)
<1> DEFINE h == AddsPiece(s, P)
<1> DEFINE Fold(f) == [t \in SUBSET DOMAIN s |->
                         IF t = {} THEN <<>> ELSE LET x == Max(t) IN WithPiece(f[t \ {x}], s[x])]
<1> DEFINE fold == CHOOSE f : f = Fold(f)
<1>1. n \in Nat /\ DOMAIN s = 1..n /\ <<>> \in Seq(P)
  OBVIOUS
<1>2. \A i \in 1..n : \A x \in Seq(P) : h[i][x] = WithPiece(x, s[i])
  BY DEF AddsPiece
<1>3. h \in [1..n -> [Seq(P) -> Seq(P)]]
  <2>1. \A i \in 1..n : \A x \in Seq(P) : WithPiece(x, s[i]) \in Seq(P)
    BY DEF WithPiece
  <2> QED
    BY <2>1 DEF AddsPiece
<1>4. TextOf(s) = fold[DOMAIN s]
  BY DEF TextOf, FoldLeft, MapThenFoldSet, WithPiece
<1> HIDE DEF h, n, fold
<1>5. PICK g \in [SUBSET (1..n) -> Seq(P)] : FoldsUpTo(g, n, <<>>, h)
  BY <1>1, <1>3, FoldExists
<1>6. g = Fold(g)
  <2>1. ASSUME NEW t \in SUBSET (1..n), t # {}
        PROVE  h[Max(t)][g[t \ {Max(t)}]] = WithPiece(g[t \ {Max(t)}], s[Max(t)])
    <3>1. Max(t) \in 1..n /\ t \ {Max(t)} \in SUBSET (1..n)
      BY <1>1, <2>1, LastPlace
    <3> QED
      BY <1>2, <3>1
  <2> QED
    BY <1>1, <1>5, <2>1 DEF FoldsUpTo
<1>7. fold = Fold(fold)
  <2> HIDE DEF Fold
  <2> QED
    BY <1>6 DEF fold
<1>8. fold[{}] = <<>>
  BY <1>7
<1>9. ASSUME NEW t \in SUBSET (1..n), t # {}, fold[t \ {Max(t)}] \in Seq(P)
      PROVE  fold[t] = h[Max(t)][fold[t \ {Max(t)}]]
  <2>1. Max(t) \in 1..n
    BY <1>1, <1>9, LastPlace
  <2>2. fold[t] = WithPiece(fold[t \ {Max(t)}], s[Max(t)])
    BY <1>1, <1>7, <1>9
  <2> QED
    BY <1>2, <1>9, <2>1, <2>2
<1>10. Computes(fold, n, <<>>, h, Seq(P))
  BY <1>8, <1>9 DEF Computes
<1> QED
  <2>1. FoldsTo(fold[1..n], n, <<>>, h, Seq(P))
    BY <1>1, <1>3, <1>10, FoldRuns
  <2> QED
    BY <1>1, <1>4, <2>1 DEF h, n

\* The text of pieces: none, and one more.
LEMMA TextOfPieces ==
    ASSUME NEW P
    PROVE  /\ TextOf(<<>>) = <<>>
           /\ \A s \in Seq(P) : TextOf(s) \in Seq(P)
           /\ \A s \in Seq(P) : \A p \in P : TextOf(Append(s, p)) = WithPiece(TextOf(s), p)
<1>1. TextOf(<<>>) = <<>>
  <2>1. <<>> \in Seq(P) /\ Len(<<>>) = 0
    OBVIOUS
  <2>2. FoldsTo(TextOf(<<>>), 0, <<>>, AddsPiece(<<>>, P), Seq(P))
    BY <2>1, TextFolds
  <2> QED
    BY <2>2, FoldOfNone
<1>2. ASSUME NEW s \in Seq(P) PROVE TextOf(s) \in Seq(P)
  <2>1. Len(s) \in 0..Len(s)
    OBVIOUS
  <2> QED
    BY <2>1, TextFolds DEF FoldsTo, IsRun
<1>3. ASSUME NEW s \in Seq(P), NEW p \in P PROVE TextOf(Append(s, p)) = WithPiece(TextOf(s), p)
  <2> DEFINE n == Len(s)
  <2> DEFINE t == Append(s, p)
  <2>1. n \in Nat /\ t \in Seq(P) /\ Len(t) = n + 1 /\ t[n + 1] = p /\ \A i \in 1..n : t[i] = s[i]
    OBVIOUS
  <2> HIDE DEF t
  <2>2. FoldsTo(TextOf(s), n, <<>>, AddsPiece(s, P), Seq(P))
        /\ FoldsTo(TextOf(t), n + 1, <<>>, AddsPiece(t, P), Seq(P))
    BY <2>1, TextFolds
  <2>3. Agree(AddsPiece(s, P), AddsPiece(t, P), n, Seq(P))
    <3> SUFFICES ASSUME NEW k \in 1..n, NEW x \in Seq(P)
                 PROVE AddsPiece(s, P)[k][x] = AddsPiece(t, P)[k][x]
      BY DEF Agree
    <3>1. k \in 1..Len(s) /\ k \in 1..Len(t)
      BY <2>1
    <3> QED
      BY <2>1, <3>1 DEF AddsPiece
  <2>4. TextOf(t) = AddsPiece(t, P)[n + 1][TextOf(s)]
    <3> HIDE DEF n
    <3> QED
      BY <2>1, <2>2, <2>3, FoldOfOneMore
  <2>5. TextOf(s) \in Seq(P) /\ n + 1 \in 1..Len(t)
    BY <1>2, <2>1
  <2> QED
    BY <2>1, <2>4, <2>5 DEF AddsPiece, t
<1> QED
  BY <1>1, <1>2, <1>3
=============================================================================
