--------------------------- MODULE Filters_proofs ---------------------------
(***************************************************************************)
(* Proofs about the operators of the filters and of segmentation, for any  *)
(* text: the cuts of a text into pieces are the text, the units that the   *)
(* filters of single texts find are pieces of them that no two rows can    *)
(* confuse, an XLIFF content rendered from a translation is read as that   *)
(* translation, and a plain text in which paragraphs stand in the place of *)
(* paragraphs has the same blank lines between them.                       *)
(***************************************************************************)
EXTENDS XliffFilter, TLAPS, SequenceTheorems, FunctionTheorems, FiniteSetTheorems

-----------------------------------------------------------------------------
(* Induction, folds, and sets in order *)

(***************************************************************************)
(* Induction over 0..N, for a set in the place of a predicate.  A gap in T *)
(* would make i |-> i + 1 a map of a finite set into itself without 0.     *)
(***************************************************************************)
LEMMA Ascent ==
  ASSUME NEW N \in Nat, NEW T, 0 \in T, \A i \in 0..N : i \in T /\ i < N => i + 1 \in T
  PROVE  \A i \in 0..N : i \in T
<1> SUFFICES ASSUME NEW m \in 0..N, m \notin T PROVE FALSE
  OBVIOUS
<1> DEFINE D == {i \in 0..m : i \in T}
           f == [i \in D |-> i + 1]
<1>1. IsFiniteSet(D)
  <2>1. IsFiniteSet(0..m) /\ D \in SUBSET (0..m)
    BY FS_Interval
  <2> HIDE DEF D
  <2> QED BY <2>1, FS_Subset
<1>2. IsFiniteSet(D \ {0}) /\ Cardinality(D \ {0}) = Cardinality(D) - 1 /\ Cardinality(D) \in Nat
  <2>1. 0 \in D
    OBVIOUS
  <2> HIDE DEF D
  <2> QED BY <1>1, <2>1, FS_RemoveElement, FS_CardinalityType
<1>3. f \in Injection(D, D \ {0})
  <2>1. \A i \in D : i + 1 \in D \ {0}
    <3> SUFFICES ASSUME NEW i \in 0..m, i \in T PROVE i + 1 \in 0..m /\ i + 1 \in T /\ i + 1 # 0
      OBVIOUS
    <3>1. i # m
      OBVIOUS
    <3> QED BY <3>1
  <2>2. f \in [D -> D \ {0}]
    BY <2>1
  <2>3. \A i, j \in D : f[i] = f[j] => i = j
    OBVIOUS
  <2> HIDE DEF f, D
  <2> QED BY <2>2, <2>3, Fun_IsInj
<1>4. Cardinality(D) <= Cardinality(D \ {0})
  <2> HIDE DEF f, D
  <2> QED BY <1>2, <1>3, FS_Injection
<1> HIDE DEF D
<1> QED
  BY <1>2, <1>4

LEMMA MaxIn ==
  ASSUME NEW n \in Nat, NEW A \in SUBSET (1..n), A # {}
  PROVE  Max(A) \in A /\ \A y \in A : Max(A) >= y
<1> DEFINE T == {k \in Nat : \A B \in SUBSET (1..k) : B # {} => \E x \in B : \A y \in B : x >= y}
<1>1. 0 \in T
  <2>1. 1..0 = {}
    OBVIOUS
  <2> QED BY <2>1
<1>2. ASSUME NEW k \in 0..n, k \in T, k < n PROVE k + 1 \in T
  <2> SUFFICES ASSUME NEW B \in SUBSET (1..(k + 1)), B # {}
               PROVE  \E x \in B : \A y \in B : x >= y
    OBVIOUS
  <2>1. CASE k + 1 \in B
    BY <2>1
  <2>2. CASE k + 1 \notin B
    <3>1. B \in SUBSET (1..k)
      BY <2>2
    <3> QED BY <1>2, <3>1
  <2> QED BY <2>1, <2>2
<1>3. n \in T
  <2> HIDE DEF T
  <2> QED BY <1>1, <1>2, Ascent
<1>4. \E x \in A : \A y \in A : x >= y
  BY <1>3
<1> QED
  BY <1>4 DEF Max

(***************************************************************************)
(* The function that FoldLeft computes with exists: Op[i] is what the i-th *)
(* element of the sequence does to a value of S.                           *)
(***************************************************************************)
FoldsTo(N, base, Op, g) ==
  \A s \in SUBSET (1..N) : g[s] = IF s = {} THEN base ELSE Op[Max(s)][g[s \ {Max(s)}]]

LEMMA FoldExists ==
  ASSUME NEW N \in Nat, NEW S, NEW base \in S, NEW Op \in [1..N -> [S -> S]]
  PROVE  \E g \in [SUBSET (1..N) -> S] : FoldsTo(N, base, Op, g)
<1> DEFINE Folded(k, g) == FoldsTo(k, base, Op, g)
           T == {k \in Nat : \E g \in [SUBSET (1..k) -> S] : Folded(k, g)}
<1>1. 0 \in T
  <2> DEFINE g == [s \in SUBSET (1..0) |-> base]
  <2>1. g \in [SUBSET (1..0) -> S] /\ Folded(0, g)
    BY DEF FoldsTo
  <2> QED BY <2>1
<1>2. ASSUME NEW k \in 0..N, k \in T, k < N PROVE k + 1 \in T
  <2>1. PICK g \in [SUBSET (1..k) -> S] : Folded(k, g)
    BY <1>2
  <2> DEFINE h == [s \in SUBSET (1..(k + 1)) |->
                     IF k + 1 \in s THEN Op[k + 1][g[s \ {k + 1}]] ELSE g[s]]
  <2>2. k + 1 \in 1..N /\ k + 1 \in Nat
    BY <1>2
  <2>3. \A s \in SUBSET (1..(k + 1)) : k + 1 \in s => s \ {k + 1} \in SUBSET (1..k)
    OBVIOUS
  <2>4. \A s \in SUBSET (1..(k + 1)) : k + 1 \notin s => s \in SUBSET (1..k)
    OBVIOUS
  <2>5. h \in [SUBSET (1..(k + 1)) -> S]
    BY <2>2, <2>3, <2>4
  <2>6. \A s \in SUBSET (1..k) : h[s] = g[s]
    OBVIOUS
  <2>7. ASSUME NEW s \in SUBSET (1..(k + 1))
        PROVE  h[s] = IF s = {} THEN base ELSE Op[Max(s)][h[s \ {Max(s)}]]
    <3>1. CASE k + 1 \in s
      <4>1. Max(s) = k + 1
        <5>1. Max(s) \in s /\ \A y \in s : Max(s) >= y
          BY <2>2, <3>1, MaxIn
        <5>2. Max(s) \in 1..(k + 1) /\ Max(s) >= k + 1
          BY <3>1, <5>1
        <5> QED BY <5>2
      <4>2. h[s \ {k + 1}] = g[s \ {k + 1}]
        BY <2>3, <2>6, <3>1
      <4> QED BY <3>1, <4>1, <4>2
    <3>2. CASE k + 1 \notin s
      <4>1. s \in SUBSET (1..k) /\ h[s] = g[s]
        BY <2>4, <3>2
      <4>2. g[s] = IF s = {} THEN base ELSE Op[Max(s)][g[s \ {Max(s)}]]
        BY <2>1, <4>1 DEF FoldsTo
      <4>3. s \ {Max(s)} \in SUBSET (1..k)
        BY <4>1
      <4>4. h[s \ {Max(s)}] = g[s \ {Max(s)}]
        BY <2>6, <4>3
      <4> QED BY <4>1, <4>2, <4>4
    <3> QED BY <3>1, <3>2
  <2> HIDE DEF h
  <2>8. Folded(k + 1, h)
    BY <2>7 DEF FoldsTo
  <2> HIDE DEF Folded
  <2> QED BY <2>2, <2>5, <2>8
<1>3. N \in T
  <2> HIDE DEF T
  <2>1. \A k \in 0..N : k \in T /\ k < N => k + 1 \in T
    BY <1>2
  <2>2. N \in 0..N
    OBVIOUS
  <2> QED BY <1>1, <2>1, <2>2, Ascent
<1> QED
  BY <1>3

\* The prefixes of a sequence, which a fold goes through one by one.
LEMMA Prefix ==
  ASSUME NEW N \in Nat, NEW i \in 1..N
  PROVE  /\ (1..i) \in SUBSET (1..N) /\ 1..i # {} /\ (1..i) \ {i} = 1..(i - 1)
         /\ Max(1..i) = i
<1>1. i \in 1..i /\ i \in Nat
  OBVIOUS
<1>2. Max(1..i) \in 1..i /\ \A y \in 1..i : Max(1..i) >= y
  BY <1>1, MaxIn
<1>3. Max(1..i) = i
  BY <1>1, <1>2
<1> QED
  BY <1>1, <1>3

LEMMA Extremes ==
  ASSUME NEW n \in Nat, NEW A \in SUBSET (0..n), A # {}
  PROVE  /\ Max(A) \in A /\ \A y \in A : y <= Max(A)
         /\ Min(A) \in A /\ \A y \in A : Min(A) <= y
<1>1. \E x \in A : \A y \in A : x >= y
  <2> DEFINE T == {k \in Nat : \A B \in SUBSET (0..k) : B # {} => \E x \in B : \A y \in B : x >= y}
  <2>1. 0 \in T
    <3>1. 0..0 = {0} /\ 0 >= 0
      OBVIOUS
    <3>2. \A B \in SUBSET {0} : B # {} => B = {0}
      OBVIOUS
    <3> QED BY <3>1, <3>2
  <2>2. ASSUME NEW k \in 0..n, k \in T, k < n PROVE k + 1 \in T
    <3> SUFFICES ASSUME NEW B \in SUBSET (0..(k + 1)), B # {}
                 PROVE  \E x \in B : \A y \in B : x >= y
      OBVIOUS
    <3>1. CASE k + 1 \in B
      BY <3>1
    <3>2. CASE k + 1 \notin B
      <4>1. B \in SUBSET (0..k)
        BY <3>2
      <4> QED BY <2>2, <4>1
    <3> QED BY <3>1, <3>2
  <2>3. n \in T
    <3> HIDE DEF T
    <3> QED BY <2>1, <2>2, Ascent
  <2> QED BY <2>3
<1>2. \E x \in A : \A y \in A : x =< y
  <2> DEFINE T == {k \in Nat : (\E a \in A : a <= k) => \E x \in A : \A y \in A : x =< y}
  <2>1. 0 \in T
    <3> SUFFICES ASSUME NEW a \in A, a <= 0 PROVE \A y \in A : a =< y
      OBVIOUS
    <3> QED OBVIOUS
  <2>2. ASSUME NEW k \in 0..n, k \in T, k < n PROVE k + 1 \in T
    <3>1. CASE \E a \in A : a <= k
      BY <2>2, <3>1
    <3>2. CASE ~\E a \in A : a <= k
      <4>1. \A y \in A : k + 1 =< y
        BY <3>2
      <4>2. ASSUME NEW a \in A, a <= k + 1 PROVE \A y \in A : a =< y
        BY <4>1, <4>2
      <4> QED BY <4>2
    <3> QED BY <3>1, <3>2
  <2>3. n \in T
    <3> HIDE DEF T
    <3> QED BY <2>1, <2>2, Ascent
  <2>4. \E a \in A : a <= n
    <3>1. PICK a : a \in A
      OBVIOUS
    <3>2. a \in 0..n
      BY <3>1
    <3> QED BY <3>1, <3>2
  <2> QED BY <2>3, <2>4
<1>3. Max(A) \in A /\ \A y \in A : Max(A) >= y
  BY <1>1 DEF Max
<1>4. Min(A) \in A /\ \A y \in A : Min(A) =< y
  BY <1>2 DEF Min
<1>5. \A x, y \in A : x >= y => y <= x
  OBVIOUS
<1> QED BY <1>3, <1>4, <1>5

\* The numbers of a finite set, each at its rank.
LEMMA InOrderSorts ==
  ASSUME NEW n \in Nat, NEW S \in SUBSET (0..n)
  PROVE  /\ InOrder(S) \in [1..Cardinality(S) -> S] /\ Cardinality(S) \in Nat
         /\ \A j, k \in 1..Cardinality(S) : j < k => InOrder(S)[j] < InOrder(S)[k]
         /\ \A x \in S : \E k \in 1..Cardinality(S) : InOrder(S)[k] = x
<1> DEFINE N == Cardinality(S)
           upTo(x) == {y \in S : y <= x}
           rank == [x \in S |-> Cardinality(upTo(x))]
           at(k) == CHOOSE x \in S : Cardinality(upTo(x)) = k
<1>1. IsFiniteSet(S) /\ N \in Nat
  <2>1. IsFiniteSet(0..n)
    BY FS_Interval
  <2> QED BY <2>1, FS_Subset, FS_CardinalityType
<1>2. ASSUME NEW U \in SUBSET S
      PROVE  /\ IsFiniteSet(U) /\ Cardinality(U) \in Nat /\ Cardinality(U) <= N
             /\ \A V \in SUBSET U : V # U => Cardinality(V) < Cardinality(U)
             /\ U # {} => Cardinality(U) # 0
  <2>1. IsFiniteSet(U) /\ Cardinality(U) <= N /\ Cardinality(U) \in Nat
    BY <1>1, FS_Subset, FS_CardinalityType
  <2>2. ASSUME NEW V \in SUBSET U, V # U PROVE Cardinality(V) < Cardinality(U)
    <3>1. Cardinality(V) <= Cardinality(U) /\ Cardinality(V) # Cardinality(U) /\ IsFiniteSet(V)
      BY <2>1, <2>2, FS_Subset
    <3>2. Cardinality(V) \in Nat
      BY <3>1, FS_CardinalityType
    <3> QED BY <2>1, <3>1, <3>2
  <2>3. U # {} => Cardinality(U) # 0
    BY <2>1, FS_EmptySet
  <2> QED BY <2>1, <2>2, <2>3
<1>3. ASSUME NEW x \in S PROVE rank[x] \in 1..N /\ rank[x] = Cardinality(upTo(x))
  <2>1. upTo(x) \in SUBSET S /\ upTo(x) # {}
    OBVIOUS
  <2> HIDE DEF upTo
  <2> QED BY <1>1, <1>2, <2>1
<1>4. ASSUME NEW x \in S, NEW y \in S, x < y PROVE rank[x] < rank[y]
  <2>0. x \in 0..n /\ y \in 0..n /\ \A z \in S : z \in 0..n
    OBVIOUS
  <2>1. upTo(y) \in SUBSET S /\ upTo(x) \in SUBSET upTo(y) /\ upTo(x) # upTo(y)
    <3>1. y \in upTo(y) /\ y \notin upTo(x)
      BY <1>4, <2>0
    <3>2. \A z \in upTo(x) : z \in upTo(y)
      BY <1>4, <2>0
    <3> QED BY <3>1, <3>2
  <2> HIDE DEF upTo
  <2> QED BY <1>2, <2>1
<1>5. \A x, y \in S : rank[x] = rank[y] => x = y
  <2> SUFFICES ASSUME NEW x \in S, NEW y \in S, rank[x] = rank[y], x # y PROVE FALSE
    OBVIOUS
  <2>1. x < y \/ y < x
    OBVIOUS
  <2>2. rank[x] \in Nat /\ rank[y] \in Nat /\ (rank[x] < rank[y] \/ rank[y] < rank[x])
    BY <1>3, <1>4, <2>1
  <2> HIDE DEF rank
  <2> QED BY <2>2
<1>6. \A k \in 1..N : \E x \in S : rank[x] = k
  <2>1. rank \in Injection(S, 1..N)
    <3>1. rank \in [S -> 1..N]
      BY <1>3
    <3> HIDE DEF rank
    <3> QED BY <1>5, <3>1, Fun_IsInj
  <2>2. IsFiniteSet(1..N) /\ Cardinality(1..N) = N
    BY <1>1, FS_Interval
  <2>3. rank \in Surjection(S, 1..N)
    BY <1>1, <2>1, <2>2, FS_Injection
  <2> HIDE DEF rank, N
  <2> QED BY <2>3 DEF Surjection
<1>7. \A k \in 1..N : at(k) \in S /\ rank[at(k)] = k
  <2> SUFFICES ASSUME NEW k \in 1..N PROVE at(k) \in S /\ Cardinality(upTo(at(k))) = k
    BY <1>3
  <2>1. \E x \in S : Cardinality(upTo(x)) = k
    BY <1>3, <1>6
  <2> HIDE DEF upTo
  <2> QED BY <2>1
<1>8. InOrder(S) = [k \in 1..N |-> at(k)]
  BY DEF InOrder
<1> HIDE DEF N, rank, at
<1>9. InOrder(S) \in [1..N -> S] /\ \A k \in 1..N : InOrder(S)[k] = at(k)
  BY <1>7, <1>8
<1>10. ASSUME NEW j \in 1..N, NEW k \in 1..N, j < k PROVE at(j) < at(k)
  <2>1. at(j) \in 0..n /\ at(k) \in 0..n /\ rank[at(j)] = j /\ rank[at(k)] = k
    BY <1>7
  <2>2. j \in Nat /\ k \in Nat
    BY <1>1
  <2>3. ~(at(k) < at(j)) /\ at(k) # at(j)
    BY <1>4, <1>7, <1>10, <2>1, <2>2
  <2> QED BY <2>1, <2>3
<1>11. ASSUME NEW x \in S PROVE \E k \in 1..N : at(k) = x
  <2>1. rank[x] \in 1..N
    BY <1>3
  <2> QED BY <1>5, <1>7, <2>1
<1> QED BY <1>1, <1>9, <1>10, <1>11 DEF N

\* The runs of a set of positions, in order.
AreRuns(P, runs) ==
  /\ runs \in Seq([from : P, to : P])
  /\ \A k \in 1..Len(runs) :
       /\ runs[k].from <= runs[k].to /\ runs[k].from..runs[k].to \subseteq P
       /\ runs[k].from - 1 \notin P /\ runs[k].to + 1 \notin P
  /\ \A j, k \in 1..Len(runs) : j < k => runs[j].to < runs[k].from
  /\ \A i \in P : \E k \in 1..Len(runs) : runs[k].from <= i /\ i <= runs[k].to

Lists(runs, X) == \A r \in X : \E k \in 1..Len(runs) : runs[k] = r

LEMMA RunsSorted ==
  ASSUME NEW n \in Nat, NEW P \in SUBSET (1..n), NEW runs, runs = ByStart(RunsOf(P))
  PROVE  AreRuns(P, runs) /\ Lists(runs, RunsOf(P))
<1> DEFINE starts == {i \in P : i - 1 \notin P}
           stops(i) == {j \in P : j >= i /\ j + 1 \notin P}
           endOf(i) == Min(stops(i))
           run(i) == [from |-> i, to |-> endOf(i)]
<1>1. ASSUME NEW i \in P PROVE stops(i) \in SUBSET (0..n) /\ stops(i) # {}
  <2>1. P \in SUBSET (0..n) /\ P # {}
    <3>1. \A x \in 1..n : x \in 0..n
      OBVIOUS
    <3> QED BY <3>1
  <2>2. Max(P) \in P /\ \A y \in P : y <= Max(P)
    BY <2>1, Extremes
  <2>3. PICK m \in P : \A y \in P : y <= m
    BY <2>2
  <2>4. m \in 1..n /\ i \in 1..n /\ i <= m
    BY <2>3
  <2>5. m + 1 \notin P
    <3> SUFFICES ASSUME m + 1 \in P PROVE FALSE
      OBVIOUS
    <3>1. m + 1 <= m
      BY <2>3
    <3> QED BY <2>4, <3>1
  <2>6. m >= i
    BY <2>4
  <2>7. m \in stops(i)
    BY <2>5, <2>6
  <2>8. stops(i) \in SUBSET P
    OBVIOUS
  <2> QED BY <2>1, <2>7, <2>8
<1>2. ASSUME NEW i \in P
      PROVE  /\ endOf(i) \in P /\ endOf(i) >= i /\ endOf(i) + 1 \notin P
             /\ \A j \in P : j >= i /\ j + 1 \notin P => endOf(i) <= j
  <2>1. Min(stops(i)) \in stops(i) /\ \A y \in stops(i) : Min(stops(i)) <= y
    <3> HIDE DEF stops
    <3> QED BY <1>1, Extremes
  <2> QED BY <2>1
<1> HIDE DEF endOf
<1>3. ASSUME NEW i \in P PROVE i..endOf(i) \subseteq P
  <2> DEFINE T == {k \in Nat : i + k <= endOf(i) => i + k \in P}
  <2>1. i \in 1..n /\ endOf(i) \in 1..n
    BY <1>2
  <2>2. 0 \in T
    BY <2>1
  <2>3. ASSUME NEW k \in 0..n, k \in T, k < n PROVE k + 1 \in T
    <3> SUFFICES ASSUME i + (k + 1) <= endOf(i) PROVE i + (k + 1) \in P
      BY <2>3
    <3>1. i + k \in P /\ i + k >= i /\ i + k < endOf(i) /\ i + (k + 1) = (i + k) + 1
      BY <2>1, <2>3
    <3>2. ~(endOf(i) <= i + k)
      BY <2>1, <3>1
    <3> QED BY <1>2, <3>1, <3>2
  <2>4. \A k \in 0..n : k \in T
    <3> HIDE DEF T
    <3> QED BY <2>2, <2>3, Ascent
  <2>5. ASSUME NEW j \in i..endOf(i) PROVE j \in P
    <3>1. j - i \in 0..n /\ i + (j - i) = j /\ j <= endOf(i)
      BY <2>1
    <3>2. j - i \in T
      BY <2>4, <3>1
    <3> QED BY <3>1, <3>2
  <2> QED BY <2>5
<1>4. ASSUME NEW i \in starts, NEW j \in starts, i < j PROVE endOf(i) < j
  <2> SUFFICES ASSUME ~(endOf(i) < j) PROVE FALSE
    OBVIOUS
  <2>1. i \in P /\ i \in 1..n /\ j \in 1..n /\ endOf(i) \in 1..n /\ j - 1 \notin P
    BY <1>2
  <2>2. j - 1 \in i..endOf(i)
    BY <1>4, <2>1
  <2> QED BY <1>3, <2>1, <2>2
<1>5. ASSUME NEW i \in P PROVE \E s \in starts : s <= i /\ i <= endOf(s)
  <2> DEFINE T == {k \in Nat : k \in P => \E s \in starts : s <= k /\ s..k \subseteq P}
  <2>1. 0 \in T
    OBVIOUS
  <2>2. ASSUME NEW k \in 0..n, k \in T, k < n PROVE k + 1 \in T
    <3> SUFFICES ASSUME k + 1 \in P PROVE \E s \in starts : s <= k + 1 /\ s..(k + 1) \subseteq P
      BY <2>2
    <3>1. CASE k \in P
      <4>1. PICK s \in starts : s <= k /\ s..k \subseteq P
        BY <2>2, <3>1
      <4>2. s \in 1..n /\ s <= k + 1
        BY <4>1
      <4>3. \A x \in s..(k + 1) : x \in s..k \/ x = k + 1
        BY <4>2
      <4>4. s..(k + 1) \subseteq P
        BY <4>1, <4>3
      <4> QED BY <4>2, <4>4
    <3>2. CASE k \notin P
      <4>1. k + 1 \in starts /\ k + 1 <= k + 1
        BY <3>2
      <4>2. (k + 1)..(k + 1) = {k + 1}
        OBVIOUS
      <4> QED BY <4>1, <4>2
    <3> QED BY <3>1, <3>2
  <2>3. \A k \in 0..n : k \in T
    <3> HIDE DEF T
    <3> QED BY <2>1, <2>2, Ascent
  <2>4. i \in 0..n
    OBVIOUS
  <2>5. PICK s \in starts : s <= i /\ s..i \subseteq P
    BY <2>3, <2>4
  <2>6. s \in P /\ s \in 1..n /\ endOf(s) \in 1..n /\ endOf(s) >= s /\ endOf(s) + 1 \notin P
    BY <1>2
  <2>7. i <= endOf(s)
    <3> SUFFICES ASSUME ~(i <= endOf(s)) PROVE FALSE
      OBVIOUS
    <3>1. endOf(s) + 1 \in s..i
      BY <2>4, <2>6
    <3> QED BY <2>5, <2>6, <3>1
  <2> QED BY <2>5, <2>7
<1>6. RunsOf(P) = {run(i) : i \in starts}
  BY DEF RunsOf, endOf
<1>7. {r.from : r \in RunsOf(P)} = starts
  <2>1. \A i : run(i).from = i
    OBVIOUS
  <2> HIDE DEF run, starts
  <2> QED BY <1>6, <2>1
<1>8. \A i \in starts : (CHOOSE r \in RunsOf(P) : r.from = i) = run(i)
  <2> TAKE i \in starts
  <2>1. \A r \in RunsOf(P) : r.from = i <=> r = run(i)
    BY <1>6
  <2>2. run(i) \in RunsOf(P)
    BY <1>6
  <2> HIDE DEF run, starts
  <2> QED BY <2>1, <2>2
<1>9. starts \in SUBSET (0..n) /\ starts \in SUBSET P
  <2>1. \A x \in 1..n : x \in 0..n
    OBVIOUS
  <2>2. starts \in SUBSET P
    OBVIOUS
  <2> HIDE DEF starts
  <2> QED BY <2>1, <2>2
<1> DEFINE N == Cardinality(starts)
           order == InOrder(starts)
<1>10. /\ order \in [1..N -> starts] /\ N \in Nat
       /\ \A j, k \in 1..N : j < k => order[j] < order[k]
       /\ \A x \in starts : \E k \in 1..N : order[k] = x
  <2> HIDE DEF starts
  <2> QED BY <1>9, InOrderSorts
<1>11. runs = [k \in 1..N |-> run(order[k])]
  <2>1. runs = [k \in DOMAIN order |-> CHOOSE r \in RunsOf(P) : r.from = order[k]]
    <3> DEFINE froms == {r.from : r \in RunsOf(P)}
    <3>1. runs = [k \in DOMAIN InOrder(froms) |->
                    CHOOSE r \in RunsOf(P) : r.from = InOrder(froms)[k]]
      BY DEF ByStart
    <3>2. froms = starts
      BY <1>7
    <3> HIDE DEF froms, starts
    <3> QED BY <3>1, <3>2
  <2>2. DOMAIN order = 1..N /\ \A k \in 1..N : order[k] \in starts
    BY <1>10
  <2> HIDE DEF run, starts, order, N
  <2> QED BY <1>8, <2>1, <2>2
<1> HIDE DEF order, N
<1>12. /\ \A k \in 1..N : /\ runs[k].from = order[k] /\ runs[k].to = endOf(order[k])
                          /\ order[k] \in starts /\ order[k] \in P
       /\ Len(runs) = N /\ DOMAIN runs = 1..N
  <2>1. \A k \in 1..N : order[k] \in starts
    BY <1>10
  <2> HIDE DEF endOf
  <2> QED BY <1>9, <1>10, <1>11, <2>1
<1>13. runs \in Seq([from : P, to : P])
  <2>1. \A k \in 1..N : run(order[k]) \in [from : P, to : P]
    BY <1>2, <1>12
  <2> HIDE DEF run
  <2> QED BY <1>10, <1>11, <2>1
<1> HIDE DEF starts
<1>14. ASSUME NEW k \in 1..Len(runs)
       PROVE  /\ runs[k].from <= runs[k].to /\ runs[k].from..runs[k].to \subseteq P
              /\ runs[k].from - 1 \notin P /\ runs[k].to + 1 \notin P
  <2>1. order[k] \in starts /\ order[k] \in P /\ order[k] - 1 \notin P
    BY <1>12 DEF starts
  <2>2. endOf(order[k]) >= order[k] /\ endOf(order[k]) + 1 \notin P /\ order[k]..endOf(order[k]) \subseteq P
    BY <1>2, <1>3, <2>1
  <2>3. endOf(order[k]) \in 1..n /\ order[k] \in 1..n
    BY <1>2, <2>1
  <2> QED BY <1>12, <2>1, <2>2, <2>3
<1>15. \A j, k \in 1..Len(runs) : j < k => runs[j].to < runs[k].from
  BY <1>4, <1>10, <1>12
<1>16. ASSUME NEW i \in P
       PROVE  \E k \in 1..Len(runs) : runs[k].from <= i /\ i <= runs[k].to
  <2>1. PICK s \in starts : s <= i /\ i <= endOf(s)
    BY <1>5
  <2>2. PICK k \in 1..N : order[k] = s
    BY <1>10
  <2> QED BY <1>12, <2>1, <2>2
<1>17. ASSUME NEW r \in RunsOf(P) PROVE \E k \in 1..Len(runs) : runs[k] = r
  <2>1. PICK i \in starts : r = run(i)
    BY <1>6
  <2>2. PICK k \in 1..N : order[k] = i
    BY <1>10, <2>1
  <2> HIDE DEF run
  <2> QED BY <1>11, <1>12, <2>1, <2>2
<1>18. AreRuns(P, runs)
  BY <1>13, <1>14, <1>15, <1>16 DEF AreRuns
<1> QED BY <1>17, <1>18 DEF Lists

-----------------------------------------------------------------------------
(* Where a text is cut *)

(***************************************************************************)
(* What a way to split a text has to do: ranges in order, none without     *)
(* something to translate, and nothing to translate outside of them.       *)
(***************************************************************************)
Covers(t, ranges) ==
  /\ ranges \in Seq([from : 1..Len(t), to : 1..Len(t)])
  /\ \A k \in 1..Len(ranges) : \E i \in ranges[k].from..ranges[k].to : t[i] \notin White
  /\ \A j, k \in 1..Len(ranges) : j < k => ranges[j].to < ranges[k].from
  /\ \A i \in 1..Len(t) :
       t[i] \notin White => \E k \in 1..Len(ranges) : ranges[k].from <= i /\ i <= ranges[k].to

LEMMA BlankSlice ==
  ASSUME NEW L, NEW t \in Seq(L), NEW a \in 1..Len(t) + 1, NEW b \in 0..Len(t)
  PROVE  Blank(SubSeq(t, a, b)) <=> \A i \in a..b : t[i] \in White
<1>1. CASE a > b
  <2>1. Len(SubSeq(t, a, b)) = 0 /\ a..b = {}
    BY <1>1
  <2>2. DOMAIN SubSeq(t, a, b) = {}
    BY <2>1
  <2> QED BY <2>1, <2>2 DEF Blank
<1>2. CASE a <= b
  <2>1. /\ Len(SubSeq(t, a, b)) = b - a + 1 /\ SubSeq(t, a, b) \in Seq(L)
        /\ \A i \in 1..(b - a + 1) : SubSeq(t, a, b)[i] = t[a + i - 1]
    BY <1>2
  <2>2. DOMAIN SubSeq(t, a, b) = 1..(b - a + 1)
    BY <2>1
  <2>3. Blank(SubSeq(t, a, b)) <=> \A i \in 1..(b - a + 1) : t[a + i - 1] \in White
    BY <2>1, <2>2 DEF Blank
  <2>4. ASSUME \A i \in 1..(b - a + 1) : t[a + i - 1] \in White, NEW j \in a..b
        PROVE  t[j] \in White
    <3>1. j - a + 1 \in 1..(b - a + 1) /\ a + (j - a + 1) - 1 = j
      BY <1>2
    <3> QED BY <2>4, <3>1
  <2>5. ASSUME \A i \in a..b : t[i] \in White, NEW i \in 1..(b - a + 1)
        PROVE  t[a + i - 1] \in White
    <3>1. a + i - 1 \in a..b
      BY <1>2
    <3> QED BY <2>5, <3>1
  <2> QED BY <2>3, <2>4, <2>5
<1>3. a \in Nat /\ b \in Nat
  OBVIOUS
<1> QED BY <1>1, <1>2, <1>3

\* Every place of a text is on a line, and a line is a place or more in a row.
LEMMA LinesPartition ==
  ASSUME NEW L, NEW t \in Seq(L)
  PROVE  /\ \A l \in Lines(t) : l.from \in 1..Len(t) + 1 /\ l.to \in 0..Len(t)
         /\ \A i \in 1..Len(t) : \E l \in Lines(t) : l.from <= i /\ i <= l.to
<1> DEFINE n == Len(t)
           ends == LineEnds(t)
           before(e) == {0} \cup {x \in ends : x < e}
           line(e) == [from |-> Max(before(e)) + 1, to |-> e]
<1>1. n \in Nat /\ DOMAIN t = 1..n
  OBVIOUS
<1>2. ends \in SUBSET (0..n) /\ n \in ends
  <2>1. ends = {i \in 1..n : t[i] = "\n"} \cup {n}
    BY <1>1 DEF LineEnds
  <2>2. \A x \in 1..n : x \in 0..n
    BY <1>1
  <2> HIDE DEF ends, n
  <2> QED BY <1>1, <2>1, <2>2
<1>3. Lines(t) = {line(e) : e \in ends}
  BY DEF Lines
<1> HIDE DEF ends, n
<1>4. ASSUME NEW e
      PROVE  /\ Max(before(e)) \in 0..n /\ (Max(before(e)) = 0 \/ Max(before(e)) < e)
  <2>1. before(e) \in SUBSET (0..n) /\ before(e) # {}
    <3>1. 0 \in 0..n
      BY <1>1
    <3>2. {x \in ends : x < e} \subseteq ends /\ ends \subseteq 0..n
      BY <1>2
    <3> QED BY <3>1, <3>2
  <2>2. Max(before(e)) \in before(e)
    <3> HIDE DEF before
    <3> QED BY <1>1, <2>1, Extremes
  <2> QED BY <2>1, <2>2
<1>5. ASSUME NEW l \in Lines(t) PROVE l.from \in 1..n + 1 /\ l.to \in 0..n
  <2>1. PICK e \in ends : l = line(e)
    BY <1>3
  <2>2. l.from = Max(before(e)) + 1 /\ l.to = e
    BY <2>1
  <2>3. Max(before(e)) \in 0..n /\ e \in 0..n
    BY <1>2, <1>4
  <2> HIDE DEF before, line
  <2> QED BY <1>1, <2>2, <2>3
<1>6. ASSUME NEW i \in 1..n PROVE \E l \in Lines(t) : l.from <= i /\ i <= l.to
  <2> DEFINE after == {x \in ends : x >= i}
  <2>1. after \in SUBSET (0..n) /\ after # {}
    <3>1. n >= i
      BY <1>1
    <3>2. n \in after
      BY <1>2, <3>1
    <3> QED BY <1>2, <3>2
  <2>2. Min(after) \in after /\ \A y \in after : Min(after) <= y
    <3> HIDE DEF after
    <3> QED BY <1>1, <2>1, Extremes
  <2>3. PICK e \in after : \A y \in after : e <= y
    BY <2>2
  <2>4. e \in ends /\ e \in 0..n /\ i <= e
    BY <1>1, <1>2, <2>3
  <2>5. before(e) \in SUBSET (0..n) /\ before(e) # {}
    <3>1. 0 \in 0..n
      BY <1>1
    <3>2. {x \in ends : x < e} \subseteq ends /\ ends \subseteq 0..n
      BY <1>2
    <3> QED BY <3>1, <3>2
  <2>6. Max(before(e)) \in before(e)
    <3> HIDE DEF before
    <3> QED BY <1>1, <2>5, Extremes
  <2>7. PICK m : m = Max(before(e))
    OBVIOUS
  <2>8. m \in 0..n /\ m < i
    <3>1. m \in before(e) /\ m \in 0..n
      BY <2>5, <2>6, <2>7
    <3>2. CASE m = 0
      BY <1>1, <3>1, <3>2
    <3>3. CASE m # 0
      <4>1. m \in ends /\ m < e
        BY <3>1, <3>3
      <4>2. ~(e <= m)
        BY <2>4, <3>1, <4>1
      <4>3. ~(m >= i)
        BY <2>3, <4>1, <4>2
      <4> QED BY <3>1, <4>3
    <3> QED BY <3>2, <3>3
  <2>9. line(e) \in Lines(t) /\ line(e).from = m + 1 /\ line(e).to = e
    BY <1>3, <2>4, <2>7
  <2>10. m + 1 <= i
    BY <1>1, <2>8
  <2> HIDE DEF line
  <2> QED BY <2>4, <2>9, <2>10
<1> QED BY <1>5, <1>6 DEF n

\* Paragraphs: every line with something to translate is in one.
LEMMA ParagraphsCover ==
  ASSUME NEW L, NEW t \in Seq(L)
  PROVE  Covers(t, ParagraphRanges(t))
<1> DEFINE n == Len(t)
           solid == {x \in Lines(t) : ~Blank(Slice(t, x))}
           P == UNION {l.from..l.to : l \in solid}
           runs == ParagraphRanges(t)
<1>1. n \in Nat
  OBVIOUS
<1>2. ASSUME NEW l \in Lines(t)
      PROVE  /\ l.from \in 1..n + 1 /\ l.to \in 0..n
             /\ Blank(Slice(t, l)) <=> \A i \in l.from..l.to : t[i] \in White
  <2>1. l.from \in 1..Len(t) + 1 /\ l.to \in 0..Len(t)
    BY LinesPartition
  <2> QED BY <2>1, BlankSlice DEF Slice
<1>3. runs = ByStart(RunsOf(P))
  BY DEF ParagraphRanges
<1>4. \A i : i \in P <=> \E l \in solid : i \in l.from..l.to
  OBVIOUS
<1>5. \A l \in solid : /\ l \in Lines(t) /\ l.from \in 1..n + 1 /\ l.to \in 0..n
                       /\ \E i \in l.from..l.to : t[i] \notin White
  BY <1>2
<1>6. \A l \in Lines(t) : l \in solid \/ \A i \in l.from..l.to : t[i] \in White
  BY <1>2
<1> HIDE DEF P, runs, solid, n
<1>7. P \in SUBSET (1..n)
  <2> SUFFICES ASSUME NEW i \in P PROVE i \in 1..n
    OBVIOUS
  <2>1. PICK l \in solid : i \in l.from..l.to
    BY <1>4
  <2> QED BY <1>1, <1>5, <2>1
<1>8. /\ runs \in Seq([from : P, to : P])
      /\ \A k \in 1..Len(runs) :
           /\ runs[k].from <= runs[k].to /\ runs[k].from..runs[k].to \subseteq P
           /\ runs[k].from - 1 \notin P /\ runs[k].to + 1 \notin P
      /\ \A j, k \in 1..Len(runs) : j < k => runs[j].to < runs[k].from
      /\ \A i \in P : \E k \in 1..Len(runs) : runs[k].from <= i /\ i <= runs[k].to
  <2>1. AreRuns(P, runs)
    BY <1>1, <1>3, <1>7, RunsSorted
  <2> QED BY <2>1 DEF AreRuns
<1>9. \A k \in 1..Len(runs) : runs[k] \in [from : P, to : P]
  <2> DEFINE S == [from : P, to : P]
  <2>1. runs \in Seq(S)
    BY <1>8
  <2> HIDE DEF S
  <2>2. \A k \in 1..Len(runs) : runs[k] \in S
    BY <2>1
  <2> QED BY <2>2 DEF S
<1>10. runs \in Seq([from : 1..n, to : 1..n])
  <2> DEFINE S == [from : P, to : P]
             R == [from : 1..n, to : 1..n]
  <2>1. runs \in Seq(S) /\ S \subseteq R
    BY <1>7, <1>8
  <2> HIDE DEF S, R
  <2>2. runs \in Seq(R)
    BY <2>1
  <2> QED BY <2>2 DEF R
<1>11. ASSUME NEW k \in 1..Len(runs)
       PROVE  \E i \in runs[k].from..runs[k].to : t[i] \notin White
  <2>1. PICK a, b : a = runs[k].from /\ b = runs[k].to
    OBVIOUS
  <2>2. a \in P /\ b \in P /\ a <= b /\ a..b \subseteq P /\ a - 1 \notin P /\ b + 1 \notin P
    BY <1>8, <1>9, <2>1
  <2>3. PICK l \in solid : a \in l.from..l.to
    BY <1>4, <2>2
  <2>4. PICK i \in l.from..l.to : t[i] \notin White
    BY <1>5, <2>3
  <2>5. PICK c, d : c = l.from /\ d = l.to
    OBVIOUS
  <2>6. /\ c \in 1..n + 1 /\ d \in 0..n /\ a \in 1..n /\ b \in 1..n
        /\ a \in c..d /\ i \in c..d /\ c..d \subseteq P
    BY <1>4, <1>5, <1>7, <2>2, <2>3, <2>4, <2>5
  <2>7. c = a
    <3> SUFFICES ASSUME c # a PROVE FALSE
      OBVIOUS
    <3>1. a - 1 \in c..d
      BY <1>1, <2>6
    <3> QED BY <2>2, <2>6, <3>1
  <2>8. d <= b
    <3> SUFFICES ASSUME ~(d <= b) PROVE FALSE
      OBVIOUS
    <3>1. b + 1 \in c..d
      BY <1>1, <2>2, <2>6, <2>7
    <3> QED BY <2>2, <2>6, <3>1
  <2>9. i \in a..b
    BY <1>1, <2>6, <2>7, <2>8
  <2> QED BY <2>1, <2>4, <2>9
<1>12. ASSUME NEW i \in 1..n, t[i] \notin White PROVE i \in P
  <2>1. PICK l \in Lines(t) : l.from <= i /\ i <= l.to
    BY LinesPartition DEF n
  <2>2. l.from \in 1..n + 1 /\ l.to \in 0..n
    BY <1>2
  <2>3. i \in l.from..l.to
    BY <1>1, <2>1, <2>2
  <2>4. l \in solid
    BY <1>6, <1>12, <2>3
  <2> QED BY <1>4, <2>3, <2>4
<1> QED BY <1>8, <1>10, <1>11, <1>12 DEF Covers, n, runs

\* A break is kept inside the text, the white space after it included.
LEMMA BoundaryInside ==
  ASSUME NEW L, NEW t \in Seq(L), NEW i \in 1..Len(t)
  PROVE  Boundary(t, i) \in i..Len(t)
<1> DEFINE n == Len(t)
           A == {j \in i..n : Blank(SubSeq(t, i + 1, j))}
<1>1. n \in Nat /\ i \in Nat /\ i <= n /\ i + 1 \in 1..n + 1 /\ i \in 0..n /\ (i + 1)..i = {}
  OBVIOUS
<1>2. Blank(SubSeq(t, i + 1, i))
  BY <1>1, BlankSlice
<1>3. i \in A
  BY <1>1, <1>2
<1>4. A \in SUBSET (0..n) /\ A # {}
  <2>1. \A j \in i..n : j \in 0..n
    BY <1>1
  <2>2. A \subseteq i..n
    OBVIOUS
  <2> QED BY <1>3, <2>1, <2>2
<1>5. Max(A) \in A
  <2> HIDE DEF A
  <2> QED BY <1>1, <1>4, Extremes
<1>6. Boundary(t, i) = Max(A)
  BY DEF Boundary
<1>7. \A j \in A : j \in i..n
  OBVIOUS
<1> HIDE DEF A
<1> QED BY <1>5, <1>6, <1>7

\* One step of SentenceRanges.
Cut(t, acc, b) ==
  IF b > acc.done /\ ~Blank(SubSeq(t, acc.done + 1, b))
  THEN [done |-> b, ranges |-> Append(acc.ranges, [from |-> acc.done + 1, to |-> b])]
  ELSE acc

\* What the ranges are like when the text was read up to a break.
ReadTo(t, acc, b) ==
  /\ acc.done \in 0..b
  /\ acc.ranges \in Seq([from : 1..Len(t), to : 1..Len(t)])
  /\ \A k \in 1..Len(acc.ranges) :
       /\ acc.ranges[k].to <= acc.done
       /\ \E i \in acc.ranges[k].from..acc.ranges[k].to : t[i] \notin White
  /\ \A j, k \in 1..Len(acc.ranges) : j < k => acc.ranges[j].to < acc.ranges[k].from
  /\ \A i \in 1..b :
       t[i] \notin White =>
         \E k \in 1..Len(acc.ranges) : acc.ranges[k].from <= i /\ i <= acc.ranges[k].to

LEMMA CutReads ==
  ASSUME NEW L, NEW t \in Seq(L), NEW b \in 0..Len(t), NEW c \in 0..Len(t), b <= c,
         NEW acc, ReadTo(t, acc, b)
  PROVE  ReadTo(t, Cut(t, acc, c), c)
<1> DEFINE n == Len(t)
           done == acc.done
           ranges == acc.ranges
           R == [from : 1..n, to : 1..n]
           new == [from |-> done + 1, to |-> c]
<1>1. /\ n \in Nat /\ b \in 0..n /\ c \in 0..n /\ done \in 0..b
      /\ done \in 0..n /\ done <= b /\ done <= c /\ ranges \in Seq(R) /\ Len(ranges) \in Nat
  BY DEF ReadTo
<1>2. /\ \A k \in 1..Len(ranges) :
           /\ ranges[k].to <= done
           /\ \E i \in ranges[k].from..ranges[k].to : t[i] \notin White
      /\ \A j, k \in 1..Len(ranges) : j < k => ranges[j].to < ranges[k].from
      /\ \A i \in 1..b : t[i] \notin White => \E k \in 1..Len(ranges) : ranges[k].from <= i /\ i <= ranges[k].to
  BY DEF ReadTo
<1>3. c > done => (Blank(SubSeq(t, done + 1, c)) <=> \A i \in done + 1..c : t[i] \in White)
  <2>1. done + 1 \in 1..n + 1
    BY <1>1
  <2> QED BY <1>1, <2>1, BlankSlice
<1>4. CASE c > done /\ ~Blank(SubSeq(t, done + 1, c))
  <2> DEFINE more == Append(ranges, new)
             next == [done |-> c, ranges |-> more]
  <2>1. Cut(t, acc, c) = next
    BY <1>4 DEF Cut
  <2>2. PICK x \in done + 1..c : t[x] \notin White
    BY <1>3, <1>4
  <2>3. new \in R /\ new.from = done + 1 /\ new.to = c
    BY <1>1, <1>4
  <2> HIDE DEF new, R, ranges, done
  <2>4. /\ more \in Seq(R) /\ Len(more) = Len(ranges) + 1
        /\ \A k \in 1..Len(ranges) : more[k] = ranges[k]
        /\ more[Len(ranges) + 1] = new
    BY <1>1, <2>3
  <2>5. \A k \in 1..Len(more) : k \in 1..Len(ranges) \/ k = Len(ranges) + 1
    BY <1>1, <2>4
  <2>6. next.done = c /\ next.ranges = more
    OBVIOUS
  <2> HIDE DEF more, next
  <2>7. \A k \in 1..Len(ranges) : ranges[k].to \in 1..n /\ ranges[k].from \in 1..n
    <3>1. \A k \in 1..Len(ranges) : ranges[k] \in R
      BY <1>1
    <3> QED BY <3>1 DEF R
  <2>8. ASSUME NEW k \in 1..Len(more)
        PROVE  more[k].to <= c /\ \E i \in more[k].from..more[k].to : t[i] \notin White
    <3>1. CASE k \in 1..Len(ranges)
      <4>1. more[k] = ranges[k] /\ \E i \in ranges[k].from..ranges[k].to : t[i] \notin White
        BY <1>2, <2>4, <3>1
      <4>2. PICK last : last = ranges[k].to
        OBVIOUS
      <4>3. last <= done /\ last \in 1..n
        BY <1>2, <2>7, <3>1, <4>2
      <4>4. last <= c
        BY <1>1, <4>3
      <4> QED BY <4>1, <4>2, <4>4
    <3>2. CASE k = Len(ranges) + 1
      <4>1. more[k].from = done + 1 /\ more[k].to = c
        BY <2>3, <2>4, <3>2
      <4>2. c <= c
        BY <1>1
      <4> QED BY <2>2, <4>1, <4>2
    <3> QED BY <2>5, <3>1, <3>2
  <2>9. ASSUME NEW j \in 1..Len(more), NEW k \in 1..Len(more), j < k
        PROVE  more[j].to < more[k].from
    <3>1. j \in 1..Len(ranges)
      BY <1>1, <2>4, <2>9
    <3>2. CASE k \in 1..Len(ranges)
      BY <1>2, <2>4, <2>9, <3>1, <3>2
    <3>3. CASE k = Len(ranges) + 1
      <4>1. more[j] = ranges[j] /\ ranges[j].to <= done /\ ranges[j].to \in 1..n
        BY <1>2, <2>4, <2>7, <3>1
      <4>2. more[k].from = done + 1
        BY <2>3, <2>4, <3>3
      <4> QED BY <1>1, <4>1, <4>2
    <3> QED BY <2>5, <3>2, <3>3
  <2>10. ASSUME NEW i \in 1..c, t[i] \notin White
         PROVE  \E k \in 1..Len(more) : more[k].from <= i /\ i <= more[k].to
    <3>1. CASE i <= done
      <4>1. i \in 1..b
        BY <1>1, <3>1
      <4>2. PICK k \in 1..Len(ranges) : ranges[k].from <= i /\ i <= ranges[k].to
        BY <1>2, <2>10, <4>1
      <4>3. k \in 1..Len(more) /\ more[k] = ranges[k]
        BY <1>1, <2>4
      <4> QED BY <4>2, <4>3
    <3>2. CASE ~(i <= done)
      <4>1. new.from <= i /\ i <= new.to
        BY <1>1, <2>3, <3>2
      <4>2. Len(ranges) + 1 \in 1..Len(more) /\ more[Len(ranges) + 1] = new
        BY <1>1, <2>4
      <4> QED BY <4>1, <4>2
    <3> QED BY <3>1, <3>2
  <2>11. c \in 0..c
    BY <1>1
  <2>12. ReadTo(t, next, c)
    BY <2>4, <2>6, <2>8, <2>9, <2>10, <2>11 DEF ReadTo, R
  <2> QED BY <2>1, <2>12
<1>5. CASE ~(c > done /\ ~Blank(SubSeq(t, done + 1, c)))
  <2>1. Cut(t, acc, c) = acc
    BY <1>5 DEF Cut
  <2>2. ASSUME NEW i \in 1..c, t[i] \notin White PROVE i \in 1..b
    <3>1. i <= done
      <4> SUFFICES ASSUME ~(i <= done) PROVE FALSE
        OBVIOUS
      <4>1. c > done /\ i \in done + 1..c
        BY <1>1
      <4> QED BY <1>3, <1>5, <2>2, <4>1
    <3> QED BY <1>1, <3>1
  <2>3. done \in 0..c
    BY <1>1
  <2>4. ReadTo(t, acc, c)
    BY <1>1, <1>2, <2>2, <2>3 DEF ReadTo
  <2> QED BY <2>1, <2>4
<1> QED BY <1>4, <1>5

\* The breaks of a text one after the other.
Accs == [done : Nat, ranges : Seq([from : Nat, to : Nat])]

LEMMA CutType ==
  ASSUME NEW t, NEW acc \in Accs, NEW b \in Nat
  PROVE  Cut(t, acc, b) \in Accs
<1> DEFINE R == [from : Nat, to : Nat]
           new == [from |-> acc.done + 1, to |-> b]
<1>1. acc.done \in Nat /\ acc.ranges \in Seq(R) /\ new \in R
  BY DEF Accs
<1> HIDE DEF R, new
<1>2. Append(acc.ranges, new) \in Seq(R)
  BY <1>1
<1>3. [done |-> b, ranges |-> Append(acc.ranges, new)] \in Accs
  BY <1>2 DEF Accs, R
<1> QED BY <1>3 DEF Cut, new

CutsOneByOne(t, rules, order) ==
  \E a \in [0..Len(order) -> Accs] :
    /\ a[0] = [done |-> 0, ranges |-> <<>>] /\ SentenceRanges(t, rules) = a[Len(order)].ranges
    /\ \A i \in 1..Len(order) : a[i] = Cut(t, a[i - 1], order[i])

LEMMA SentenceFold ==
  ASSUME NEW t, NEW rules, NEW order, order = InOrder(Boundaries(t, rules) \cup {Len(t)}),
         order \in Seq(Nat)
  PROVE  CutsOneByOne(t, rules, order)
<1> DEFINE N == Len(order)
           base == [done |-> 0, ranges |-> <<>>]
           Defines(g) == g = [s \in SUBSET (DOMAIN order) |->
                                IF s = {} THEN base
                                ELSE Cut(t, g[s \ {Max(s)}], order[Max(s)])]
           F == CHOOSE g : Defines(g)
           a == [i \in 0..N |-> F[1..i]]
<1>1. SentenceRanges(t, rules) = F[DOMAIN order].ranges
  BY DEF SentenceRanges, FoldLeft, MapThenFoldSet, Cut
<1>2. N \in Nat /\ DOMAIN order = 1..N /\ \A i \in 1..N : order[i] \in Nat
  BY ElementOfSeq, LenProperties
<1>0. base \in Accs
  <2>1. <<>> \in Seq([from : Nat, to : Nat])
    OBVIOUS
  <2> QED BY <2>1 DEF Accs
<1>3. ASSUME NEW x \in Accs, NEW i \in 1..N PROVE Cut(t, x, order[i]) \in Accs
  BY <1>2, CutType
<1> HIDE DEF N, base
<1>4. \E g : Defines(g)
  <2> DEFINE Op == [i \in 1..N |-> [x \in Accs |-> Cut(t, x, order[i])]]
  <2>1. Op \in [1..N -> [Accs -> Accs]]
    BY <1>3
  <2> HIDE DEF Op
  <2>2. PICK g \in [SUBSET (1..N) -> Accs] : FoldsTo(N, base, Op, g)
    BY <1>0, <1>2, <2>1, FoldExists
  <2>3. ASSUME NEW s \in SUBSET (1..N)
        PROVE  g[s] = IF s = {} THEN base ELSE Cut(t, g[s \ {Max(s)}], order[Max(s)])
    <3>1. CASE s = {}
      BY <2>2, <3>1 DEF FoldsTo
    <3>2. CASE s # {}
      <4>1. Max(s) \in 1..N
        BY <1>2, <3>2, MaxIn
      <4>2. s \ {Max(s)} \in SUBSET (1..N)
        OBVIOUS
      <4>3. g[s \ {Max(s)}] \in Accs
        BY <4>2
      <4>4. g[s] = Op[Max(s)][g[s \ {Max(s)}]]
        BY <2>2, <3>2 DEF FoldsTo
      <4> QED BY <3>2, <4>1, <4>3, <4>4 DEF Op
    <3> QED BY <3>1, <3>2
  <2>4. Defines(g)
    BY <1>2, <2>3
  <2> QED BY <2>4
<1>5. Defines(F)
  <2> HIDE DEF Defines
  <2> QED BY <1>4
<1> HIDE DEF F
<1>6. F[1..0] = base
  <2>1. 1..0 = {} /\ (1..0) \in SUBSET (1..N)
    OBVIOUS
  <2> QED BY <1>2, <1>5, <2>1
<1>7. ASSUME NEW i \in 1..N PROVE F[1..i] = Cut(t, F[1..(i - 1)], order[i])
  <2>1. (1..i) \in SUBSET (1..N) /\ 1..i # {} /\ (1..i) \ {i} = 1..(i - 1) /\ Max(1..i) = i
    BY <1>2, Prefix
  <2>2. F[1..i] = Cut(t, F[(1..i) \ {Max(1..i)}], order[Max(1..i)])
    BY <1>2, <1>5, <2>1
  <2> QED BY <2>1, <2>2
<1> HIDE DEF Defines
<1>8. \A i \in 0..N : F[1..i] \in Accs
  <2> DEFINE T == {i \in 0..N : F[1..i] \in Accs}
  <2>1. 0 \in T
    BY <1>0, <1>2, <1>6
  <2>2. ASSUME NEW i \in 0..N, i \in T, i < N PROVE i + 1 \in T
    <3>1. i + 1 \in 1..N /\ (i + 1) - 1 = i
      BY <1>2, <2>2
    <3>2. F[1..(i + 1)] = Cut(t, F[1..i], order[i + 1])
      BY <1>7, <3>1
    <3>3. i + 1 \in 0..N /\ F[1..i] \in Accs
      BY <1>2, <2>2, <3>1
    <3>4. F[1..(i + 1)] \in Accs
      BY <1>3, <3>1, <3>2, <3>3
    <3> QED BY <3>3, <3>4
  <2>3. \A i \in 0..N : i \in T
    <3> HIDE DEF T
    <3>1. \A i \in 0..N : i \in T /\ i < N => i + 1 \in T
      BY <2>2
    <3> QED BY <1>2, <2>1, <3>1, Ascent
  <2> QED BY <2>3
<1>9. a \in [0..N -> Accs] /\ a[0] = base /\ a[N] = F[1..N]
  BY <1>2, <1>6, <1>8
<1>10. \A i \in 1..N : a[i] = Cut(t, a[i - 1], order[i])
  <2> TAKE i \in 1..N
  <2>1. i \in 0..N /\ i - 1 \in 0..N
    BY <1>2
  <2> QED BY <1>7, <2>1
<1> HIDE DEF a
<1> QED
  BY <1>1, <1>2, <1>9, <1>10 DEF N, base, CutsOneByOne

\* Sentences: whatever the rules break after, they follow one another.
LEMMA SentencesCover ==
  ASSUME NEW L, NEW t \in Seq(L), NEW rules
  PROVE  Covers(t, SentenceRanges(t, rules))
<1> DEFINE n == Len(t)
           S == Boundaries(t, rules) \cup {n}
           N == Cardinality(S)
           order == InOrder(S)
<1>1. n \in Nat /\ DOMAIN t = 1..n
  OBVIOUS
<1>2. S \in SUBSET (0..n) /\ n \in S
  <2>1. \A i \in DOMAIN t : Boundary(t, i) \in i..n
    BY <1>1, BoundaryInside
  <2>2. \A b \in Boundaries(t, rules) : \E i \in DOMAIN t : b = Boundary(t, i)
    BY DEF Boundaries
  <2>3. \A i \in DOMAIN t : i..n \subseteq 0..n
    BY <1>1
  <2>4. Boundaries(t, rules) \subseteq 0..n
    BY <2>1, <2>2, <2>3
  <2> QED BY <1>1, <2>4
<1> HIDE DEF S
<1>3. /\ order \in [1..N -> S] /\ N \in Nat
      /\ \A j, k \in 1..N : j < k => order[j] < order[k]
      /\ \A x \in S : \E k \in 1..N : order[k] = x
  BY <1>1, <1>2, InOrderSorts
<1> HIDE DEF N, order
<1>4. order \in Seq(Nat) /\ Len(order) = N /\ \A k \in 1..N : order[k] \in 0..n /\ order[k] \in Nat
  <2>1. \A k \in 1..N : order[k] \in 0..n /\ order[k] \in Nat
    <3>1. \A k \in 1..N : order[k] \in S
      BY <1>3
    <3>2. \A x \in S : x \in 0..n
      BY <1>2
    <3>3. \A x \in 0..n : x \in Nat
      BY <1>1
    <3> QED BY <3>1, <3>2, <3>3
  <2> QED BY <1>3, <2>1
<1>5. N \in 1..N /\ order[N] = n
  <2>1. PICK k \in 1..N : order[k] = n
    BY <1>2, <1>3
  <2>2. N \in 1..N
    BY <1>3
  <2>3. ~(k < N)
    <3> SUFFICES ASSUME k < N PROVE FALSE
      OBVIOUS
    <3>1. n < order[N] /\ order[N] \in 0..n
      BY <1>3, <1>4, <2>1, <2>2
    <3> QED BY <1>1, <3>1
  <2>4. k = N
    BY <1>3, <2>2, <2>3
  <2> QED BY <2>1, <2>2, <2>4
<1>6. PICK a \in [0..N -> Accs] :
        /\ a[0] = [done |-> 0, ranges |-> <<>>] /\ SentenceRanges(t, rules) = a[N].ranges
        /\ \A i \in 1..N : a[i] = Cut(t, a[i - 1], order[i])
  <2>1. order = InOrder(Boundaries(t, rules) \cup {Len(t)})
    BY DEF order, S
  <2>2. CutsOneByOne(t, rules, order)
    BY <1>4, <2>1, SentenceFold
  <2>3. Len(order) = N
    BY <1>4
  <2> QED BY <2>2, <2>3 DEF CutsOneByOne
<1> DEFINE upTo(i) == IF i = 0 THEN 0 ELSE order[i]
           T == {i \in 0..N : ReadTo(t, a[i], upTo(i))}
<1>7. 0 \in T
  <2> DEFINE R == [from : 1..n, to : 1..n]
  <2>1. a[0].done = 0 /\ a[0].ranges = <<>>
    BY <1>6
  <2>2. <<>> \in Seq(R) /\ Len(<<>>) = 0
    OBVIOUS
  <2>3. 1..0 = {} /\ 0 \in 0..0 /\ 0 \in 0..N
    BY <1>3
  <2>4. ReadTo(t, a[0], 0)
    BY <2>1, <2>2, <2>3 DEF ReadTo
  <2> QED BY <2>3, <2>4
<1>8. ASSUME NEW i \in 0..N, i \in T, i < N PROVE i + 1 \in T
  <2>1. i + 1 \in 1..N /\ (i + 1) - 1 = i /\ i + 1 \in 0..N /\ i + 1 # 0
    BY <1>3, <1>8
  <2>2. a[i + 1] = Cut(t, a[i], order[i + 1])
    BY <1>6, <2>1
  <2>3. upTo(i) \in 0..n /\ upTo(i) <= order[i + 1] /\ order[i + 1] \in 0..n /\ upTo(i + 1) = order[i + 1]
    <3>1. order[i + 1] \in 0..n
      BY <1>4, <2>1
    <3>2. CASE i = 0
      BY <1>1, <2>1, <3>1, <3>2
    <3>3. CASE i # 0
      <4>1. i \in 1..N /\ i < i + 1
        BY <1>3, <3>3
      <4>2. order[i] \in 0..n /\ order[i] < order[i + 1]
        BY <1>3, <1>4, <2>1, <4>1
      <4> QED BY <1>1, <2>1, <3>1, <3>3, <4>2
    <3> QED BY <3>2, <3>3
  <2>4. ReadTo(t, a[i], upTo(i))
    BY <1>8
  <2> HIDE DEF upTo
  <2>5. ReadTo(t, Cut(t, a[i], order[i + 1]), order[i + 1])
    BY <2>3, <2>4, CutReads
  <2> QED BY <2>1, <2>2, <2>3, <2>5
<1>9. N \in T
  <2> HIDE DEF T
  <2>1. N \in 0..N /\ \A i \in 0..N : i \in T /\ i < N => i + 1 \in T
    BY <1>3, <1>8
  <2> QED BY <1>3, <1>7, <2>1, Ascent
<1>10. ReadTo(t, a[N], n)
  <2>1. upTo(N) = n
    BY <1>3, <1>5
  <2> HIDE DEF upTo
  <2> QED BY <1>9, <2>1
<1> QED BY <1>6, <1>10 DEF ReadTo, Covers

-----------------------------------------------------------------------------
(* The pieces put together again *)

(***************************************************************************)
(* The cores of ranges that cover a text: something to translate at both   *)
(* ends of each, in order, and nothing to translate outside of them.       *)
(***************************************************************************)
AreCores(t, cores) ==
  /\ cores \in Seq([from : 1..Len(t), to : 1..Len(t)])
  /\ \A k \in 1..Len(cores) :
       /\ cores[k].from <= cores[k].to
       /\ t[cores[k].from] \notin White /\ t[cores[k].to] \notin White
  /\ \A j, k \in 1..Len(cores) : j < k => cores[j].to < cores[k].from
  /\ \A i \in 1..Len(t) :
       t[i] \notin White => \E k \in 1..Len(cores) : cores[k].from <= i /\ i <= cores[k].to

IsCore(t, n, r, c) ==
  /\ c \in [from : 1..n, to : 1..n]
  /\ r.from <= c.from /\ c.from <= c.to /\ c.to <= r.to
  /\ t[c.from] \notin White /\ t[c.to] \notin White
  /\ \A i \in r.from..r.to : t[i] \notin White => c.from <= i /\ i <= c.to

LEMMA CoreIs ==
  ASSUME NEW n \in Nat, NEW t, NEW r \in [from : 1..n, to : 1..n],
         \E i \in r.from..r.to : t[i] \notin White
  PROVE  IsCore(t, n, r, Core(t, r))
<1> DEFINE solid == {i \in r.from..r.to : t[i] \notin White}
<1>1. r.from \in 1..n /\ r.to \in 1..n
  OBVIOUS
<1>2. solid \in SUBSET (0..n) /\ solid # {}
  <2>1. \A i \in r.from..r.to : i \in 0..n
    BY <1>1
  <2> QED BY <2>1
<1>3. Core(t, r) = [from |-> Min(solid), to |-> Max(solid)]
  BY DEF Core
<1>4. /\ Max(solid) \in solid /\ \A y \in solid : y <= Max(solid)
      /\ Min(solid) \in solid /\ \A y \in solid : Min(solid) <= y
  <2> HIDE DEF solid
  <2> QED BY <1>2, Extremes
<1>5. PICK a, b : a = Min(solid) /\ b = Max(solid)
  OBVIOUS
<1>6. Core(t, r).from = a /\ Core(t, r).to = b /\ Core(t, r) = [from |-> a, to |-> b]
  BY <1>3, <1>5
<1>7. a \in solid /\ b \in solid /\ \A y \in solid : a <= y /\ y <= b
  BY <1>4, <1>5
<1>8. a \in r.from..r.to /\ b \in r.from..r.to /\ t[a] \notin White /\ t[b] \notin White /\ a <= b
  BY <1>7
<1>9. a \in 1..n /\ b \in 1..n /\ r.from <= a /\ b <= r.to
  BY <1>1, <1>8
<1> QED BY <1>6, <1>7, <1>8, <1>9 DEF IsCore

LEMMA CoresOf ==
  ASSUME NEW L, NEW t \in Seq(L), NEW ranges, Covers(t, ranges)
  PROVE  AreCores(t, [k \in DOMAIN ranges |-> Core(t, ranges[k])])
<1> DEFINE n == Len(t)
           R == [from : 1..n, to : 1..n]
           N == Len(ranges)
           cores == [k \in DOMAIN ranges |-> Core(t, ranges[k])]
<1>1. n \in Nat /\ ranges \in Seq(R) /\ N \in Nat /\ DOMAIN ranges = 1..N
  BY DEF Covers
<1>2. /\ \A k \in 1..N : \E i \in ranges[k].from..ranges[k].to : t[i] \notin White
      /\ \A j, k \in 1..N : j < k => ranges[j].to < ranges[k].from
      /\ \A i \in 1..n : t[i] \notin White => \E k \in 1..N : ranges[k].from <= i /\ i <= ranges[k].to
  BY DEF Covers
<1> HIDE DEF n, N
<1>10. \A k \in 1..N : ranges[k] \in R
  <2> HIDE DEF R
  <2> QED BY <1>1
<1>3. ASSUME NEW k \in 1..N
      PROVE  IsCore(t, n, ranges[k], cores[k]) /\ cores[k] \in R
  <2>1. cores[k] = Core(t, ranges[k])
    BY <1>1
  <2>2. ranges[k] \in R /\ \E i \in ranges[k].from..ranges[k].to : t[i] \notin White
    BY <1>2, <1>10
  <2> HIDE DEF cores
  <2>3. IsCore(t, n, ranges[k], Core(t, ranges[k]))
    BY <1>1, <2>2, CoreIs
  <2> QED BY <2>1, <2>3 DEF IsCore
<1> HIDE DEF R
<1>4. \A k \in 1..N : /\ cores[k].from \in 1..n /\ cores[k].to \in 1..n
                      /\ ranges[k].from \in 1..n /\ ranges[k].to \in 1..n
  BY <1>3, <1>10 DEF R
<1>5. cores \in Seq(R) /\ Len(cores) = N
  <2>1. DOMAIN cores = 1..N /\ cores = [k \in 1..N |-> cores[k]]
    BY <1>1
  <2> HIDE DEF cores, R
  <2>2. cores \in [1..N -> R]
    BY <1>3, <2>1
  <2> QED BY <1>1, <2>2
<1> HIDE DEF cores
<1>6. ASSUME NEW j \in 1..N, NEW k \in 1..N, j < k PROVE cores[j].to < cores[k].from
  <2>1. cores[j].to <= ranges[j].to /\ ranges[j].to < ranges[k].from /\ ranges[k].from <= cores[k].from
    BY <1>2, <1>3, <1>6 DEF IsCore
  <2>2. cores[j].to \in Nat /\ ranges[j].to \in Nat /\ ranges[k].from \in Nat /\ cores[k].from \in Nat
    BY <1>1, <1>4
  <2> QED BY <2>1, <2>2
<1>7. ASSUME NEW i \in 1..n, t[i] \notin White PROVE \E k \in 1..N : cores[k].from <= i /\ i <= cores[k].to
  <2>1. PICK k \in 1..N : ranges[k].from <= i /\ i <= ranges[k].to
    BY <1>2, <1>7
  <2>2. i \in ranges[k].from..ranges[k].to
    BY <1>1, <1>4, <2>1
  <2> QED BY <1>3, <1>7, <2>2 DEF IsCore
<1>8. \A k \in 1..N : /\ cores[k].from <= cores[k].to
                      /\ t[cores[k].from] \notin White /\ t[cores[k].to] \notin White
  BY <1>3 DEF IsCore
<1>9. AreCores(t, cores)
  BY <1>5, <1>6, <1>7, <1>8 DEF AreCores, n, R
<1> QED BY <1>9 DEF cores

\* What FlattenSeq returns: the last of the texts put together one by one.
JoinsUp(N, seqs, g) ==
  /\ g = [i \in 1..N |-> g[i]] /\ g[1] = seqs[1]
  /\ \A i \in 1..N : i # 1 => g[i] = g[i - 1] \o seqs[i]

LEMMA FlattenIs ==
  ASSUME NEW N \in Nat \ {0}, NEW seqs, Len(seqs) = N, NEW g, JoinsUp(N, seqs, g)
  PROVE  FlattenSeq(seqs) = g[N]
<1> DEFINE Defines(f) == f = [i \in 1..Len(seqs) |-> IF i = 1 THEN seqs[i] ELSE f[i - 1] \o seqs[i]]
           F == CHOOSE f : Defines(f)
<1>1. FlattenSeq(seqs) = F[Len(seqs)]
  BY DEF FlattenSeq
<1>0. /\ g = [i \in 1..N |-> g[i]] /\ g[1] = seqs[1]
      /\ \A i \in 1..N : i # 1 => g[i] = g[i - 1] \o seqs[i]
  BY DEF JoinsUp
<1>2. Defines(g)
  <2>1. \A i \in 1..N : g[i] = IF i = 1 THEN seqs[i] ELSE g[i - 1] \o seqs[i]
    BY <1>0
  <2>2. [i \in 1..N |-> g[i]] = [i \in 1..N |-> IF i = 1 THEN seqs[i] ELSE g[i - 1] \o seqs[i]]
    BY <2>1
  <2> QED BY <1>0, <2>2
<1>3. Defines(F)
  <2> HIDE DEF Defines
  <2> QED BY <1>2
<1> HIDE DEF F
<1>4. \A i \in 1..N : F[i] = IF i = 1 THEN seqs[i] ELSE F[i - 1] \o seqs[i]
  <2>1. F = [i \in 1..N |-> IF i = 1 THEN seqs[i] ELSE F[i - 1] \o seqs[i]]
    BY <1>3
  <2> QED BY <2>1
<1> DEFINE T == {i \in 0..N : i # 0 => F[i] = g[i]}
<1>5. 0 \in T
  OBVIOUS
<1>6. ASSUME NEW i \in 0..N, i \in T, i < N PROVE i + 1 \in T
  <2>1. i + 1 \in 1..N /\ (i + 1) - 1 = i /\ i + 1 \in 0..N
    BY <1>6
  <2>2. CASE i = 0
    <3>1. F[1] = seqs[1] /\ i + 1 = 1
      BY <1>4, <2>1, <2>2
    <3> QED BY <1>0, <2>1, <3>1
  <2>3. CASE i # 0
    <3>1. i + 1 # 1 /\ F[i] = g[i]
      BY <1>6, <2>3
    <3>2. F[i + 1] = F[i] \o seqs[i + 1]
      BY <1>4, <2>1, <3>1
    <3>3. g[i + 1] = g[i] \o seqs[i + 1]
      BY <1>0, <2>1, <3>1
    <3> QED BY <2>1, <3>1, <3>2, <3>3
  <2> QED BY <2>2, <2>3
<1>7. N \in T
  <2> HIDE DEF T
  <2>1. N \in 0..N /\ \A i \in 0..N : i \in T /\ i < N => i + 1 \in T
    BY <1>6
  <2> QED BY <1>5, <2>1, Ascent
<1> QED BY <1>1, <1>7

LEMMA Joined ==
  ASSUME NEW L, NEW t \in Seq(L), NEW a \in 1..Len(t) + 1, NEW b \in 0..Len(t), NEW c \in 0..Len(t),
         a <= b + 1, b <= c
  PROVE  SubSeq(t, a, b) \o SubSeq(t, b + 1, c) = SubSeq(t, a, c)
<1> DEFINE p == SubSeq(t, a, b)
           q == SubSeq(t, b + 1, c)
           r == SubSeq(t, a, c)
<1>1. /\ p \in Seq(L) /\ Len(p) = b - a + 1 /\ \A i \in 1..(b - a + 1) : p[i] = t[a + i - 1]
  OBVIOUS
<1>2. /\ q \in Seq(L) /\ Len(q) = c - b /\ \A i \in 1..(c - b) : q[i] = t[b + i]
  <2>1. b + 1 \in 1..Len(t) + 1 /\ c - (b + 1) + 1 = c - b
    OBVIOUS
  <2>2. \A i \in 1..(c - b) : (b + 1) + i - 1 = b + i
    OBVIOUS
  <2>3. q \in Seq(L) /\ Len(q) = c - b /\ \A i \in 1..(c - b) : q[i] = t[(b + 1) + i - 1]
    BY <2>1
  <2> QED BY <2>2, <2>3
<1>3. /\ r \in Seq(L) /\ Len(r) = c - a + 1 /\ \A i \in 1..(c - a + 1) : r[i] = t[a + i - 1]
  OBVIOUS
<1>4. a \in Nat /\ b \in Nat /\ c \in Nat
  OBVIOUS
<1> HIDE DEF p, q, r
<1>5. p \o q \in Seq(L) /\ Len(p \o q) = c - a + 1
  <2>1. p \o q \in Seq(L) /\ Len(p \o q) = Len(p) + Len(q)
    <3>1. p \in Seq(L) /\ q \in Seq(L)
      BY <1>1, <1>2
    <3> QED BY <3>1, ConcatProperties
  <2>2. (b - a + 1) + (c - b) = c - a + 1
    BY <1>4
  <2> QED BY <1>1, <1>2, <2>1, <2>2
<1>6. ASSUME NEW i \in 1..(c - a + 1) PROVE (p \o q)[i] = r[i]
  <2>1. CASE i <= b - a + 1
    <3>1. i \in 1..(b - a + 1) /\ i \in 1..Len(p)
      BY <1>1, <1>4, <2>1
    <3>2. (p \o q)[i] = p[i]
      BY <1>1, <1>2, <3>1
    <3> QED BY <1>1, <1>3, <3>1, <3>2
  <2>2. CASE ~(i <= b - a + 1)
    <3>1. i - Len(p) \in 1..(c - b) /\ i - Len(p) \in 1..Len(q) /\ b + (i - Len(p)) = a + i - 1
      BY <1>1, <1>2, <1>4, <2>2
    <3>2. /\ p \in Seq(L) /\ q \in Seq(L) /\ Len(p) \in Nat /\ Len(q) \in Nat
          /\ i \in 1..(Len(p) + Len(q)) /\ ~(i <= Len(p))
      BY <1>1, <1>2, <1>4, <2>2
    <3>3. (p \o q)[i] = q[i - Len(p)]
      BY <3>2
    <3>4. q[i - Len(p)] = t[b + (i - Len(p))]
      BY <1>2, <3>1
    <3> QED BY <1>3, <3>1, <3>3, <3>4
  <2> QED BY <2>1, <2>2
<1>7. p \o q = r
  BY <1>3, <1>5, <1>6, SeqEqual
<1> QED BY <1>7 DEF p, q, r

(***************************************************************************)
(* A text without the white space at its end, and without what was cut off *)
(* behind the last thing to translate.                                     *)
(***************************************************************************)
LEMMA TrimPrefix ==
  ASSUME NEW L, NEW t \in Seq(L), NEW m \in 1..Len(t), t[m] \notin White,
         \A i \in m + 1..Len(t) : t[i] \in White
  PROVE  Trim(SubSeq(t, 1, m)) = Trim(t)
<1> DEFINE n == Len(t)
           s == SubSeq(t, 1, m)
           A == {i \in 1..n : t[i] \notin White}
           B == {i \in 1..m : s[i] \notin White}
<1>1. n \in Nat /\ m \in 1..n /\ m \in Nat /\ DOMAIN t = 1..n /\ 1 \in Nat
  OBVIOUS
<1>2. s \in Seq(L) /\ Len(s) = m /\ DOMAIN s = 1..m /\ \A i \in 1..m : s[i] = t[i]
  <2>1. m - 1 + 1 = m /\ \A i \in 1..m : 1 + i - 1 = i
    BY <1>1
  <2>2. s \in Seq(L) /\ Len(s) = m - 1 + 1 /\ \A i \in 1..m : s[i] = t[1 + i - 1]
    OBVIOUS
  <2>3. s \in Seq(L) /\ Len(s) = m /\ \A i \in 1..m : s[i] = t[i]
    BY <2>1, <2>2
  <2> HIDE DEF s
  <2> QED BY <2>3
<1> HIDE DEF n, s
<1>3. A = B
  <2>1. ASSUME NEW i \in 1..n, t[i] \notin White PROVE i \in 1..m
    <3> SUFFICES ASSUME ~(i \in 1..m) PROVE FALSE
      OBVIOUS
    <3>1. i \in m + 1..n
      BY <1>1
    <3> QED BY <2>1, <3>1 DEF n
  <2>2. 1..m \subseteq 1..n
    BY <1>1
  <2> QED BY <1>2, <2>1, <2>2
<1>4. ~Blank(t) /\ ~Blank(s)
  <2>1. m \in 1..m
    BY <1>1
  <2> QED BY <1>1, <1>2, <2>1 DEF Blank
<1>5. B \in SUBSET (0..n) /\ B # {} /\ B \subseteq 1..m
  <2>1. m \in 1..m /\ m \in B
    BY <1>1, <1>2
  <2>2. \A i \in 1..m : i \in 0..n
    BY <1>1
  <2> QED BY <2>1, <2>2
<1>6. Core(t, [from |-> 1, to |-> n]) = [from |-> Min(A), to |-> Max(A)]
  BY DEF Core
<1>7. Core(s, [from |-> 1, to |-> m]) = [from |-> Min(B), to |-> Max(B)]
  BY DEF Core
<1>11. PICK a, b : a = Min(B) /\ b = Max(B)
  OBVIOUS
<1>10. a \in 1..m /\ b \in 1..m
  <2>1. Max(B) \in B /\ Min(B) \in B
    <3> HIDE DEF B
    <3> QED BY <1>1, <1>5, Extremes
  <2> HIDE DEF B
  <2> QED BY <1>5, <1>11, <2>1
<1>8. Trim(t) = SubSeq(t, a, b)
  <2>1. Trim(t) = Slice(t, Core(t, [from |-> 1, to |-> n]))
    BY <1>4 DEF Trim, n
  <2>2. Core(t, [from |-> 1, to |-> n]) = [from |-> a, to |-> b]
    BY <1>3, <1>6, <1>11
  <2>3. Trim(t) = Slice(t, [from |-> a, to |-> b])
    BY <2>1, <2>2
  <2>4. [from |-> a, to |-> b].from = a /\ [from |-> a, to |-> b].to = b
    OBVIOUS
  <2>5. Slice(t, [from |-> a, to |-> b]) = SubSeq(t, a, b)
    BY <2>4 DEF Slice
  <2> QED BY <2>3, <2>5
<1>9. Trim(s) = SubSeq(s, a, b)
  <2>1. Trim(s) = Slice(s, Core(s, [from |-> 1, to |-> m]))
    BY <1>2, <1>4 DEF Trim
  <2>2. Core(s, [from |-> 1, to |-> m]) = [from |-> a, to |-> b]
    BY <1>7, <1>11
  <2>3. Trim(s) = Slice(s, [from |-> a, to |-> b])
    BY <2>1, <2>2
  <2>4. [from |-> a, to |-> b].from = a /\ [from |-> a, to |-> b].to = b
    OBVIOUS
  <2>5. Slice(s, [from |-> a, to |-> b]) = SubSeq(s, a, b)
    BY <2>4 DEF Slice
  <2> QED BY <2>3, <2>5
<1> HIDE DEF A, B
<1>12. SubSeq(s, a, b) = SubSeq(t, a, b)
  <2>1. CASE a <= b
    <3> DEFINE p == SubSeq(s, a, b)
               q == SubSeq(t, a, b)
    <3>1. p \in Seq(L) /\ Len(p) = b - a + 1 /\ \A i \in 1..(b - a + 1) : p[i] = s[a + i - 1]
      BY <1>1, <1>2, <1>10, <2>1
    <3>2. q \in Seq(L) /\ Len(q) = b - a + 1 /\ \A i \in 1..(b - a + 1) : q[i] = t[a + i - 1]
      BY <1>1, <1>10, <2>1, SMTT(15) DEF n
    <3>3. \A i \in 1..(b - a + 1) : a + i - 1 \in 1..m
      BY <1>1, <1>10, <2>1
    <3> HIDE DEF p, q
    <3>4. \A i \in 1..Len(p) : p[i] = q[i]
      BY <1>2, <3>1, <3>2, <3>3
    <3>5. p = q
      BY <3>1, <3>2, <3>4, SeqEqual
    <3> QED BY <3>5 DEF p, q
  <2>2. CASE ~(a <= b)
    <3>1. SubSeq(s, a, b) \in Seq(L) /\ Len(SubSeq(s, a, b)) = 0
      BY <1>1, <1>2, <1>10, <2>2
    <3>2. SubSeq(t, a, b) \in Seq(L) /\ Len(SubSeq(t, a, b)) = 0
      BY <1>1, <1>10, <2>2 DEF n
    <3>3. SubSeq(s, a, b) = <<>> /\ SubSeq(t, a, b) = <<>>
      BY <3>1, <3>2, EmptySeq
    <3> QED BY <3>3
  <2> QED BY <2>1, <2>2
<1> QED BY <1>8, <1>9, <1>12 DEF s

(***************************************************************************)
(* White space before each core and the core itself, put together: the     *)
(* text up to the end of the last core.                                    *)
(***************************************************************************)
LEMMA CoresJoin ==
  ASSUME NEW L, NEW t \in Seq(L), NEW cores, AreCores(t, cores), Len(cores) # 0,
         NEW seqs, seqs = [k \in 1..Len(cores) |-> Gap(t, cores, k) \o Slice(t, cores[k])]
  PROVE  FlattenSeq(seqs) = SubSeq(t, 1, cores[Len(cores)].to)
<1> DEFINE n == Len(t)
           N == Len(cores)
           R == [from : 1..n, to : 1..n]
           g == [k \in 1..N |-> SubSeq(t, 1, cores[k].to)]
<1>1. n \in Nat /\ N \in Nat \ {0} /\ N \in 1..N /\ cores \in Seq(R)
  BY DEF AreCores
<1>2. \A k \in 1..N : cores[k].from \in 1..n /\ cores[k].to \in 1..n /\ cores[k].from <= cores[k].to
  <2>1. \A k \in 1..N : cores[k] \in R
    <3> HIDE DEF R
    <3> QED BY <1>1
  <2> QED BY <2>1 DEF AreCores
<1>3. \A j, k \in 1..N : j < k => cores[j].to < cores[k].from
  BY DEF AreCores
<1> HIDE DEF N, R
<1>4. Len(seqs) = N
  <2>1. seqs = [k \in 1..N |-> Gap(t, cores, k) \o Slice(t, cores[k])]
    BY DEF N
  <2> DEFINE S == {seqs[k] : k \in 1..N}
  <2>2. seqs \in [1..N -> S]
    BY <2>1
  <2> HIDE DEF S
  <2> QED BY <1>1, <2>2
<1>5. \A k \in 1..N : seqs[k] = Gap(t, cores, k) \o Slice(t, cores[k])
  BY DEF N
<1>6. g[1] = seqs[1]
  <2>1. 1 \in 1..N
    BY <1>1
  <2>2. PICK a, b : a = cores[1].from /\ b = cores[1].to
    OBVIOUS
  <2>3. a \in 1..n /\ b \in 1..n /\ a <= b
    BY <1>2, <2>1, <2>2
  <2>4. Gap(t, cores, 1) = SubSeq(t, 1, a - 1)
    BY <2>2 DEF Gap
  <2>5. Slice(t, cores[1]) = SubSeq(t, (a - 1) + 1, b)
    <3>1. (a - 1) + 1 = a
      BY <2>3
    <3> QED BY <2>2, <3>1 DEF Slice
  <2>6. 1 \in 1..n + 1 /\ a - 1 \in 0..n /\ b \in 0..n /\ 1 <= (a - 1) + 1 /\ a - 1 <= b
    BY <1>1, <2>3
  <2>7. SubSeq(t, 1, a - 1) \o SubSeq(t, (a - 1) + 1, b) = SubSeq(t, 1, b)
    BY <2>6, Joined
  <2>8. g[1] = SubSeq(t, 1, b)
    BY <2>1, <2>2
  <2> QED BY <1>5, <2>1, <2>4, <2>5, <2>7, <2>8
<1>7. ASSUME NEW k \in 1..N, k # 1 PROVE g[k] = g[k - 1] \o seqs[k]
  <2>1. k - 1 \in 1..N /\ k - 1 < k
    BY <1>1, <1>7
  <2>2. PICK a, b, c : a = cores[k].from /\ b = cores[k].to /\ c = cores[k - 1].to
    OBVIOUS
  <2>3. a \in 1..n /\ b \in 1..n /\ c \in 1..n /\ a <= b /\ c < a
    BY <1>2, <1>3, <2>1, <2>2
  <2>4. Gap(t, cores, k) = SubSeq(t, c + 1, a - 1)
    BY <1>7, <2>2 DEF Gap
  <2>5. Slice(t, cores[k]) = SubSeq(t, (a - 1) + 1, b)
    <3>1. (a - 1) + 1 = a
      BY <2>3
    <3> QED BY <2>2, <3>1 DEF Slice
  <2>6. /\ c + 1 \in 1..n + 1 /\ a - 1 \in 0..n /\ b \in 0..n /\ c + 1 <= (a - 1) + 1 /\ a - 1 <= b
        /\ 1 \in 1..n + 1 /\ c \in 0..n /\ 1 <= c + 1 /\ c <= b
    BY <1>1, <2>3
  <2>7. SubSeq(t, c + 1, a - 1) \o SubSeq(t, (a - 1) + 1, b) = SubSeq(t, c + 1, b)
    BY <2>6, Joined
  <2>8. SubSeq(t, 1, c) \o SubSeq(t, c + 1, b) = SubSeq(t, 1, b)
    BY <2>6, Joined
  <2>9. g[k] = SubSeq(t, 1, b) /\ g[k - 1] = SubSeq(t, 1, c)
    BY <2>1, <2>2
  <2>10. seqs[k] = SubSeq(t, c + 1, b)
    BY <1>5, <2>4, <2>5, <2>7
  <2> QED BY <2>8, <2>9, <2>10
<1>8. g = [i \in 1..N |-> g[i]] /\ g[N] = SubSeq(t, 1, cores[N].to)
  BY <1>1
<1> HIDE DEF g
<1>10. JoinsUp(N, seqs, g)
  BY <1>6, <1>7, <1>8 DEF JoinsUp
<1>9. FlattenSeq(seqs) = g[N]
  BY <1>1, <1>4, <1>10, FlattenIs
<1> QED BY <1>8, <1>9 DEF N

LEMMA RangesCover ==
  ASSUME NEW L, NEW t \in Seq(L), NEW mode, NEW rules
  PROVE  Covers(t, Ranges(t, mode, rules))
BY ParagraphsCover, SentencesCover DEF Ranges

(***************************************************************************)
(* What Pieces promises of the text t of a unit: the rows with their gaps  *)
(* are the text, a gap has nothing to translate, and a row that was cut    *)
(* has, at both of its ends.                                               *)
(***************************************************************************)
Joins(seqs, t) == Trim(FlattenSeq(seqs)) = Trim(t)

Piecewise(u, L, pieces) ==
  /\ pieces \in Seq([path : {u.path}, gap : Seq(L), source : Seq(L), target : Seq(L) \cup {u.target}])
  /\ Len(pieces) # 0
  /\ Joins([i \in 1..Len(pieces) |-> pieces[i].gap \o pieces[i].source], u.source)
  /\ \A i \in 1..Len(pieces) : Blank(pieces[i].gap)
  /\ Len(pieces) # 1 => \A i \in 1..Len(pieces) : ~Blank(pieces[i].source)

\* A text that is not cut is the one row there is.
LEMMA WholeIsOne ==
  ASSUME NEW L, NEW u, u.source \in Seq(L)
  PROVE  Piecewise(u, L, Whole(u))
<1> DEFINE t == u.source
           Row == [path : {u.path}, gap : Seq(L), source : Seq(L), target : Seq(L) \cup {u.target}]
           row == [path |-> u.path, gap |-> <<>>, source |-> t, target |-> u.target]
<1>1. row \in Row /\ row.gap = <<>> /\ row.source = t
  OBVIOUS
<1>2. Whole(u) = <<row>>
  BY DEF Whole
<1> HIDE DEF Row, row
<1>3. PICK pieces : pieces = <<row>>
  OBVIOUS
<1>4. pieces \in Seq(Row) /\ Len(pieces) = 1 /\ pieces[1] = row
  BY <1>1, <1>3
<1>5. PICK N \in Nat \ {0} : N = 1
  OBVIOUS
<1> DEFINE seqs == [i \in 1..N |-> pieces[i].gap \o pieces[i].source]
           g == [i \in 1..N |-> t]
<1>6. 1 \in 1..N /\ N \in 1..N /\ \A i \in 1..N : i = 1
  BY <1>5
<1>7. <<>> \o t = t
  BY ConcatEmptySeq
<1>8. \A i \in 1..N : pieces[i].gap \o pieces[i].source = t
  BY <1>1, <1>4, <1>6, <1>7
<1>9. Len(seqs) = N /\ seqs[1] = t
  <2>1. seqs \in [1..N -> {t}] /\ seqs[1] = t
    BY <1>6, <1>8
  <2> HIDE DEF seqs
  <2> QED BY <1>5, <2>1
<1>10. JoinsUp(N, seqs, g) /\ g[N] = t
  <2>1. g = [i \in 1..N |-> g[i]] /\ g[1] = t /\ g[N] = t
    BY <1>6
  <2> HIDE DEF seqs, g
  <2> QED BY <1>6, <1>9, <2>1 DEF JoinsUp
<1> HIDE DEF seqs, g
<1>11. FlattenSeq(seqs) = t
  BY <1>9, <1>10, FlattenIs
<1>12. Joins(seqs, t) /\ Len(pieces) = N
  BY <1>4, <1>5, <1>11 DEF Joins
<1>13. \A i \in 1..N : Blank(pieces[i].gap)
  <2>1. Blank(<<>>)
    BY DEF Blank
  <2> QED BY <1>1, <1>4, <1>6, <2>1
<1>14. Piecewise(u, L, pieces)
  BY <1>4, <1>5, <1>12, <1>13 DEF Piecewise, Row, seqs
<1> QED BY <1>2, <1>3, <1>14

LEMMA GapIsBlank ==
  ASSUME NEW L, NEW t \in Seq(L), NEW cores, AreCores(t, cores), NEW k \in 1..Len(cores)
  PROVE  Blank(Gap(t, cores, k)) /\ Gap(t, cores, k) \in Seq(L)
<1> DEFINE n == Len(t)
           N == Len(cores)
           R == [from : 1..n, to : 1..n]
           a == IF k = 1 THEN 0 ELSE cores[k - 1].to
           b == cores[k].from
<1>1. n \in Nat /\ N \in Nat /\ cores \in Seq(R) /\ k \in 1..N
  BY DEF AreCores
<1>2. \A j \in 1..N : cores[j].from \in 1..n /\ cores[j].to \in 1..n /\ cores[j].from <= cores[j].to
  <2>1. \A j \in 1..N : cores[j] \in R
    <3> HIDE DEF R
    <3> QED BY <1>1
  <2> QED BY <2>1 DEF AreCores
<1>3. /\ \A i, j \in 1..N : i < j => cores[i].to < cores[j].from
      /\ \A i \in 1..n : t[i] \notin White => \E j \in 1..N : cores[j].from <= i /\ i <= cores[j].to
  BY DEF AreCores
<1> HIDE DEF N, R
<1>4. a \in 0..n /\ b \in 1..n
  <2>1. k # 1 => k - 1 \in 1..N
    BY <1>1
  <2> QED BY <1>1, <1>2, <2>1
<1>0. b = cores[k].from /\ (k # 1 => a = cores[k - 1].to)
  OBVIOUS
<1>10. Gap(t, cores, k) = SubSeq(t, a + 1, b - 1)
  BY DEF Gap
<1> HIDE DEF a, b, n
<1>5. ASSUME NEW i \in a + 1..b - 1, t[i] \notin White PROVE FALSE
  <2>1. i \in 1..n /\ i < b /\ a < i
    BY <1>1, <1>4
  <2>2. PICK j \in 1..N : cores[j].from <= i /\ i <= cores[j].to
    BY <1>3, <1>5, <2>1
  <2>3. j < k
    <3> SUFFICES ASSUME ~(j < k) PROVE FALSE
      OBVIOUS
    <3>1. j = k \/ k < j
      BY <1>1
    <3>2. b <= cores[j].from
      <4>1. CASE j = k
        BY <1>0, <1>4, <4>1
      <4>2. CASE k < j
        <5>1. PICK x, y : x = cores[k].to /\ y = cores[j].from
          OBVIOUS
        <5>2. x < y /\ b <= x /\ x \in 1..n /\ y \in 1..n
          BY <1>0, <1>1, <1>2, <1>3, <4>2, <5>1
        <5>3. b <= y
          BY <1>1, <1>4, <5>2
        <5> QED BY <5>1, <5>3
      <4> QED BY <3>1, <4>1, <4>2
    <3>3. cores[j].from \in 1..n
      BY <1>2
    <3> QED BY <1>4, <2>1, <2>2, <3>2, <3>3
  <2>4. k # 1 /\ k - 1 \in 1..N /\ a = cores[k - 1].to
    BY <1>0, <1>1, <2>3
  <2>5. cores[j].to <= a
    <3>1. j = k - 1 \/ j < k - 1
      BY <1>1, <2>3
    <3>2. CASE j = k - 1
      BY <1>2, <2>4, <3>2
    <3>3. CASE j < k - 1
      <4>1. PICK x, y, z : x = cores[j].to /\ y = cores[k - 1].from /\ z = cores[k - 1].to
        OBVIOUS
      <4>2. x < y /\ y <= z /\ x \in 1..n /\ y \in 1..n /\ z \in 1..n
        BY <1>2, <1>3, <2>4, <3>3, <4>1
      <4>3. x <= z
        BY <1>1, <4>2
      <4> QED BY <2>4, <4>1, <4>3
    <3> QED BY <3>1, <3>2, <3>3
  <2>6. PICK x : x = cores[j].to
    OBVIOUS
  <2>7. x \in 1..n /\ i <= x /\ x <= a
    BY <1>2, <2>2, <2>5, <2>6
  <2> QED BY <1>1, <1>4, <2>1, <2>7
<1>7. a + 1 \in 1..n + 1 /\ b - 1 \in 0..n
  BY <1>1, <1>4
<1>8. Blank(SubSeq(t, a + 1, b - 1))
  BY <1>5, <1>7, BlankSlice DEF n
<1>9. SubSeq(t, a + 1, b - 1) \in Seq(L)
  BY <1>7 DEF n
<1> QED BY <1>8, <1>9, <1>10

LEMMA CutsArePiecewise ==
  ASSUME NEW L, NEW u, u.source \in Seq(L), NEW cores, AreCores(u.source, cores), Len(cores) # 0,
         NEW pieces,
         pieces = [k \in 1..Len(cores) |->
                     [path |-> u.path, gap |-> Gap(u.source, cores, k),
                      source |-> Slice(u.source, cores[k]), target |-> <<>>]]
  PROVE  Piecewise(u, L, pieces)
<1> DEFINE t == u.source
           n == Len(t)
           N == Len(cores)
           R == [from : 1..n, to : 1..n]
           Row == [path : {u.path}, gap : Seq(L), source : Seq(L), target : Seq(L) \cup {u.target}]
           row(k) == [path |-> u.path, gap |-> Gap(t, cores, k), source |-> Slice(t, cores[k]),
                      target |-> <<>>]
           seqs == [k \in 1..N |-> Gap(t, cores, k) \o Slice(t, cores[k])]
<1>1. t \in Seq(L) /\ n \in Nat /\ N \in Nat \ {0} /\ N \in 1..N /\ cores \in Seq(R)
  BY DEF AreCores
<1>2. \A k \in 1..N : cores[k].from \in 1..n /\ cores[k].to \in 1..n
  <2>1. \A k \in 1..N : cores[k] \in R
    <3> HIDE DEF R
    <3> QED BY <1>1
  <2> QED BY <2>1
<1>3. /\ \A k \in 1..N : /\ cores[k].from <= cores[k].to
                         /\ t[cores[k].from] \notin White /\ t[cores[k].to] \notin White
      /\ \A j, k \in 1..N : j < k => cores[j].to < cores[k].from
      /\ \A i \in 1..n : t[i] \notin White => \E j \in 1..N : cores[j].from <= i /\ i <= cores[j].to
  BY DEF AreCores
<1>4. pieces = [k \in 1..N |-> row(k)]
  OBVIOUS
<1>5. AreCores(t, cores)
  OBVIOUS
<1>6. seqs = [k \in 1..Len(cores) |-> Gap(t, cores, k) \o Slice(t, cores[k])]
  OBVIOUS
<1> HIDE DEF R
<1>7. \A k \in 1..N : Gap(t, cores, k) \in Seq(L) /\ Blank(Gap(t, cores, k))
  <2>1. \A k \in 1..Len(cores) : Gap(t, cores, k) \in Seq(L) /\ Blank(Gap(t, cores, k))
    BY <1>1, <1>5, GapIsBlank
  <2> QED BY <2>1
<1>8. ASSUME NEW k \in 1..N
      PROVE  Slice(t, cores[k]) \in Seq(L) /\ ~Blank(Slice(t, cores[k]))
  <2>1. PICK a, b : a = cores[k].from /\ b = cores[k].to
    OBVIOUS
  <2>2. a \in 1..n /\ b \in 1..n /\ a <= b /\ t[a] \notin White
    BY <1>2, <1>3, <2>1
  <2>3. Slice(t, cores[k]) = SubSeq(t, a, b)
    BY <2>1 DEF Slice
  <2>4. a \in 1..n + 1 /\ b \in 0..n /\ a \in a..b
    BY <1>1, <2>2
  <2>5. ~Blank(SubSeq(t, a, b))
    BY <1>1, <2>2, <2>4, BlankSlice
  <2>6. SubSeq(t, a, b) \in Seq(L)
    BY <1>1, <2>2
  <2> QED BY <2>3, <2>5, <2>6
<1>9. FlattenSeq(seqs) = SubSeq(t, 1, cores[N].to)
  <2> HIDE DEF seqs, t
  <2>1. FlattenSeq(seqs) = SubSeq(t, 1, cores[Len(cores)].to)
    BY <1>1, <1>5, <1>6, CoresJoin
  <2> QED BY <2>1
<1>10. Trim(SubSeq(t, 1, cores[N].to)) = Trim(t)
  <2>1. PICK m : m = cores[N].to
    OBVIOUS
  <2>2. m \in 1..n /\ t[m] \notin White
    BY <1>1, <1>2, <1>3, <2>1
  <2>3. ASSUME NEW i \in m + 1..n, t[i] \notin White PROVE FALSE
    <3>1. i \in 1..n /\ m < i
      BY <1>1, <2>2
    <3>2. PICK j \in 1..N : cores[j].from <= i /\ i <= cores[j].to
      BY <1>3, <2>3, <3>1
    <3>3. j # N
      BY <1>1, <1>2, <2>1, <2>2, <3>1, <3>2
    <3>4. j < N
      BY <1>1, <3>3
    <3>5. cores[j].to < cores[N].from /\ cores[N].from <= cores[N].to
      BY <1>1, <1>3, <3>4
    <3>6. cores[j].to \in Nat /\ cores[N].from \in Nat
      BY <1>1, <1>2
    <3> QED BY <1>1, <2>1, <2>2, <3>1, <3>2, <3>5, <3>6
  <2>4. Trim(SubSeq(t, 1, m)) = Trim(t)
    BY <1>1, <2>2, <2>3, TrimPrefix
  <2> QED BY <2>1, <2>4
<1> HIDE DEF t, N
<1>11. \A k \in 1..N : /\ row(k) \in Row /\ row(k).gap = Gap(t, cores, k)
                       /\ row(k).source = Slice(t, cores[k])
  <2>1. <<>> \in Seq(L)
    OBVIOUS
  <2> QED BY <1>7, <1>8, <2>1
<1> HIDE DEF row, Row
<1>12. pieces \in Seq(Row) /\ Len(pieces) = N /\ \A k \in 1..N : pieces[k] = row(k)
  BY <1>1, <1>4, <1>11
<1>13. [i \in 1..Len(pieces) |-> pieces[i].gap \o pieces[i].source] = seqs
  <2>1. \A i \in 1..N : pieces[i].gap = Gap(t, cores, i) /\ pieces[i].source = Slice(t, cores[i])
    BY <1>11, <1>12
  <2>2. Len(pieces) = N
    BY <1>12
  <2>3. \A i \in 1..N : pieces[i].gap \o pieces[i].source = Gap(t, cores, i) \o Slice(t, cores[i])
    BY <2>1
  <2>4. [i \in 1..N |-> pieces[i].gap \o pieces[i].source]
          = [i \in 1..N |-> Gap(t, cores, i) \o Slice(t, cores[i])]
    BY <2>3
  <2> QED BY <2>2, <2>4
<1> HIDE DEF seqs
<1>14. Joins([i \in 1..Len(pieces) |-> pieces[i].gap \o pieces[i].source], t)
  BY <1>9, <1>10, <1>13 DEF Joins
<1>15. \A i \in 1..Len(pieces) : Blank(pieces[i].gap) /\ ~Blank(pieces[i].source)
  <2> TAKE i \in 1..Len(pieces)
  <2>1. i \in 1..N /\ pieces[i].gap = Gap(t, cores, i) /\ pieces[i].source = Slice(t, cores[i])
    BY <1>11, <1>12
  <2>2. Blank(Gap(t, cores, i)) /\ ~Blank(Slice(t, cores[i]))
    BY <1>7, <1>8, <2>1
  <2> QED BY <2>1, <2>2
<1> QED BY <1>1, <1>12, <1>14, <1>15 DEF Piecewise, t, Row

(***************************************************************************)
(* Segmentation keeps the text, for every text, rule set and mode.         *)
(***************************************************************************)
THEOREM PiecesAreTheUnit ==
  ASSUME NEW L, NEW u, u.source \in Seq(L), NEW mode, NEW rules
  PROVE  Piecewise(u, L, Pieces(u, mode, rules))
<1> DEFINE t == u.source
           ranges == Ranges(t, mode, rules)
           cores == [k \in DOMAIN ranges |-> Core(t, ranges[k])]
           whole == u.tagged \/ u.hasTarget \/ ranges = <<>>
           cuts == [k \in DOMAIN cores |->
                      [path |-> u.path, gap |-> Gap(t, cores, k), source |-> Slice(t, cores[k]),
                       target |-> <<>>]]
<1>1. Pieces(u, mode, rules) = IF whole THEN Whole(u) ELSE cuts
  BY DEF Pieces
<1>2. CASE whole
  BY <1>1, <1>2, WholeIsOne
<1>3. CASE ~whole
  <2>1. Covers(t, ranges)
    BY RangesCover
  <2>2. ranges \in Seq([from : 1..Len(t), to : 1..Len(t)]) /\ ranges # <<>>
    BY <1>3, <2>1 DEF Covers
  <2> HIDE DEF ranges
  <2>3. AreCores(t, cores)
    BY <2>1, CoresOf
  <2>4. DOMAIN cores = 1..Len(ranges) /\ Len(ranges) # 0 /\ Len(ranges) \in Nat
    <3>1. DOMAIN cores = DOMAIN ranges
      OBVIOUS
    <3>2. DOMAIN ranges = 1..Len(ranges) /\ Len(ranges) # 0 /\ Len(ranges) \in Nat
      BY <2>2, EmptySeq
    <3> QED BY <3>1, <3>2
  <2> HIDE DEF cores
  <2>5. cores \in Seq([from : 1..Len(t), to : 1..Len(t)])
    BY <2>3 DEF AreCores
  <2>6. Len(cores) = Len(ranges)
    BY <2>4, <2>5
  <2>7. cuts = [k \in 1..Len(cores) |->
                  [path |-> u.path, gap |-> Gap(t, cores, k), source |-> Slice(t, cores[k]),
                   target |-> <<>>]]
    BY <2>4, <2>6
  <2> HIDE DEF cuts
  <2>8. Piecewise(u, L, cuts)
    BY <2>3, <2>4, <2>6, <2>7, CutsArePiecewise
  <2> QED BY <1>1, <1>3, <2>8
<1> QED BY <1>2, <1>3

-----------------------------------------------------------------------------
(* From units to rows *)

(***************************************************************************)
(* FlattenSeq keeps the parts whole and in their order: part k is behind   *)
(* the first off[k - 1] elements.                                          *)
(***************************************************************************)
Blocks(seqs, flat, off) ==
  /\ off \in [0..Len(seqs) -> Nat] /\ off[0] = 0 /\ Len(flat) = off[Len(seqs)]
  /\ \A k \in 1..Len(seqs) :
       /\ off[k] = off[k - 1] + Len(seqs[k])
       /\ \A j \in 1..Len(seqs[k]) : flat[off[k - 1] + j] = seqs[k][j]

FlattensInto(seqs, S) ==
  FlattenSeq(seqs) \in Seq(S) /\ \E off : Blocks(seqs, FlattenSeq(seqs), off)

LEMMA FlattenHasBlocks ==
  ASSUME NEW S, NEW seqs \in Seq(Seq(S))
  PROVE  FlattensInto(seqs, S)
<1> DEFINE N == Len(seqs)
           Op == [i \in 1..N |-> [x \in Seq(S) |-> x \o seqs[i]]]
<1>1. N \in Nat /\ DOMAIN seqs = 1..N /\ <<>> \in Seq(S) /\ \A i \in 1..N : seqs[i] \in Seq(S)
  OBVIOUS
<1>2. \A i \in 1..N : Len(seqs[i]) \in Nat
  BY <1>1
<1>3. CASE N = 0
  <2>1. seqs = <<>>
    BY <1>3
  <2>2. FlattenSeq(seqs) = seqs
    BY <1>3 DEF FlattenSeq
  <2>3. PICK off : off = [i \in 0..0 |-> 0]
    OBVIOUS
  <2>4. off \in [0..0 -> Nat] /\ off[0] = 0 /\ 1..0 = {}
    BY <2>3
  <2>5. Blocks(seqs, seqs, off)
    BY <1>3, <2>4 DEF Blocks
  <2> QED BY <1>1, <2>1, <2>2, <2>5 DEF FlattensInto
<1>4. CASE N # 0
  <2>1. Op \in [1..N -> [Seq(S) -> Seq(S)]]
    <3>1. \A i \in 1..N : \A x \in Seq(S) : x \o seqs[i] \in Seq(S)
      BY <1>1, ConcatProperties
    <3> QED BY <3>1
  <2>2. \A i \in 1..N : \A x \in Seq(S) : Op[i][x] = x \o seqs[i]
    OBVIOUS
  <2> HIDE DEF Op
  <2>3. PICK F \in [SUBSET (1..N) -> Seq(S)] : FoldsTo(N, <<>>, Op, F)
    <3> HIDE DEF N
    <3> QED BY <1>1, <2>1, FoldExists
  <2> HIDE DEF N
  <2> DEFINE g == [i \in 0..N |-> F[1..i]]
             off == [i \in 0..N |-> Len(g[i])]
  <2>4. \A i \in 0..N : (1..i) \in SUBSET (1..N)
    BY <1>1
  <2>5. \A i \in 0..N : g[i] \in Seq(S) /\ Len(g[i]) \in Nat
    BY <2>3, <2>4
  <2>6. g[0] = <<>>
    <3>1. 1..0 = {} /\ 0 \in 0..N
      BY <1>1
    <3> QED BY <2>3, <3>1 DEF FoldsTo
  <2>7. ASSUME NEW i \in 1..N PROVE g[i] = g[i - 1] \o seqs[i] /\ i - 1 \in 0..N /\ i \in 0..N
    <3>1. (1..i) \in SUBSET (1..N) /\ 1..i # {} /\ (1..i) \ {i} = 1..(i - 1) /\ Max(1..i) = i
      BY <1>1, Prefix
    <3>2. i - 1 \in 0..N /\ i \in 0..N
      BY <1>1
    <3>3. F[1..i] = Op[i][F[1..(i - 1)]]
      BY <2>3, <3>1 DEF FoldsTo
    <3> QED BY <2>2, <2>5, <3>2, <3>3
  <2>8. off \in [0..N -> Nat] /\ off[0] = 0
    <3>1. 0 \in 0..N /\ Len(g[0]) = 0
      BY <1>1, <2>6
    <3> HIDE DEF g
    <3> QED BY <2>5, <3>1
  <2> HIDE DEF g
  <2>9. ASSUME NEW i \in 1..N
        PROVE  /\ off[i] = off[i - 1] + Len(seqs[i]) /\ off[i] = Len(g[i]) /\ off[i - 1] = Len(g[i - 1])
               /\ \A j \in 1..off[i - 1] : g[i][j] = g[i - 1][j]
               /\ \A j \in 1..Len(seqs[i]) : g[i][off[i - 1] + j] = seqs[i][j]
    <3>1. /\ g[i] = g[i - 1] \o seqs[i] /\ i - 1 \in 0..N /\ i \in 0..N
          /\ g[i - 1] \in Seq(S) /\ seqs[i] \in Seq(S)
      BY <1>1, <2>5, <2>7
    <3>2. PICK x, y : x = g[i - 1] /\ y = seqs[i]
      OBVIOUS
    <3>3. x \in Seq(S) /\ y \in Seq(S) /\ Len(x) \in Nat /\ Len(y) \in Nat
      BY <3>1, <3>2
    <3>4. /\ Len(x \o y) = Len(x) + Len(y)
          /\ \A j \in 1..Len(x) : (x \o y)[j] = x[j]
          /\ \A j \in 1..Len(y) : (x \o y)[Len(x) + j] = y[j]
      BY <3>3
    <3>5. off[i] = Len(g[i]) /\ off[i - 1] = Len(g[i - 1])
      BY <3>1
    <3> HIDE DEF off
    <3> QED BY <3>1, <3>2, <3>4, <3>5
  <2>10. \A i \in 0..N : off[i] \in Nat
    BY <2>8
  <2> HIDE DEF off
  <2> DEFINE Placed(i) == \A k \in 1..i : \A j \in 1..Len(seqs[k]) :
                            off[k - 1] + j \in 1..off[i] /\ g[i][off[k - 1] + j] = seqs[k][j]
             T == {i \in 0..N : Placed(i)}
  <2>11. 0 \in T
    BY <1>1
  <2>12. ASSUME NEW i \in 0..N, i \in T, i < N PROVE i + 1 \in T
    <3>1. i + 1 \in 1..N /\ i + 1 \in 0..N /\ (i + 1) - 1 = i
      BY <1>1, <2>12
    <3>2. /\ off[i + 1] = off[i] + Len(seqs[i + 1])
          /\ \A j \in 1..off[i] : g[i + 1][j] = g[i][j]
          /\ \A j \in 1..Len(seqs[i + 1]) : g[i + 1][off[i] + j] = seqs[i + 1][j]
      BY <2>9, <3>1
    <3>3. off[i] \in Nat /\ off[i + 1] \in Nat /\ Len(seqs[i + 1]) \in Nat
      BY <1>2, <2>10, <3>1
    <3>4. ASSUME NEW k \in 1..(i + 1), NEW j \in 1..Len(seqs[k])
          PROVE  off[k - 1] + j \in 1..off[i + 1] /\ g[i + 1][off[k - 1] + j] = seqs[k][j]
      <4>1. CASE k = i + 1
        <5>1. off[i] + j \in 1..off[i + 1]
          BY <3>2, <3>3, <3>4, <4>1
        <5> QED BY <3>1, <3>2, <3>4, <4>1, <5>1
      <4>2. CASE k # i + 1
        <5>1. k \in 1..i
          BY <1>1, <4>2
        <5>2. off[k - 1] + j \in 1..off[i] /\ g[i][off[k - 1] + j] = seqs[k][j]
          BY <2>12, <5>1
        <5>3. PICK x, y, z, w : x = off[k - 1] + j /\ y = off[i] /\ z = off[i + 1] /\ w = Len(seqs[i + 1])
          OBVIOUS
        <5>4. y \in Nat /\ z \in Nat /\ w \in Nat /\ z = y + w /\ x \in 1..y
          BY <3>2, <3>3, <5>2, <5>3
        <5>5. x \in 1..z
          BY <5>4
        <5>6. g[i + 1][x] = seqs[k][j]
          BY <3>2, <5>2, <5>3
        <5> QED BY <5>3, <5>5, <5>6
      <4> QED BY <4>1, <4>2
    <3> QED BY <3>1, <3>4
  <2>13. N \in T
    <3> HIDE DEF T
    <3>1. N \in 0..N /\ \A i \in 0..N : i \in T /\ i < N => i + 1 \in T
      BY <1>1, <2>12
    <3> QED BY <1>1, <2>11, <3>1, Ascent
  <2>14. FlattenSeq(seqs) = g[N]
    <3> DEFINE h == [i \in 1..N |-> g[i]]
    <3>1. 1 \in 1..N /\ N \in 1..N /\ N \in Nat \ {0} /\ 1 - 1 = 0
      BY <1>1, <1>4
    <3>2. h[1] = seqs[1]
      <4>1. g[1] = g[0] \o seqs[1]
        BY <2>7, <3>1
      <4>2. <<>> \o seqs[1] = seqs[1]
        BY <1>1, <3>1, ConcatEmptySeq
      <4> QED BY <2>6, <3>1, <4>1, <4>2
    <3>3. \A i \in 1..N : i # 1 => h[i] = h[i - 1] \o seqs[i]
      <4> TAKE i \in 1..N
      <4> SUFFICES ASSUME i # 1 PROVE h[i] = h[i - 1] \o seqs[i]
        OBVIOUS
      <4>1. i - 1 \in 1..N
        BY <1>1
      <4> QED BY <2>7, <4>1
    <3>4. h = [i \in 1..N |-> h[i]] /\ h[N] = g[N]
      BY <3>1
    <3> HIDE DEF h
    <3>5. JoinsUp(N, seqs, h) /\ Len(seqs) = N
      BY <3>2, <3>3, <3>4 DEF JoinsUp, N
    <3>6. FlattenSeq(seqs) = h[N]
      BY <3>1, <3>5, FlattenIs
    <3> QED BY <3>4, <3>6
  <2>15. \A k \in 1..N : \A j \in 1..Len(seqs[k]) : g[N][off[k - 1] + j] = seqs[k][j]
    BY <2>13
  <2>16. N \in 0..N
    BY <1>1
  <2>17. Len(g[N]) = off[N]
    BY <1>1, <1>4, <2>9
  <2>18. Blocks(seqs, g[N], off)
    BY <2>8, <2>9, <2>15, <2>17 DEF Blocks, N
  <2> QED BY <2>5, <2>14, <2>16, <2>18 DEF FlattensInto
<1> QED BY <1>3, <1>4

LEMMA InOrderInterval ==
  ASSUME NEW a \in Nat, NEW m \in Nat
  PROVE  InOrder(a + 1..a + m) = [j \in 1..m |-> a + j]
<1> DEFINE S == a + 1..a + m
           upTo(x) == {y \in S : y <= x}
           at(j) == CHOOSE x \in S : Cardinality(upTo(x)) = j
<1>1. Cardinality(S) = m
  <2>1. a + 1 \in Int /\ a + m \in Int
    OBVIOUS
  <2>2. Cardinality(S) = IF a + 1 > a + m THEN 0 ELSE (a + m) - (a + 1) + 1
    BY <2>1, FS_Interval
  <2> HIDE DEF S
  <2> QED BY <2>2
<1>2. ASSUME NEW x \in S PROVE Cardinality(upTo(x)) = x - a
  <2>1. x \in Int /\ a + 1 <= x /\ x <= a + m
    OBVIOUS
  <2>2. upTo(x) = a + 1..x
    BY <2>1
  <2>3. a + 1 \in Int
    OBVIOUS
  <2>4. Cardinality(a + 1..x) = IF a + 1 > x THEN 0 ELSE x - (a + 1) + 1
    BY <2>1, <2>3, FS_Interval
  <2> HIDE DEF upTo, S
  <2>5. Cardinality(a + 1..x) = x - a
    BY <2>1, <2>4
  <2> QED BY <2>2, <2>5
<1>3. ASSUME NEW j \in 1..m PROVE at(j) = a + j
  <2>1. a + j \in S
    OBVIOUS
  <2>2. \A x \in S : x \in Int
    OBVIOUS
  <2> HIDE DEF S, upTo
  <2>3. Cardinality(upTo(a + j)) = (a + j) - a
    BY <1>2, <2>1
  <2>4. (a + j) - a = j /\ j \in Int
    OBVIOUS
  <2>5. \A x \in S : Cardinality(upTo(x)) = j => x = a + j
    <3> SUFFICES ASSUME NEW x \in S, Cardinality(upTo(x)) = j PROVE x = a + j
      OBVIOUS
    <3>1. x - a = j /\ x \in Int
      BY <1>2, <2>2
    <3> QED BY <2>4, <3>1
  <2>6. at(j) \in S /\ Cardinality(upTo(at(j))) = j
    BY <2>1, <2>3, <2>4
  <2> HIDE DEF at
  <2> QED BY <2>5, <2>6
<1>4. InOrder(S) = [j \in 1..Cardinality(S) |-> at(j)]
  BY DEF InOrder
<1> HIDE DEF at
<1>5. InOrder(S) = [j \in 1..m |-> at(j)]
  BY <1>1, <1>4
<1> QED BY <1>3, <1>5

\* Units that a grid can be made of: texts, each with a path of its own.
AreUnits(units, L) ==
  /\ Len(units) \in Nat /\ DOMAIN units = 1..Len(units)
  /\ \A k \in 1..Len(units) : units[k].source \in Seq(L) /\ units[k].target \in Seq(L)
  /\ \A j, k \in 1..Len(units) : units[j].path = units[k].path => j = k

\* A grid that is as import left it, but for what people typed.
SameRows(grid, built) ==
  /\ Len(grid) = Len(built)
  /\ \A i \in 1..Len(built) : /\ grid[i].path = built[i].path
                              /\ grid[i].gap = built[i].gap /\ grid[i].source = built[i].source

(***************************************************************************)
(* The rows of a unit are the pieces it was cut into, one after the other. *)
(***************************************************************************)
ApartBy(path, seqs) ==
  /\ \A k \in 1..Len(seqs) : \A j \in 1..Len(seqs[k]) : seqs[k][j].path = path[k]
  /\ \A j, k \in 1..Len(seqs) : path[j] = path[k] => j = k

ArePieces(own, pieces) ==
  /\ DOMAIN own = 1..Len(pieces)
  /\ \A j \in 1..Len(pieces) : own[j].gap = pieces[j].gap /\ own[j].source = pieces[j].source

\* Where the rows of a unit lie in the grid.
Placed(grid, flat, path, piece, a) ==
  /\ a \in Nat /\ {i \in DOMAIN grid : grid[i].path = path} = a + 1..a + Len(piece)
  /\ \A j \in 1..Len(piece) : a + j \in DOMAIN grid /\ flat[a + j] = piece[j]

LEMMA RowsArePlaced ==
  ASSUME NEW Row, NEW seqs \in Seq(Seq(Row)), NEW path, ApartBy(path, seqs),
         NEW grid, SameRows(grid, FlattenSeq(seqs)), DOMAIN grid = 1..Len(grid),
         NEW k \in 1..Len(seqs)
  PROVE  /\ \E a : Placed(grid, FlattenSeq(seqs), path[k], seqs[k], a)
         /\ \A i \in DOMAIN grid : \E l \in 1..Len(seqs) : grid[i].path = path[l]
<1> DEFINE N == Len(seqs)
           flat == FlattenSeq(seqs)
           m == Len(seqs[k])
<1>1. N \in Nat /\ \A i \in 1..N : seqs[i] \in Seq(Row)
  OBVIOUS
<1>2. \A i \in 1..N : Len(seqs[i]) \in Nat
  BY <1>1
<1>3. flat \in Seq(Row) /\ \E off : Blocks(seqs, flat, off)
  BY FlattenHasBlocks DEF FlattensInto
<1>4. PICK off : Blocks(seqs, flat, off)
  BY <1>3
<1> HIDE DEF N, flat
<1>5. /\ off \in [0..N -> Nat] /\ off[0] = 0 /\ Len(flat) = off[N]
      /\ \A i \in 1..N : /\ off[i] = off[i - 1] + Len(seqs[i])
                         /\ \A j \in 1..Len(seqs[i]) : flat[off[i - 1] + j] = seqs[i][j]
  BY <1>4 DEF Blocks, N
<1>6. \A i \in 0..N : off[i] \in Nat
  BY <1>5
<1>7. k \in 1..N /\ k - 1 \in 0..N /\ k \in 0..N /\ m \in Nat /\ off[k] = off[k - 1] + m
  <2>1. k \in 1..N
    BY DEF N
  <2> QED BY <1>1, <1>2, <1>5, <2>1
<1> DEFINE a == off[k - 1]
<1>8. a \in Nat
  BY <1>6, <1>7
\* Every row is in a part, and the offsets ascend.
<1>9. \A i \in 0..N : off[i] <= off[N] /\ \A x \in 1..off[i] : \E l \in 1..i : off[l - 1] < x /\ x <= off[l]
  <2> DEFINE T == {i \in 0..N : \A x \in 1..off[i] : \E l \in 1..i : off[l - 1] < x /\ x <= off[l]}
             U == {i \in 0..N : off[N - i] <= off[N]}
  <2>1. 0 \in T
    BY <1>1, <1>5
  <2>2. ASSUME NEW i \in 0..N, i \in T, i < N PROVE i + 1 \in T
    <3>1. i + 1 \in 1..N /\ i + 1 \in 0..N /\ (i + 1) - 1 = i
      BY <1>1, <2>2
    <3>2. off[i] \in Nat /\ off[i + 1] \in Nat
      BY <1>6, <3>1
    <3>3. ASSUME NEW x \in 1..off[i + 1] PROVE \E l \in 1..(i + 1) : off[l - 1] < x /\ x <= off[l]
      <4>1. CASE x <= off[i]
        <5>1. x \in 1..off[i]
          BY <3>2, <4>1
        <5>2. PICK l \in 1..i : off[l - 1] < x /\ x <= off[l]
          BY <2>2, <5>1
        <5>3. l \in 1..(i + 1)
          BY <1>1
        <5> QED BY <5>2, <5>3
      <4>2. CASE ~(x <= off[i])
        <5>1. off[i] < x /\ x <= off[i + 1]
          BY <3>2, <4>2
        <5>2. i + 1 \in 1..(i + 1)
          BY <1>1
        <5> QED BY <3>1, <5>1, <5>2
      <4> QED BY <4>1, <4>2
    <3> QED BY <3>1, <3>3
  <2>3. \A i \in 0..N : i \in T
    <3> HIDE DEF T
    <3>1. \A i \in 0..N : i \in T /\ i < N => i + 1 \in T
      BY <2>2
    <3> QED BY <1>1, <2>1, <3>1, Ascent
  <2>4. 0 \in U
    <3>1. N - 0 = N /\ 0 \in 0..N /\ N \in 0..N
      BY <1>1
    <3>2. off[N] \in Nat
      BY <1>6, <3>1
    <3> QED BY <3>1, <3>2
  <2>5. ASSUME NEW i \in 0..N, i \in U, i < N PROVE i + 1 \in U
    <3>1. N - i \in 1..N /\ N - (i + 1) = (N - i) - 1 /\ N - (i + 1) \in 0..N /\ i + 1 \in 0..N /\ N - i \in 0..N
      BY <1>1, <2>5
    <3>2. off[N - i] = off[N - (i + 1)] + Len(seqs[N - i])
      BY <1>5, <3>1
    <3>3. off[N - i] \in Nat /\ off[N - (i + 1)] \in Nat /\ Len(seqs[N - i]) \in Nat /\ off[N] \in Nat
      BY <1>1, <1>2, <1>6, <3>1
    <3>4. off[N - i] <= off[N]
      BY <2>5
    <3>5. PICK x, y, z, w : x = off[N - i] /\ y = off[N - (i + 1)] /\ z = Len(seqs[N - i]) /\ w = off[N]
      OBVIOUS
    <3>6. x \in Nat /\ y \in Nat /\ z \in Nat /\ w \in Nat /\ x = y + z /\ x <= w
      BY <3>2, <3>3, <3>4, <3>5
    <3>7. y <= w
      BY <3>6
    <3> QED BY <3>1, <3>5, <3>7
  <2>6. \A i \in 0..N : i \in U
    <3> HIDE DEF U
    <3>1. \A i \in 0..N : i \in U /\ i < N => i + 1 \in U
      BY <2>5
    <3> QED BY <1>1, <2>4, <3>1, Ascent
  <2>7. ASSUME NEW i \in 0..N PROVE off[i] <= off[N]
    <3>1. N - i \in 0..N /\ N - (N - i) = i
      BY <1>1
    <3>2. N - i \in U
      BY <2>6, <3>1
    <3> QED BY <3>1, <3>2
  <2> QED BY <2>3, <2>7
<1> DEFINE I == {i \in DOMAIN grid : grid[i].path = path[k]}
<1>10. /\ Len(grid) = off[N] /\ DOMAIN grid = 1..off[N]
       /\ \A i \in 1..off[N] : /\ grid[i].path = flat[i].path
                               /\ grid[i].gap = flat[i].gap /\ grid[i].source = flat[i].source
  BY <1>5 DEF SameRows, flat
<1>11. off[N] \in Nat /\ off[k] <= off[N]
  <2>1. N \in 0..N
    BY <1>1
  <2> QED BY <1>6, <1>7, <1>9, <2>1
<1>12. ASSUME NEW l \in 1..N, NEW x \in 1..off[N], off[l - 1] < x, x <= off[l]
       PROVE  x - off[l - 1] \in 1..Len(seqs[l]) /\ flat[x] = seqs[l][x - off[l - 1]]
  <2>1. l - 1 \in 0..N /\ l \in 0..N
    BY <1>1
  <2>2. off[l - 1] \in Nat /\ off[l] \in Nat /\ Len(seqs[l]) \in Nat /\ off[l] = off[l - 1] + Len(seqs[l])
    BY <1>2, <1>5, <1>6, <2>1
  <2>3. x - off[l - 1] \in 1..Len(seqs[l]) /\ off[l - 1] + (x - off[l - 1]) = x
    <3>1. PICK p, q : p = off[l - 1] /\ q = Len(seqs[l])
      OBVIOUS
    <3>2. p \in Nat /\ q \in Nat /\ x \in Nat /\ p < x /\ x <= p + q
      BY <1>11, <1>12, <2>2, <3>1
    <3>3. x - p \in 1..q /\ p + (x - p) = x
      BY <3>2
    <3> QED BY <3>1, <3>3
  <2> QED BY <1>5, <2>3
<1>13. \A l \in 1..N : \A j \in 1..Len(seqs[l]) : seqs[l][j].path = path[l]
  BY DEF N, ApartBy
<1>14. \A l \in 1..N : path[l] = path[k] => l = k
  BY DEF N, ApartBy
<1>15. I = a + 1..a + m
  <2>1. ASSUME NEW x \in a + 1..a + m PROVE x \in I
    <3>1. x \in 1..off[N] /\ off[k - 1] < x /\ x <= off[k]
      BY <1>7, <1>8, <1>11, <2>1
    <3>2. flat[x].path = path[k]
      BY <1>7, <1>12, <1>13, <3>1
    <3> QED BY <1>10, <3>1, <3>2
  <2>2. ASSUME NEW x \in I PROVE x \in a + 1..a + m
    <3>1. x \in 1..off[N] /\ flat[x].path = path[k] /\ N \in 0..N
      BY <1>1, <1>10
    <3>2. PICK l \in 1..N : off[l - 1] < x /\ x <= off[l]
      BY <1>9, <3>1
    <3>3. flat[x].path = path[l]
      BY <1>12, <1>13, <3>1, <3>2
    <3>4. l = k
      BY <1>14, <3>1, <3>3
    <3>5. a < x /\ x <= a + m /\ x \in Nat
      BY <1>7, <1>11, <3>1, <3>2, <3>4
    <3> QED BY <1>7, <1>8, <3>5
  <2> HIDE DEF I, a, m
  <2> QED BY <2>1, <2>2
<1>16. ASSUME NEW j \in 1..m PROVE a + j \in DOMAIN grid /\ flat[a + j] = seqs[k][j]
  <2>1. PICK x, y, z : x = off[k - 1] /\ y = off[k] /\ z = off[N]
    OBVIOUS
  <2>2. x \in Nat /\ m \in Nat /\ y = x + m /\ z \in Nat /\ y <= z
    BY <1>7, <1>8, <1>11, <2>1
  <2>3. x + j \in 1..z
    BY <2>2
  <2>4. \A l \in 1..m : flat[off[k - 1] + l] = seqs[k][l]
    BY <1>5, <1>7
  <2> QED BY <1>10, <2>1, <2>3, <2>4
<1>17. ASSUME NEW i \in DOMAIN grid PROVE \E l \in 1..N : grid[i].path = path[l]
  <2>1. i \in 1..off[N] /\ N \in 0..N
    BY <1>1, <1>10
  <2>2. PICK l \in 1..N : off[l - 1] < i /\ i <= off[l]
    BY <1>9, <2>1
  <2>3. i - off[l - 1] \in 1..Len(seqs[l]) /\ flat[i] = seqs[l][i - off[l - 1]]
    BY <1>12, <2>1, <2>2
  <2>4. flat[i].path = path[l]
    BY <1>13, <2>3
  <2> QED BY <1>10, <2>1, <2>4
<1>18. Placed(grid, flat, path[k], seqs[k], a)
  <2> HIDE DEF a
  <2> QED BY <1>8, <1>15, <1>16 DEF Placed
<1> QED BY <1>17, <1>18 DEF N, flat

GridRow(P, L) == [path : P, gap : Seq(L), source : Seq(L), target : Seq(L)]

LEMMA PiecesAreRows ==
  ASSUME NEW L, NEW u, u.source \in Seq(L), u.target \in Seq(L), NEW P, u.path \in P, NEW mode, NEW rules
  PROVE  Pieces(u, mode, rules) \in Seq(GridRow(P, L))
<1> DEFINE pieces == Pieces(u, mode, rules)
           Part == [path : {u.path}, gap : Seq(L), source : Seq(L), target : Seq(L) \cup {u.target}]
<1>1. pieces \in Seq(Part)
  BY PiecesAreTheUnit DEF Piecewise
<1>2. \A x \in Part : x \in GridRow(P, L)
  BY DEF GridRow
<1> HIDE DEF pieces, Part
<1>3. DOMAIN pieces = 1..Len(pieces) /\ Len(pieces) \in Nat /\ \A i \in 1..Len(pieces) : pieces[i] \in Part
  BY <1>1
<1>4. pieces = [i \in 1..Len(pieces) |-> pieces[i]]
  BY <1>1
<1>5. pieces \in Seq(GridRow(P, L))
  BY <1>2, <1>3, <1>4
<1> QED BY <1>5 DEF pieces

\* The segments of each unit, and its path.
SegmentsOf(units, mode, rules) == [i \in DOMAIN units |-> Pieces(units[i], mode, rules)]

PathsOf(units) == [i \in DOMAIN units |-> units[i].path]

LEMMA SegmentsAre ==
  ASSUME NEW L, NEW units, AreUnits(units, L), NEW mode, NEW rules
  PROVE  /\ SegmentsOf(units, mode, rules) \in Seq(Seq(GridRow({units[i].path : i \in DOMAIN units}, L)))
         /\ Len(SegmentsOf(units, mode, rules)) = Len(units)
         /\ \A i \in DOMAIN units : Piecewise(units[i], L, SegmentsOf(units, mode, rules)[i])
         /\ ApartBy(PathsOf(units), SegmentsOf(units, mode, rules))
         /\ BuildSegments(units, mode, rules) = FlattenSeq(SegmentsOf(units, mode, rules))
<1> DEFINE N == Len(units)
           P == {units[i].path : i \in DOMAIN units}
           Row == GridRow(P, L)
           seqs == SegmentsOf(units, mode, rules)
           path == PathsOf(units)
<1>1. /\ N \in Nat /\ DOMAIN units = 1..N
      /\ \A i \in 1..N : units[i].source \in Seq(L) /\ units[i].target \in Seq(L) /\ units[i].path \in P
      /\ \A i, j \in 1..N : units[i].path = units[j].path => i = j
  BY DEF AreUnits
<1> HIDE DEF N, P
<1>2. DOMAIN seqs = 1..N /\ \A i \in 1..N : seqs[i] = Pieces(units[i], mode, rules)
  BY <1>1 DEF SegmentsOf
<1>3. ASSUME NEW i \in 1..N PROVE Piecewise(units[i], L, seqs[i]) /\ seqs[i] \in Seq(Row)
  <2>1. units[i].source \in Seq(L) /\ units[i].target \in Seq(L) /\ units[i].path \in P
    BY <1>1
  <2>2. Piecewise(units[i], L, Pieces(units[i], mode, rules))
    BY <2>1, PiecesAreTheUnit
  <2>3. Pieces(units[i], mode, rules) \in Seq(GridRow(P, L))
    BY <2>1, PiecesAreRows
  <2> QED BY <1>2, <2>2, <2>3
<1>4. FlattenSeq(seqs) = BuildSegments(units, mode, rules)
  BY DEF BuildSegments, SegmentsOf
<1>5. seqs = [i \in 1..N |-> seqs[i]]
  BY <1>1 DEF SegmentsOf
<1>6. DOMAIN path = 1..N /\ \A i \in 1..N : path[i] = units[i].path
  BY <1>1 DEF PathsOf
<1> HIDE DEF Row, seqs, path
<1>7. seqs \in Seq(Seq(Row)) /\ Len(seqs) = N
  <2>1. seqs \in [1..N -> Seq(Row)]
    BY <1>3, <1>5
  <2> QED BY <1>1, <2>1
<1>8. ApartBy(path, seqs)
  <2>1. ASSUME NEW i \in 1..N, NEW j \in 1..Len(seqs[i]) PROVE seqs[i][j].path = path[i]
    <3> DEFINE Part == [path : {units[i].path}, gap : Seq(L), source : Seq(L),
                        target : Seq(L) \cup {units[i].target}]
    <3>1. seqs[i] \in Seq(Part)
      BY <1>3 DEF Piecewise
    <3>2. \A x \in Part : x.path = units[i].path
      OBVIOUS
    <3> HIDE DEF Part
    <3>3. seqs[i][j] \in Part
      BY <2>1, <3>1
    <3> QED BY <1>6, <3>2, <3>3
  <2>2. \A i, j \in 1..N : path[i] = path[j] => i = j
    BY <1>1, <1>6
  <2> QED BY <1>7, <2>1, <2>2 DEF ApartBy
<1>9. \A i \in DOMAIN units : Piecewise(units[i], L, seqs[i])
  BY <1>1, <1>3
<1> QED BY <1>4, <1>7, <1>8, <1>9 DEF seqs, path, Row, N, P

-----------------------------------------------------------------------------
(* The units of texts *)

(***************************************************************************)
(* What the filters find in a file is a list of units a grid can be made   *)
(* of.  A lexeme is a string, an entity that was decoded among them.       *)
(***************************************************************************)
Lexemes == STRING \cup White \cup {Entities[name] : name \in DOMAIN Entities}

LEMMA AsLexemes == ASSUME NEW s \in Seq(STRING) PROVE s \in Seq(Lexemes)
<1>1. \A i \in 1..Len(s) : s[i] \in Lexemes
  BY DEF Lexemes
<1>2. s = [i \in 1..Len(s) |-> s[i]] /\ Len(s) \in Nat
  OBVIOUS
<1> HIDE DEF Lexemes
<1> QED BY <1>1, <1>2

LEMMA DecodedType ==
  ASSUME NEW s \in Seq(Lexemes)
  PROVE  Decoded(s) \in Seq(Lexemes)
<1> DEFINE found(i) == \E name \in DOMAIN Entities : Entity(name) = s[i]
           of(i) == CHOOSE name \in DOMAIN Entities : Entity(name) = s[i]
           at(i) == IF found(i) THEN Entities[of(i)] ELSE s[i]
<1>1. Decoded(s) = [i \in DOMAIN s |-> at(i)]
  BY DEF Decoded
<1>2. DOMAIN s = 1..Len(s) /\ Len(s) \in Nat /\ \A i \in 1..Len(s) : s[i] \in Lexemes
  OBVIOUS
<1>3. ASSUME NEW i \in 1..Len(s) PROVE at(i) \in Lexemes
  <2>1. CASE found(i)
    <3>1. of(i) \in DOMAIN Entities
      BY <2>1
    <3> QED BY <2>1, <3>1 DEF Lexemes
  <2>2. CASE ~found(i)
    BY <1>2, <2>2
  <2> QED BY <2>1, <2>2
<1> HIDE DEF at
<1> QED BY <1>1, <1>2, <1>3

LEMMA KeptType ==
  ASSUME NEW S, NEW s \in Seq(S), NEW I \in SUBSET (DOMAIN s)
  PROVE  Kept(s, I) \in Seq(S)
<1> DEFINE n == Len(s)
           N == Cardinality(I)
<1>1. n \in Nat /\ DOMAIN s = 1..n /\ \A i \in 1..n : s[i] \in S
  OBVIOUS
<1>2. I \in SUBSET (0..n)
  <2>1. \A i \in 1..n : i \in 0..n
    BY <1>1
  <2> QED BY <1>1, <2>1
<1> HIDE DEF n
<1>3. InOrder(I) \in [1..N -> I] /\ N \in Nat
  BY <1>1, <1>2, InOrderSorts
<1> HIDE DEF N
<1>4. Kept(s, I) = [k \in 1..N |-> s[InOrder(I)[k]]]
  BY <1>3 DEF Kept
<1>5. \A k \in 1..N : s[InOrder(I)[k]] \in S
  <2>1. \A k \in 1..N : InOrder(I)[k] \in 1..n
    BY <1>1, <1>3
  <2> QED BY <1>1, <2>1
<1> QED BY <1>3, <1>4, <1>5

\* Ranges at different places, in order.
LEMMA ByStartSorts ==
  ASSUME NEW n \in Nat, NEW X, \A r \in X : r.from \in 1..n
  PROVE  \E N \in Nat : /\ DOMAIN ByStart(X) = 1..N /\ \A k \in 1..N : ByStart(X)[k] \in X
                        /\ \A j, k \in 1..N : ByStart(X)[j].from = ByStart(X)[k].from => j = k
<1> DEFINE S == {r.from : r \in X}
           N == Cardinality(S)
           at(k) == CHOOSE r \in X : r.from = InOrder(S)[k]
<1>1. S \in SUBSET (0..n)
  <2>1. \A r \in X : r.from \in 0..n
    <3>1. \A x \in 1..n : x \in 0..n
      OBVIOUS
    <3> QED BY <3>1
  <2> QED BY <2>1, Zenon
<1>2. \A x \in S : \E r \in X : r.from = x
  OBVIOUS
<1>3. ByStart(X) = [k \in DOMAIN InOrder(S) |-> at(k)]
  BY DEF ByStart
<1> HIDE DEF S
<1>4. /\ InOrder(S) \in [1..N -> S] /\ N \in Nat
      /\ \A j, k \in 1..N : j < k => InOrder(S)[j] < InOrder(S)[k]
  BY <1>1, InOrderSorts
<1> HIDE DEF N
<1>5. \A k \in 1..N : at(k) \in X /\ at(k).from = InOrder(S)[k]
  BY <1>2, <1>4
<1> HIDE DEF at
<1>6. DOMAIN ByStart(X) = 1..N /\ \A k \in 1..N : ByStart(X)[k] = at(k)
  BY <1>3, <1>4
<1>7. ASSUME NEW j \in 1..N, NEW k \in 1..N, InOrder(S)[j] = InOrder(S)[k] PROVE j = k
  <2>1. InOrder(S)[j] \in 0..n /\ InOrder(S)[k] \in 0..n
    BY <1>1, <1>4
  <2>2. ~(j < k) /\ ~(k < j)
    BY <1>4, <1>7, <2>1
  <2> QED BY <1>4, <2>2
<1>8. \A j, k \in 1..N : ByStart(X)[j].from = ByStart(X)[k].from => j = k
  BY <1>5, <1>6, <1>7
<1> QED BY <1>4, <1>5, <1>6, <1>8

LEMMA RunsType ==
  ASSUME NEW n \in Nat, NEW P \in SUBSET (1..n), NEW r \in RunsOf(P)
  PROVE  r \in [from : 1..n, to : 1..n] /\ r.from <= r.to
<1>1. PICK runs : runs = ByStart(RunsOf(P))
  OBVIOUS
<1>2. AreRuns(P, runs) /\ \E k \in 1..Len(runs) : runs[k] = r
  <2>1. AreRuns(P, runs) /\ Lists(runs, RunsOf(P))
    BY <1>1, RunsSorted
  <2> QED BY <2>1 DEF Lists
<1>3. PICK k \in 1..Len(runs) : runs[k] = r
  BY <1>2
<1>4. runs \in Seq([from : P, to : P]) /\ r.from <= r.to
  BY <1>2, <1>3 DEF AreRuns
<1>5. r \in [from : P, to : P]
  <2> DEFINE R == [from : P, to : P]
  <2>1. runs \in Seq(R)
    BY <1>4
  <2> HIDE DEF R
  <2>2. runs[k] \in R
    BY <2>1
  <2> QED BY <1>3, <2>2 DEF R
<1> QED BY <1>4, <1>5

\* Units cut out of one text, at different places.
AtSpans(units, N, category, spans) ==
  /\ N \in Nat /\ DOMAIN units = 1..N /\ units = [k \in 1..N |-> units[k]]
  /\ \A k \in 1..N : /\ units[k].path = RangePath(category, spans[k])
                      /\ units[k].source \in Seq(Lexemes) /\ units[k].target = <<>>
  /\ \A j, k \in 1..N : spans[j].from = spans[k].from => j = k

LEMMA SpanUnits ==
  ASSUME NEW N, NEW spans, NEW units, NEW category, AtSpans(units, N, category, spans)
  PROVE  AreUnits(units, Lexemes)
<1>0. /\ N \in Nat /\ DOMAIN units = 1..N /\ units = [k \in 1..N |-> units[k]]
      /\ \A k \in 1..N : /\ units[k].path = RangePath(category, spans[k])
                          /\ units[k].source \in Seq(Lexemes) /\ units[k].target = <<>>
      /\ \A j, k \in 1..N : spans[j].from = spans[k].from => j = k
  BY DEF AtSpans
<1>1. Len(units) = N
  <2> DEFINE S == {units[k] : k \in 1..N}
  <2>1. units \in [1..N -> S]
    BY <1>0
  <2> HIDE DEF S
  <2> QED BY <1>0, <2>1
<1>2. <<>> \in Seq(Lexemes)
  OBVIOUS
<1>3. ASSUME NEW j \in 1..N, NEW k \in 1..N, units[j].path = units[k].path PROVE j = k
  <2>1. <<category, spans[j].from, spans[j].to>> = <<category, spans[k].from, spans[k].to>>
    BY <1>0, <1>3 DEF RangePath
  <2>2. spans[j].from = spans[k].from
    BY <2>1
  <2> QED BY <1>0, <2>2
<1> QED BY <1>0, <1>1, <1>2, <1>3 DEF AreUnits

LEMMA SliceType ==
  ASSUME NEW L, NEW t \in Seq(L), NEW r, r.from \in 1..Len(t), r.to \in 0..Len(t)
  PROVE  Slice(t, r) \in Seq(L)
<1>1. PICK a, b : a = r.from /\ b = r.to
  OBVIOUS
<1>2. a \in 1..Len(t) /\ b \in 0..Len(t)
  BY <1>1
<1>3. SubSeq(t, a, b) \in Seq(L)
  BY <1>2
<1> QED BY <1>1, <1>3 DEF Slice

LEMMA ContentType ==
  ASSUME NEW body \in Seq(Lexemes)
  PROVE  Content(body) \in Seq(Lexemes) /\ Len(Content(body)) = Len(body)
<1>1. " " \in Lexemes
  BY DEF Lexemes, White
<1>2. CASE body # <<>> /\ body[1] = "BOM"
  <2>1. Content(body) = [body EXCEPT ![1] = " "]
    BY <1>2 DEF Content
  <2>2. /\ body = [i \in 1..Len(body) |-> body[i]] /\ Len(body) \in Nat /\ DOMAIN body = 1..Len(body)
        /\ \A i \in 1..Len(body) : body[i] \in Lexemes
    OBVIOUS
  <2> HIDE DEF Lexemes
  <2>3. Content(body) \in [1..Len(body) -> Lexemes]
    BY <1>1, <2>1, <2>2
  <2> QED BY <2>2, <2>3
<1>3. CASE ~(body # <<>> /\ body[1] = "BOM")
  <2>1. Content(body) = body
    BY <1>3 DEF Content
  <2> QED BY <2>1
<1> QED BY <1>2, <1>3

\* Plain text.
LEMMA TxtUnitsAre ==
  ASSUME NEW body \in Seq(Lexemes)
  PROVE  AreUnits(TxtUnits(body), Lexemes)
<1> DEFINE t == Content(body)
           ranges == ParagraphRanges(t)
           spans == TxtSpans(body)
           N == Len(ranges)
           units == TxtUnits(body)
           R == [from : 1..Len(t), to : 1..Len(t)]
<1>1. t \in Seq(Lexemes) /\ Len(t) = Len(body) /\ Len(t) \in Nat
  BY ContentType
<1>2. Covers(t, ranges)
  BY <1>1, ParagraphsCover
<1>3. ranges \in Seq(R)
  BY <1>2 DEF Covers
<1> HIDE DEF ranges, t
<1>4. AreCores(t, [k \in DOMAIN ranges |-> Core(t, ranges[k])])
  BY <1>1, <1>2, CoresOf
<1>5. spans = [k \in DOMAIN ranges |-> Core(t, ranges[k])]
  BY DEF TxtSpans, ranges, t
<1>6. DOMAIN ranges = 1..N /\ N \in Nat
  <2> HIDE DEF R
  <2> QED BY <1>3
<1> HIDE DEF spans, N
<1>7. AreCores(t, spans) /\ DOMAIN spans = 1..N
  BY <1>4, <1>5, <1>6
<1>8. spans \in Seq(R) /\ Len(spans) = N
  <2>1. spans \in Seq(R)
    BY <1>7 DEF AreCores
  <2> HIDE DEF R
  <2> QED BY <1>6, <1>7, <2>1
<1>9. \A k \in 1..N : spans[k].from \in 1..Len(t) /\ spans[k].to \in 1..Len(t)
  <2>1. \A k \in 1..N : spans[k] \in R
    <3> HIDE DEF R
    <3> QED BY <1>8
  <2> QED BY <2>1
<1>10. ASSUME NEW j \in 1..N, NEW k \in 1..N, spans[j].from = spans[k].from PROVE j = k
  <2>1. \A i, l \in 1..N : i < l => spans[i].to < spans[l].from
    BY <1>7, <1>8 DEF AreCores
  <2>2. \A i \in 1..N : spans[i].from <= spans[i].to
    BY <1>7, <1>8 DEF AreCores
  <2>3. PICK a, b, c, d : a = spans[j].from /\ b = spans[j].to /\ c = spans[k].from /\ d = spans[k].to
    OBVIOUS
  <2>4. a \in Nat /\ b \in Nat /\ c \in Nat /\ d \in Nat /\ a = c /\ a <= b /\ c <= d
    BY <1>1, <1>9, <1>10, <2>2, <2>3
  <2>5. ~(j < k) /\ ~(k < j)
    <3>1. ASSUME j < k PROVE FALSE
      <4>1. b < c
        BY <2>1, <2>3, <3>1
      <4> QED BY <2>4, <4>1
    <3>2. ASSUME k < j PROVE FALSE
      <4>1. d < a
        BY <2>1, <2>3, <3>2
      <4> QED BY <2>4, <4>1
    <3> QED BY <3>1, <3>2
  <2> QED BY <1>6, <2>5
<1>11. units = [k \in 1..N |-> Unit(RangePath("txt", spans[k]), Slice(body, spans[k]))]
  BY <1>7 DEF TxtUnits, spans
<1> HIDE DEF units
<1>12. ASSUME NEW k \in 1..N
       PROVE  /\ units[k].path = RangePath("txt", spans[k])
              /\ units[k].source \in Seq(Lexemes) /\ units[k].target = <<>>
  <2>1. units[k] = Unit(RangePath("txt", spans[k]), Slice(body, spans[k]))
    BY <1>11
  <2>2. spans[k].from \in 1..Len(body) /\ spans[k].to \in 0..Len(body)
    BY <1>1, <1>9
  <2>3. Slice(body, spans[k]) \in Seq(Lexemes)
    BY <2>2, SliceType
  <2> QED BY <2>1, <2>3 DEF Unit
<1>13. DOMAIN units = 1..N /\ units = [k \in 1..N |-> units[k]]
  BY <1>11
<1>14. AtSpans(units, N, "txt", spans)
  BY <1>6, <1>10, <1>12, <1>13 DEF AtSpans
<1>15. AreUnits(units, Lexemes)
  BY <1>14, SpanUnits
<1> QED BY <1>15 DEF units

\* The core of a run that is not blank is inside the text.
LEMMA CoreInside ==
  ASSUME NEW L, NEW t \in Seq(L), NEW P \in SUBSET (1..Len(t)), NEW r \in RunsOf(P),
         ~Blank(Slice(t, r))
  PROVE  Core(t, r).from \in 1..Len(t) /\ Core(t, r).to \in 1..Len(t)
<1> DEFINE n == Len(t)
           R == [from : 1..n, to : 1..n]
<1>1. n \in Nat
  OBVIOUS
<1>2. r \in R /\ r.from <= r.to
  BY <1>1, RunsType
<1>3. PICK a, b : a = r.from /\ b = r.to
  OBVIOUS
<1>4. a \in 1..n /\ b \in 1..n
  BY <1>2, <1>3
<1>5. ~Blank(SubSeq(t, a, b))
  BY <1>3 DEF Slice
<1>6. a \in 1..n + 1 /\ b \in 0..n
  BY <1>1, <1>4
<1>7. \E i \in a..b : t[i] \notin White
  BY <1>5, <1>6, BlankSlice
<1>8. \E i \in r.from..r.to : t[i] \notin White
  BY <1>3, <1>7
<1> HIDE DEF n
<1>9. IsCore(t, n, r, Core(t, r))
  BY <1>1, <1>2, <1>8, CoreIs
<1> QED BY <1>9 DEF IsCore, n

\* Cores by their starts, from which Markdown and HTML make their units.
CoresOfRuns(t, P, X) ==
  \A x \in X : \E r \in RunsOf(P) : x = Core(t, r) /\ ~Blank(Slice(t, r))

LEMMA SpansByStart ==
  ASSUME NEW L, NEW t \in Seq(L), NEW X,
         \A x \in X : x.from \in 1..Len(t) /\ x.to \in 0..Len(t)
  PROVE  \E N \in Nat : /\ DOMAIN ByStart(X) = 1..N
                        /\ \A k \in 1..N : Slice(t, ByStart(X)[k]) \in Seq(L)
                        /\ \A j, k \in 1..N : ByStart(X)[j].from = ByStart(X)[k].from => j = k
<1>1. Len(t) \in Nat /\ \A x \in X : x.from \in 1..Len(t)
  OBVIOUS
<1>2. PICK N \in Nat :
        /\ DOMAIN ByStart(X) = 1..N /\ \A k \in 1..N : ByStart(X)[k] \in X
        /\ \A j, k \in 1..N : ByStart(X)[j].from = ByStart(X)[k].from => j = k
  BY <1>1, ByStartSorts
<1>3. \A x \in X : Slice(t, x) \in Seq(L)
  <2> TAKE x \in X
  <2>1. x.from \in 1..Len(t) /\ x.to \in 0..Len(t)
    OBVIOUS
  <2> QED BY <2>1, SliceType
<1> QED BY <1>2, <1>3

LEMMA RunSpans ==
  ASSUME NEW L, NEW t \in Seq(L), NEW P \in SUBSET (1..Len(t)), NEW X, CoresOfRuns(t, P, X)
  PROVE  \A x \in X : x.from \in 1..Len(t) /\ x.to \in 1..Len(t)
<1> TAKE x \in X
<1>1. PICK r \in RunsOf(P) : x = Core(t, r) /\ ~Blank(Slice(t, r))
  BY DEF CoresOfRuns
<1>2. Core(t, r).from \in 1..Len(t) /\ Core(t, r).to \in 1..Len(t)
  BY <1>1, CoreInside
<1> QED BY <1>1, <1>2

\* Markdown.
LEMMA MarkdownUnitsAre ==
  ASSUME NEW body \in Seq(Lexemes)
  PROVE  AreUnits(MarkdownUnits(body), Lexemes)
<1> DEFINE t == Content(body)
           P == DOMAIN t \ Protected(t)
           runs == {r \in RunsOf(P) : ~Blank(Slice(t, r))}
           X == {Core(t, r) : r \in runs}
           spans == ByStart(X)
           syntax == Protected(t) \ ByteOrderMark(body)
           tagged(k) == spans[k].from - 1 \in syntax \/ spans[k].to + 1 \in syntax
           units == MarkdownUnits(body)
<1>1. t \in Seq(Lexemes) /\ Len(t) = Len(body) /\ Len(body) \in Nat
  BY ContentType
<1>2. units = [k \in DOMAIN spans |->
                 [Unit(RangePath("md", spans[k]), Slice(body, spans[k])) EXCEPT !.tagged = tagged(k)]]
  BY DEF MarkdownUnits
<1> HIDE DEF t
<1>3. P \in SUBSET (1..Len(t))
  <2>1. DOMAIN t = 1..Len(t)
    BY <1>1
  <2> QED BY <2>1
<1>4. CoresOfRuns(t, P, X)
  BY DEF CoresOfRuns
<1> HIDE DEF P, X, tagged
<1>5. \A x \in X : x.from \in 1..Len(t) /\ x.to \in 1..Len(t)
  BY <1>1, <1>3, <1>4, RunSpans
<1>6. \A x \in X : x.from \in 1..Len(body) /\ x.to \in 0..Len(body)
  <2>1. \A i \in 1..Len(body) : i \in 0..Len(body)
    BY <1>1
  <2> QED BY <1>1, <1>5, <2>1
<1>7. PICK N \in Nat : /\ DOMAIN spans = 1..N
                       /\ \A k \in 1..N : Slice(body, spans[k]) \in Seq(Lexemes)
                       /\ \A j, k \in 1..N : spans[j].from = spans[k].from => j = k
  BY <1>6, SpansByStart
<1> HIDE DEF spans, units
<1>8. \A k \in 1..N : /\ units[k].path = RangePath("md", spans[k])
                      /\ units[k].source \in Seq(Lexemes) /\ units[k].target = <<>>
  BY <1>2, <1>7 DEF Unit
<1>9. DOMAIN units = 1..N /\ units = [k \in 1..N |-> units[k]]
  BY <1>2, <1>7
<1>10. AtSpans(units, N, "md", spans)
  BY <1>7, <1>8, <1>9 DEF AtSpans
<1>11. AreUnits(units, Lexemes)
  BY <1>10, SpanUnits
<1> QED BY <1>11 DEF units

\* HTML: texts between the tags, and the values of attributes.
LEMMA TextUnitsAre ==
  ASSUME NEW t \in Seq(Lexemes)
  PROVE  \E N, spans : AtSpans(TextUnits(t), N, "text", spans)
<1> DEFINE P == DOMAIN t \ Markup(t)
           runs == {r \in RunsOf(P) : ~Blank(Slice(t, r)) /\ OpenAt(t, r.from) \cap ExcludedNames = {}}
           X == {Core(t, r) : r \in runs}
           spans == ByStart(X)
           paired(name, i) == \E j \in i .. Len(t) : t[j] = EndTag[name]
           tagged(k) == \E name \in OpenAt(t, spans[k].from) \cap InlineNames : paired(name, spans[k].to)
           units == TextUnits(t)
<1>1. Len(t) \in Nat
  OBVIOUS
<1>2. units = [k \in DOMAIN spans |->
                 [Unit(RangePath("text", spans[k]), Decoded(Slice(t, spans[k]))) EXCEPT !.tagged = tagged(k)]]
  BY DEF TextUnits
<1>3. P \in SUBSET (1..Len(t))
  OBVIOUS
<1>4. CoresOfRuns(t, P, X)
  BY DEF CoresOfRuns
<1> HIDE DEF P, X, tagged
<1>5. \A x \in X : x.from \in 1..Len(t) /\ x.to \in 1..Len(t)
  BY <1>3, <1>4, RunSpans
<1>6. \A x \in X : x.from \in 1..Len(t) /\ x.to \in 0..Len(t)
  <2>1. \A i \in 1..Len(t) : i \in 0..Len(t)
    BY <1>1
  <2> QED BY <1>5, <2>1
<1>7. PICK N \in Nat : /\ DOMAIN spans = 1..N
                       /\ \A k \in 1..N : Slice(t, spans[k]) \in Seq(Lexemes)
                       /\ \A j, k \in 1..N : spans[j].from = spans[k].from => j = k
  BY <1>6, SpansByStart
<1> HIDE DEF spans, units
<1>8. \A k \in 1..N : /\ units[k].path = RangePath("text", spans[k])
                      /\ units[k].source \in Seq(Lexemes) /\ units[k].target = <<>>
  BY <1>2, <1>7, DecodedType DEF Unit
<1>9. DOMAIN units = 1..N /\ units = [k \in 1..N |-> units[k]]
  BY <1>2, <1>7
<1>10. AtSpans(units, N, "text", spans)
  BY <1>7, <1>8, <1>9 DEF AtSpans
<1> QED BY <1>10 DEF units

(***************************************************************************)
(* A quote that opens before a bracket outside of quotes is closed before  *)
(* it: what QuoteAt folds to is the quote as long as nothing closes it.    *)
(***************************************************************************)
Quoted(q, x) == IF q = "none" /\ x \in Quotes THEN x ELSE IF q = x THEN "none" ELSE q

QuoteAfter(s) ==
  FoldLeft(LAMBDA q, x : IF q = "none" /\ x \in Quotes THEN x ELSE IF q = x THEN "none" ELSE q, "none", s)

LEMMA QuoteCloses ==
  ASSUME NEW L, NEW s \in Seq(L), Len(s) # 0, s[1] \in Quotes,
         QuoteAfter(s) = "none"
  PROVE  \E x \in 2..Len(s) : s[x] = s[1]
<1> DEFINE N == Len(s)
           S == Quotes \cup {"none"}
           Defines(g) == g = [d \in SUBSET (DOMAIN s) |->
                                IF d = {} THEN "none" ELSE Quoted(g[d \ {Max(d)}], s[Max(d)])]
           F == CHOOSE g : Defines(g)
<1>1. F[DOMAIN s] = "none"
  BY DEF QuoteAfter, FoldLeft, MapThenFoldSet, Quoted
<1>2. N \in Nat \ {0} /\ DOMAIN s = 1..N /\ 1 \in 1..N
  OBVIOUS
<1>3. \A q \in S : \A x : Quoted(q, x) \in S
  BY DEF Quoted
<1>4. s[1] # "none"
  BY DEF Quotes
<1> HIDE DEF N
<1>5. \E g : Defines(g)
  <2> DEFINE Op == [i \in 1..N |-> [q \in S |-> Quoted(q, s[i])]]
  <2>1. Op \in [1..N -> [S -> S]] /\ "none" \in S
    BY <1>3
  <2> HIDE DEF Op, S
  <2>2. PICK g \in [SUBSET (1..N) -> S] : FoldsTo(N, "none", Op, g)
    BY <1>2, <2>1, FoldExists
  <2>3. ASSUME NEW d \in SUBSET (1..N)
        PROVE  g[d] = IF d = {} THEN "none" ELSE Quoted(g[d \ {Max(d)}], s[Max(d)])
    <3>1. CASE d = {}
      BY <2>2, <3>1 DEF FoldsTo
    <3>2. CASE d # {}
      <4>1. Max(d) \in 1..N
        BY <1>2, <3>2, MaxIn
      <4>2. d \ {Max(d)} \in SUBSET (1..N)
        OBVIOUS
      <4>3. g[d \ {Max(d)}] \in S
        BY <4>2
      <4>4. g[d] = Op[Max(d)][g[d \ {Max(d)}]]
        BY <2>2, <3>2 DEF FoldsTo
      <4> QED BY <3>2, <4>1, <4>3, <4>4 DEF Op
    <3> QED BY <3>1, <3>2
  <2>4. Defines(g)
    BY <1>2, <2>3
  <2> QED BY <2>4
<1>6. Defines(F)
  <2> HIDE DEF Defines
  <2> QED BY <1>5
<1> HIDE DEF F
<1>7. F[1..0] = "none"
  <2>1. 1..0 = {} /\ (1..0) \in SUBSET (1..N)
    OBVIOUS
  <2> QED BY <1>2, <1>6, <2>1
<1>8. ASSUME NEW i \in 1..N PROVE F[1..i] = Quoted(F[1..(i - 1)], s[i])
  <2>1. (1..i) \in SUBSET (1..N) /\ 1..i # {} /\ (1..i) \ {i} = 1..(i - 1) /\ Max(1..i) = i
    BY <1>2, Prefix
  <2>2. F[1..i] = Quoted(F[(1..i) \ {Max(1..i)}], s[Max(1..i)])
    BY <1>2, <1>6, <2>1
  <2> QED BY <2>1, <2>2
<1> HIDE DEF Defines
<1> SUFFICES ASSUME \A x \in 2..N : s[x] # s[1] PROVE FALSE
  BY DEF N
<1> DEFINE T == {i \in 0..N : i # 0 => F[1..i] = s[1]}
<1>9. 0 \in T
  BY <1>2
<1>10. ASSUME NEW i \in 0..N, i \in T, i < N PROVE i + 1 \in T
  <2>1. i + 1 \in 1..N /\ (i + 1) - 1 = i /\ i + 1 \in 0..N
    BY <1>2, <1>10
  <2>2. F[1..(i + 1)] = Quoted(F[1..i], s[i + 1])
    BY <1>8, <2>1
  <2>3. CASE i = 0
    <3>1. F[1..(i + 1)] = Quoted("none", s[1])
      BY <1>7, <2>2, <2>3
    <3>2. F[1..(i + 1)] = s[1]
      BY <3>1 DEF Quoted
    <3> QED BY <2>1, <3>2
  <2>4. CASE i # 0
    <3>1. i + 1 \in 2..N /\ F[1..i] = s[1]
      BY <1>2, <1>10, <2>1, <2>4
    <3>2. s[i + 1] # s[1]
      BY <3>1
    <3>3. F[1..(i + 1)] = s[1]
      BY <1>4, <2>2, <3>1, <3>2 DEF Quoted
    <3> QED BY <2>1, <3>3
  <2> QED BY <2>3, <2>4
<1>11. N \in T
  <2> HIDE DEF T
  <2>1. N \in 0..N /\ \A i \in 0..N : i \in T /\ i < N => i + 1 \in T
    BY <1>2, <1>10
  <2> QED BY <1>2, <1>9, <2>1, Ascent
<1> QED BY <1>1, <1>2, <1>4, <1>11

LEMMA AttributeInside ==
  ASSUME NEW t \in Seq(Lexemes), NEW i \in ImageTags(t), TagEnds(t, i) # {}
  PROVE  AttributeValue(t, i).from \in 1..Len(t) /\ AttributeValue(t, i).to \in 0..Len(t)
<1> DEFINE n == Len(t)
           first == t[i + 1]
           A == {j \in i + 2..n : t[j] = first}
           B == {j \in i + 1..n : t[j] \in White \cup {">"}}
<1>1. n \in Nat /\ i \in 1..n
  BY DEF ImageTags
<1>2. PICK j \in i + 1..n : t[j] = ">" /\ QuoteAt(t, i, j) = "none"
  BY DEF TagEnds
<1>3. j \in Nat /\ i + 1 \in 1..n /\ i + 1 <= j /\ j <= n /\ j - 1 \in 0..n
  BY <1>1, <1>2
<1>4. CASE first \in Quotes
  <2> DEFINE s == SubSeq(t, i + 1, j - 1)
             m == (j - 1) - (i + 1) + 1
  <2>1. j # i + 1
    BY <1>2, <1>4 DEF Quotes
  <2>2. i + 1 <= j - 1
    BY <1>1, <1>3, <2>1
  <2>3. s \in Seq(Lexemes) /\ Len(s) = m /\ \A x \in 1..m : s[x] = t[(i + 1) + x - 1]
    BY <1>3, <2>2
  <2>4. m \in Nat \ {0} /\ 1 \in 1..m /\ (i + 1) + 1 - 1 = i + 1
    BY <1>1, <1>3, <2>2
  <2>5. s[1] = first
    BY <2>3, <2>4
  <2>6. QuoteAfter(s) = "none"
    BY <1>2 DEF QuoteAt, QuoteAfter
  <2> HIDE DEF s, m
  <2>7. \E x \in 2..Len(s) : s[x] = s[1]
    BY <1>4, <2>3, <2>4, <2>5, <2>6, QuoteCloses
  <2>8. PICK x \in 2..m : s[x] = first
    BY <2>3, <2>5, <2>7
  <2>9. (i + 1) + x - 1 \in i + 2..n
    BY <1>1, <1>3, <2>8 DEF m
  <2>10. x \in 1..m
    BY <2>4
  <2>11. (i + 1) + x - 1 \in A
    BY <2>3, <2>8, <2>9, <2>10
  <2>12. A \in SUBSET (0..n)
    <3>1. \A y \in i + 2..n : y \in 0..n
      BY <1>1
    <3> QED BY <3>1
  <2>13. Min(A) \in A
    <3> HIDE DEF A
    <3> QED BY <1>1, <2>11, <2>12, Extremes
  <2>14. PICK y : y = Min(A)
    OBVIOUS
  <2>15. y \in i + 2..n
    BY <2>13, <2>14
  <2>16. AttributeValue(t, i) = [from |-> i + 2, to |-> y - 1]
    BY <1>4, <2>14 DEF AttributeValue
  <2>17. i + 2 \in 1..n /\ y - 1 \in 0..n
    BY <1>1, <2>15
  <2> QED BY <2>16, <2>17
<1>5. CASE first \notin Quotes
  <2>1. j \in B
    BY <1>2
  <2>2. B \in SUBSET (0..n)
    <3>1. \A y \in i + 1..n : y \in 0..n
      BY <1>1
    <3> QED BY <3>1
  <2>3. Min(B) \in B
    <3> HIDE DEF B
    <3> QED BY <1>1, <2>1, <2>2, Extremes
  <2>4. PICK y : y = Min(B)
    OBVIOUS
  <2>5. y \in i + 1..n
    BY <2>3, <2>4
  <2>6. AttributeValue(t, i) = [from |-> i + 1, to |-> y - 1]
    BY <1>5, <2>4 DEF AttributeValue
  <2>7. y - 1 \in 0..n
    BY <1>1, <2>5
  <2> QED BY <1>3, <2>6, <2>7
<1> QED BY <1>4, <1>5

LEMMA AttributeUnitsAre ==
  ASSUME NEW t \in Seq(Lexemes), WellFormed(t)
  PROVE  \E N, spans : AtSpans(AttributeUnits(t), N, "attr", spans)
<1> DEFINE X == {v \in {AttributeValue(t, i) : i \in ImageTags(t)} : ~Blank(Slice(t, v))}
           spans == ByStart(X)
           units == AttributeUnits(t)
<1>1. units = [k \in DOMAIN spans |-> Unit(RangePath("attr", spans[k]), Decoded(Slice(t, spans[k])))]
  BY DEF AttributeUnits
<1>2. \A x \in X : x.from \in 1..Len(t) /\ x.to \in 0..Len(t)
  <2> TAKE x \in X
  <2>1. PICK i \in ImageTags(t) : x = AttributeValue(t, i)
    OBVIOUS
  <2>2. TagEnds(t, i) # {}
    BY DEF WellFormed
  <2>3. AttributeValue(t, i).from \in 1..Len(t) /\ AttributeValue(t, i).to \in 0..Len(t)
    BY <2>2, AttributeInside
  <2> QED BY <2>1, <2>3
<1> HIDE DEF X
<1>3. PICK N \in Nat : /\ DOMAIN spans = 1..N
                       /\ \A k \in 1..N : Slice(t, spans[k]) \in Seq(Lexemes)
                       /\ \A j, k \in 1..N : spans[j].from = spans[k].from => j = k
  BY <1>2, SpansByStart
<1> HIDE DEF spans, units
<1>4. \A k \in 1..N : /\ units[k].path = RangePath("attr", spans[k])
                      /\ units[k].source \in Seq(Lexemes) /\ units[k].target = <<>>
  BY <1>1, <1>3, DecodedType DEF Unit
<1>5. DOMAIN units = 1..N /\ units = [k \in 1..N |-> units[k]]
  BY <1>1, <1>3
<1>6. AtSpans(units, N, "attr", spans)
  BY <1>3, <1>4, <1>5 DEF AtSpans
<1> QED BY <1>6 DEF units

(***************************************************************************)
(* HTML: first the texts, then the values of attributes.                   *)
(***************************************************************************)
LEMMA HtmlUnitsAre ==
  ASSUME NEW t \in Seq(Lexemes)
  PROVE  AreUnits(HtmlUnits(t), Lexemes)
<1>1. CASE ~WellFormed(t)
  <2>1. HtmlUnits(t) = <<>>
    BY <1>1 DEF HtmlUnits
  <2>2. Len(<<>>) = 0 /\ DOMAIN <<>> = 1..0
    OBVIOUS
  <2> QED BY <2>1, <2>2 DEF AreUnits
<1>2. CASE WellFormed(t)
  <2> DEFINE a == TextUnits(t)
             b == AttributeUnits(t)
             units == a \o b
  <2>1. PICK N, inText : AtSpans(a, N, "text", inText)
    BY TextUnitsAre
  <2>2. PICK M, inTags : AtSpans(b, M, "attr", inTags)
    BY <1>2, AttributeUnitsAre
  <2>3. HtmlUnits(t) = units
    BY <1>2 DEF HtmlUnits
  <2> HIDE DEF a, b
  <2>4. /\ N \in Nat /\ DOMAIN a = 1..N /\ a = [k \in 1..N |-> a[k]]
        /\ \A k \in 1..N : /\ a[k].path = RangePath("text", inText[k])
                            /\ a[k].source \in Seq(Lexemes) /\ a[k].target = <<>>
        /\ \A j, k \in 1..N : inText[j].from = inText[k].from => j = k
    BY <2>1 DEF AtSpans
  <2>5. /\ M \in Nat /\ DOMAIN b = 1..M /\ b = [k \in 1..M |-> b[k]]
        /\ \A k \in 1..M : /\ b[k].path = RangePath("attr", inTags[k])
                            /\ b[k].source \in Seq(Lexemes) /\ b[k].target = <<>>
        /\ \A j, k \in 1..M : inTags[j].from = inTags[k].from => j = k
    BY <2>2 DEF AtSpans
  <2>6. Len(a) = N /\ Len(b) = M
    <3> DEFINE S == {a[k] : k \in 1..N} \cup {b[k] : k \in 1..M}
    <3>1. a \in [1..N -> S] /\ b \in [1..M -> S]
      BY <2>4, <2>5
    <3> HIDE DEF S
    <3> QED BY <2>4, <2>5, <3>1
  <2>7. /\ units = [k \in 1..(N + M) |-> IF k <= N THEN a[k] ELSE b[k - N]]
        /\ N + M \in Nat
    <3> DEFINE S == {a[k] : k \in 1..N} \cup {b[k] : k \in 1..M}
    <3>1. a \in [1..N -> S] /\ b \in [1..M -> S]
      BY <2>4, <2>5
    <3> HIDE DEF S
    <3>2. N \in Nat /\ M \in Nat
      BY <2>4, <2>5
    <3>4. a \in Seq(S) /\ b \in Seq(S)
      BY <3>1, <3>2
    <3>3. units \in Seq(S) /\ Len(units) = N + M
      BY <2>6, <3>4, ConcatProperties
    <3>5. \A k \in 1..(N + M) : units[k] = IF k <= N THEN a[k] ELSE b[k - N]
      BY <2>6, <3>2, <3>4
    <3> HIDE DEF units
    <3> QED BY <3>2, <3>3, <3>5
  <2> HIDE DEF units
  <2>8. Len(units) = N + M /\ DOMAIN units = 1..(N + M)
    <3> DEFINE S == {a[k] : k \in 1..N} \cup {b[k] : k \in 1..M}
    <3>1. \A k \in 1..(N + M) : (IF k <= N THEN a[k] ELSE b[k - N]) \in S
      <4> TAKE k \in 1..(N + M)
      <4>1. CASE k <= N
        <5>1. k \in 1..N
          BY <2>4, <2>5, <4>1
        <5> QED BY <4>1, <5>1
      <4>2. CASE ~(k <= N)
        <5>1. k - N \in 1..M
          BY <2>4, <2>5, <4>2
        <5> QED BY <4>2, <5>1
      <4> QED BY <4>1, <4>2
    <3> HIDE DEF S
    <3>2. units \in [1..(N + M) -> S]
      BY <2>7, <3>1
    <3> QED BY <2>7, <3>2
  <2>9. ASSUME NEW k \in 1..(N + M)
        PROVE  \/ /\ k <= N /\ k \in 1..N /\ units[k] = a[k]
                  /\ units[k].path = <<"text", inText[k].from, inText[k].to>>
               \/ /\ ~(k <= N) /\ k - N \in 1..M /\ units[k] = b[k - N]
                  /\ units[k].path = <<"attr", inTags[k - N].from, inTags[k - N].to>>
    <3>1. CASE k <= N
      <4>1. k \in 1..N /\ units[k] = a[k]
        BY <2>4, <2>5, <2>7, <3>1
      <4> QED BY <2>4, <3>1, <4>1 DEF RangePath
    <3>2. CASE ~(k <= N)
      <4>1. k - N \in 1..M /\ units[k] = b[k - N]
        BY <2>4, <2>5, <2>7, <3>2
      <4> QED BY <2>5, <3>2, <4>1 DEF RangePath
    <3> QED BY <3>1, <3>2
  <2>10. <<>> \in Seq(Lexemes)
    OBVIOUS
  <2>11. ASSUME NEW j \in 1..(N + M), NEW k \in 1..(N + M), units[j].path = units[k].path PROVE j = k
    <3>1. CASE j <= N /\ k <= N
      <4>1. inText[j].from = inText[k].from /\ j \in 1..N /\ k \in 1..N
        BY <2>9, <2>11, <3>1
      <4> QED BY <2>4, <4>1
    <3>2. CASE ~(j <= N) /\ ~(k <= N)
      <4>1. inTags[j - N].from = inTags[k - N].from /\ j - N \in 1..M /\ k - N \in 1..M
        BY <2>9, <2>11, <3>2
      <4>2. j - N = k - N
        BY <2>5, <4>1
      <4> QED BY <2>4, <4>2
    <3>3. CASE j <= N /\ ~(k <= N)
      <4>1. <<"text", inText[j].from, inText[j].to>> = <<"attr", inTags[k - N].from, inTags[k - N].to>>
        BY <2>9, <2>11, <3>3
      <4> QED BY <4>1
    <3>4. CASE ~(j <= N) /\ k <= N
      <4>1. <<"text", inText[k].from, inText[k].to>> = <<"attr", inTags[j - N].from, inTags[j - N].to>>
        BY <2>9, <2>11, <3>4
      <4> QED BY <4>1
    <3> QED BY <3>1, <3>2, <3>3, <3>4
  <2>12. ASSUME NEW k \in 1..(N + M)
         PROVE  units[k].source \in Seq(Lexemes) /\ units[k].target \in Seq(Lexemes)
    <3>1. CASE k <= N
      <4>1. k \in 1..N /\ units[k] = a[k]
        BY <2>9, <3>1
      <4> QED BY <2>4, <2>10, <4>1
    <3>2. CASE ~(k <= N)
      <4>1. k - N \in 1..M /\ units[k] = b[k - N]
        BY <2>9, <3>2
      <4> QED BY <2>5, <2>10, <4>1
    <3> QED BY <3>1, <3>2
  <2>13. AreUnits(units, Lexemes)
    BY <2>7, <2>8, <2>11, <2>12 DEF AreUnits
  <2> QED BY <2>3, <2>13
<1> QED BY <1>1, <1>2

-----------------------------------------------------------------------------
(* Texts put together and taken apart *)

\* The prefixes of a list of texts, joined one by one, exist.
LEMMA JoinExists ==
  ASSUME NEW S, NEW seqs \in Seq(Seq(S)), Len(seqs) # 0
  PROVE  \E g : JoinsUp(Len(seqs), seqs, g) /\ \A i \in 1..Len(seqs) : g[i] \in Seq(S)
<1> DEFINE N == Len(seqs)
           Op == [i \in 1..N |-> [x \in Seq(S) |-> x \o seqs[i]]]
<1>1. N \in Nat /\ N # 0 /\ <<>> \in Seq(S) /\ \A i \in 1..N : seqs[i] \in Seq(S)
  OBVIOUS
<1>2. Op \in [1..N -> [Seq(S) -> Seq(S)]]
  <2>1. \A i \in 1..N : \A x \in Seq(S) : x \o seqs[i] \in Seq(S)
    BY <1>1, ConcatProperties
  <2> QED BY <2>1
<1>3. \A i \in 1..N : \A x \in Seq(S) : Op[i][x] = x \o seqs[i]
  OBVIOUS
<1> HIDE DEF Op
<1>4. PICK F \in [SUBSET (1..N) -> Seq(S)] : FoldsTo(N, <<>>, Op, F)
  <2> HIDE DEF N
  <2> QED BY <1>1, <1>2, FoldExists
<1> HIDE DEF N
<1> DEFINE g == [i \in 1..N |-> F[1..i]]
<1>5. ASSUME NEW i \in 1..N
      PROVE  F[1..i] = F[1..(i - 1)] \o seqs[i] /\ F[1..i] \in Seq(S)
  <2>1. (1..i) \in SUBSET (1..N) /\ 1..i # {} /\ (1..i) \ {i} = 1..(i - 1) /\ Max(1..i) = i
    BY <1>1, Prefix
  <2>2. (1..(i - 1)) \in SUBSET (1..N)
    BY <1>1
  <2>3. F[1..i] = Op[i][F[1..(i - 1)]]
    BY <1>4, <2>1 DEF FoldsTo
  <2> QED BY <1>3, <1>4, <2>1, <2>2, <2>3
<1>6. g[1] = seqs[1]
  <2>1. 1 \in 1..N /\ 1 - 1 = 0 /\ 1..0 = {}
    BY <1>1
  <2>2. F[{}] = <<>>
    BY <1>4 DEF FoldsTo
  <2>3. F[1..1] = F[1..0] \o seqs[1]
    BY <1>5, <2>1
  <2>4. <<>> \o seqs[1] = seqs[1]
    BY <1>1, <2>1, ConcatEmptySeq
  <2> QED BY <2>1, <2>2, <2>3, <2>4
<1>7. ASSUME NEW i \in 1..N, i # 1 PROVE g[i] = g[i - 1] \o seqs[i]
  <2>1. i - 1 \in 1..N
    BY <1>1, <1>7
  <2> QED BY <1>5, <2>1
<1>8. g = [i \in 1..N |-> g[i]] /\ \A i \in 1..N : g[i] \in Seq(S)
  BY <1>5
<1> HIDE DEF g
<1>9. JoinsUp(N, seqs, g)
  BY <1>6, <1>7, <1>8 DEF JoinsUp
<1> QED BY <1>8, <1>9 DEF N

\* One more text comes after those before it.
LEMMA FlattenStep ==
  ASSUME NEW S, NEW s \in Seq(Seq(S)), NEW x \in Seq(S)
  PROVE  FlattenSeq(Append(s, x)) = FlattenSeq(s) \o x
<1> DEFINE seqs == Append(s, x)
           N == Len(s)
<1>1. /\ N \in Nat /\ seqs \in Seq(Seq(S)) /\ Len(seqs) = N + 1 /\ seqs[N + 1] = x
      /\ \A i \in 1..N : seqs[i] = s[i]
  OBVIOUS
<1>0. N + 1 \in Nat \ {0} /\ N + 1 # 0
  BY <1>1
<1> HIDE DEF seqs, N
<1>2. PICK g : JoinsUp(N + 1, seqs, g) /\ \A i \in 1..N + 1 : g[i] \in Seq(S)
  <2>1. Len(seqs) # 0
    BY <1>0, <1>1
  <2>2. \E g : JoinsUp(Len(seqs), seqs, g) /\ \A i \in 1..Len(seqs) : g[i] \in Seq(S)
    BY <1>1, <2>1, JoinExists
  <2> QED BY <1>1, <2>2
<1>3. FlattenSeq(seqs) = g[N + 1]
  BY <1>0, <1>1, <1>2, FlattenIs
<1>4. CASE N = 0
  <2>1. FlattenSeq(s) = <<>>
    <3>1. s = <<>>
      BY <1>4 DEF N
    <3> QED BY <1>4, <3>1 DEF FlattenSeq
  <2>2. g[1] = x
    BY <1>1, <1>2, <1>4 DEF JoinsUp
  <2>3. <<>> \o x = x
    BY ConcatEmptySeq
  <2> QED BY <1>3, <1>4, <2>1, <2>2, <2>3 DEF seqs
<1>5. CASE N # 0
  <2> DEFINE h == [i \in 1..N |-> g[i]]
  <2> HIDE DEF N
  <2>1. N \in 1..N /\ N + 1 \in 1..N + 1 /\ N + 1 # 1 /\ (N + 1) - 1 = N /\ 1 \in 1..N /\ N \in Nat \ {0}
    BY <1>1, <1>5
  <2>2. h[1] = s[1] /\ h[N] = g[N]
    BY <1>1, <1>2, <2>1 DEF JoinsUp
  <2>3. ASSUME NEW i \in 1..N, i # 1 PROVE h[i] = h[i - 1] \o s[i]
    <3>1. i - 1 \in 1..N /\ i \in 1..N + 1
      BY <1>1, <2>3
    <3>2. g[i] = g[i - 1] \o seqs[i]
      BY <1>2, <2>3, <3>1 DEF JoinsUp
    <3> QED BY <1>1, <3>1, <3>2
  <2>4. h = [i \in 1..N |-> h[i]]
    OBVIOUS
  <2> HIDE DEF h
  <2>5. JoinsUp(N, s, h)
    BY <2>2, <2>3, <2>4 DEF JoinsUp
  <2>6. FlattenSeq(s) = h[N]
    BY <2>1, <2>5, FlattenIs DEF N
  <2>7. g[N + 1] = g[N] \o seqs[N + 1]
    BY <1>2, <2>1 DEF JoinsUp
  <2> QED BY <1>1, <1>3, <2>2, <2>6, <2>7 DEF seqs
<1> QED BY <1>4, <1>5

\* Texts joined are over the alphabet of the texts.
LEMMA FlattenType ==
  ASSUME NEW S, NEW s \in Seq(Seq(S))
  PROVE  FlattenSeq(s) \in Seq(S)
BY FlattenHasBlocks DEF FlattensInto

\* Three texts over one alphabet are joined in either way.
AreTexts(S, x, y, z) == x \in Seq(S) /\ y \in Seq(S) /\ z \in Seq(S)

LEMMA EitherWay ==
  ASSUME NEW S, NEW x, NEW y, NEW z, AreTexts(S, x, y, z)
  PROVE  (x \o y) \o z = x \o (y \o z)
<1>1. x \in Seq(S) /\ y \in Seq(S) /\ z \in Seq(S)
  BY DEF AreTexts
<1> QED BY <1>1, ConcatAssociative

\* Joining two lists of texts joins what they are together.
LEMMA FlattenConcat ==
  ASSUME NEW S, NEW a \in Seq(Seq(S)), NEW b \in Seq(Seq(S))
  PROVE  FlattenSeq(a \o b) = FlattenSeq(a) \o FlattenSeq(b)
<1> DEFINE N == Len(b)
           pre(i) == SubSeq(b, 1, i)
           T == {i \in 0..N : FlattenSeq(a \o pre(i)) = FlattenSeq(a) \o FlattenSeq(pre(i))}
<1>1. N \in Nat /\ \A i \in 0..N : pre(i) \in Seq(Seq(S))
  OBVIOUS
<1>2. 0 \in T
  <2>1. pre(0) = <<>>
    OBVIOUS
  <2>2. FlattenSeq(<<>>) = <<>>
    BY DEF FlattenSeq
  <2>3. a \o <<>> = a
    BY ConcatEmptySeq
  <2>4. FlattenSeq(a) \o <<>> = FlattenSeq(a)
    BY FlattenType, ConcatEmptySeq
  <2>5. 0 \in 0..N
    BY <1>1
  <2> HIDE DEF pre, N
  <2>6. FlattenSeq(a \o pre(0)) = FlattenSeq(a) \o FlattenSeq(pre(0))
    BY <2>1, <2>2, <2>3, <2>4
  <2> QED BY <2>5, <2>6
<1>3. ASSUME NEW i \in 0..N, i \in T, i < N PROVE i + 1 \in T
  <2>1. i + 1 \in 0..N /\ i + 1 \in 1..N
    BY <1>1, <1>3
  <2>2. b[i + 1] \in Seq(S)
    BY <2>1
  <2>3. pre(i + 1) = Append(pre(i), b[i + 1])
    BY <2>1
  <2>4. pre(i) \in Seq(Seq(S))
    BY <1>1
  <2> HIDE DEF pre
  <2>5. a \o Append(pre(i), b[i + 1]) = Append(a \o pre(i), b[i + 1]) /\ a \o pre(i) \in Seq(Seq(S))
    <3>1. PICK y, z : y = pre(i) /\ z = b[i + 1]
      OBVIOUS
    <3> DEFINE Q == Seq(S)
    <3>2. a \in Seq(Q) /\ y \in Seq(Q) /\ z \in Q
      BY <2>2, <2>4, <3>1
    <3> HIDE DEF Q
    <3>3. a \o Append(y, z) = Append(a \o y, z) /\ a \o y \in Seq(Q)
      BY <3>2
    <3> QED BY <3>1, <3>3 DEF Q
  <2>6. FlattenSeq(Append(a \o pre(i), b[i + 1])) = FlattenSeq(a \o pre(i)) \o b[i + 1]
    BY <2>2, <2>5, FlattenStep
  <2>7. FlattenSeq(Append(pre(i), b[i + 1])) = FlattenSeq(pre(i)) \o b[i + 1]
    BY <2>2, <2>4, FlattenStep
  <2>8. (FlattenSeq(a) \o FlattenSeq(pre(i))) \o b[i + 1] = FlattenSeq(a) \o (FlattenSeq(pre(i)) \o b[i + 1])
    <3>1. FlattenSeq(a) \in Seq(S) /\ FlattenSeq(pre(i)) \in Seq(S)
      BY <2>4, FlattenType
    <3>2. PICK x, y, z : x = FlattenSeq(a) /\ y = FlattenSeq(pre(i)) /\ z = b[i + 1]
      OBVIOUS
    <3>3. x \in Seq(S) /\ y \in Seq(S) /\ z \in Seq(S)
      BY <2>2, <3>1, <3>2
    <3>4. AreTexts(S, x, y, z)
      BY <3>3 DEF AreTexts
    <3>5. (x \o y) \o z = x \o (y \o z)
      BY <3>4, EitherWay
    <3> QED BY <3>2, <3>5
  <2>9. FlattenSeq(a \o pre(i)) = FlattenSeq(a) \o FlattenSeq(pre(i))
    BY <1>3
  <2> QED BY <2>1, <2>3, <2>5, <2>6, <2>7, <2>8, <2>9
<1>4. N \in T
  <2> HIDE DEF T, pre, N
  <2>1. N \in 0..N /\ \A i \in 0..N : i \in T /\ i < N => i + 1 \in T
    BY <1>1, <1>3
  <2> QED BY <1>1, <1>2, <2>1, Ascent
<1>5. pre(N) = b
  OBVIOUS
<1> HIDE DEF pre, N
<1> QED BY <1>4, <1>5

\* Texts that are all empty but one.
LEMMA FlattenOne ==
  ASSUME NEW S, NEW s \in Seq(Seq(S)), NEW m \in 1..Len(s), \A i \in 1..Len(s) : i # m => s[i] = <<>>
  PROVE  FlattenSeq(s) = s[m]
<1> DEFINE N == Len(s)
<1>1. N \in Nat /\ N # 0 /\ s[m] \in Seq(S)
  OBVIOUS
<1>2. PICK g : JoinsUp(N, s, g) /\ \A i \in 1..N : g[i] \in Seq(S)
  BY <1>1, JoinExists
<1>3. FlattenSeq(s) = g[N]
  BY <1>1, <1>2, FlattenIs
<1> HIDE DEF N
<1> DEFINE T == {i \in 0..N : i # 0 => g[i] = IF i < m THEN <<>> ELSE s[m]}
<1>4. 0 \in T
  BY <1>1
<1>5. ASSUME NEW i \in 0..N, i \in T, i < N PROVE i + 1 \in T
  <2>1. i + 1 \in 1..N /\ i + 1 \in 0..N /\ (i + 1) - 1 = i /\ m \in 1..N
    BY <1>1, <1>5 DEF N
  <2>2. i + 1 # m => s[i + 1] = <<>>
    BY <2>1 DEF N
  <2>3. CASE i = 0
    <3>1. g[i + 1] = s[i + 1]
      BY <1>2, <2>3 DEF JoinsUp
    <3>2. i + 1 < m \/ i + 1 = m
      BY <2>1, <2>3
    <3> QED BY <2>1, <2>2, <3>1, <3>2
  <2>4. CASE i # 0
    <3>0. i + 1 # 1
      BY <2>1, <2>4
    <3>1. g[i + 1] = g[i] \o s[i + 1]
      BY <1>2, <2>1, <3>0 DEF JoinsUp
    <3>2. g[i] = IF i < m THEN <<>> ELSE s[m]
      BY <1>5, <2>4
    <3>3. i + 1 < m \/ i + 1 = m \/ (~(i < m) /\ i + 1 # m /\ ~(i + 1 < m))
      BY <2>1
    <3>4. CASE i + 1 < m
      <4>1. g[i] = <<>> /\ s[i + 1] = <<>>
        BY <2>1, <2>2, <3>2, <3>4
      <4>2. <<>> \o <<>> = <<>>
        OBVIOUS
      <4> QED BY <2>1, <3>1, <3>4, <4>1, <4>2
    <3>5. CASE i + 1 = m
      <4>1. g[i] = <<>> /\ ~(i + 1 < m)
        BY <2>1, <3>2, <3>5
      <4>2. <<>> \o s[m] = s[m]
        BY <1>1, ConcatEmptySeq
      <4> QED BY <2>1, <3>1, <3>5, <4>1, <4>2
    <3>6. CASE ~(i < m) /\ i + 1 # m /\ ~(i + 1 < m)
      <4>1. g[i] = s[m] /\ s[i + 1] = <<>>
        BY <2>2, <3>2, <3>6
      <4>2. s[m] \o <<>> = s[m]
        BY <1>1, ConcatEmptySeq
      <4> QED BY <2>1, <3>1, <3>6, <4>1, <4>2
    <3> QED BY <3>3, <3>4, <3>5, <3>6
  <2> QED BY <2>3, <2>4
<1>6. N \in T
  <2> HIDE DEF T
  <2>1. N \in 0..N /\ \A i \in 0..N : i \in T /\ i < N => i + 1 \in T
    BY <1>1, <1>5
  <2> QED BY <1>1, <1>4, <2>1, Ascent
<1>7. m \in 1..N
  BY DEF N
<1>8. N # 0 /\ ~(N < m)
  BY <1>1, <1>7
<1> QED BY <1>3, <1>6, <1>8

-----------------------------------------------------------------------------
\* A list of the numbers of a set in ascending order is the one there is.
Ascending(g, N, S) ==
  /\ N \in Nat /\ g \in [1..N -> S]
  /\ \A j, k \in 1..N : j < k => g[j] < g[k]
  /\ \A x \in S : \E k \in 1..N : g[k] = x

Within(S, n) == n \in Nat /\ \A x \in S : x \in 1..n

\* InOrder lists a set, and nothing else, upwards.
LEMMA InOrderAscends ==
  ASSUME NEW S, NEW n, Within(S, n)
  PROVE  Ascending(InOrder(S), Cardinality(S), S)
<1>1. n \in Nat /\ S \in SUBSET (0..n)
  <2>1. n \in Nat /\ \A x \in 1..n : x \in 0..n
    BY DEF Within
  <2> QED BY <2>1 DEF Within
<1> QED BY <1>1, InOrderSorts DEF Ascending

\* Whatever lists a set upwards is InOrder of it.
LEMMA InOrderUnique ==
  ASSUME NEW S, NEW n, Within(S, n), NEW N, NEW g, Ascending(g, N, S)
  PROVE  InOrder(S) = g
<1>0. /\ N \in Nat /\ g \in [1..N -> S]
      /\ \A j, k \in 1..N : j < k => g[j] < g[k]
      /\ \A x \in S : \E k \in 1..N : g[k] = x
  BY DEF Ascending
<1>00. \A x \in S : x \in Nat
  BY DEF Within
<1> DEFINE upTo(x) == {y \in S : y <= x}
           at(k) == CHOOSE x \in S : Cardinality(upTo(x)) = k
<1>1. \A k \in 1..N : g[k] \in S /\ g[k] \in Nat
  BY <1>0, <1>00
<1>2. \A j, k \in 1..N : g[j] = g[k] => j = k
  <2> SUFFICES ASSUME NEW j \in 1..N, NEW k \in 1..N, g[j] = g[k] PROVE j = k
    OBVIOUS
  <2>1. PICK x : x = g[k]
    OBVIOUS
  <2>2. x \in Nat /\ g[j] = x /\ g[k] = x
    BY <1>1, <2>1
  <2>3. ~(j < k) /\ ~(k < j)
    BY <1>0, <2>2
  <2> QED BY <1>0, <2>3
<1>3. Cardinality(S) = N
  <2>1. g \in Bijection(1..N, S)
    BY <1>0, <1>2, Fun_IsBij
  <2>2. ExistsBijection(1..N, S)
    BY <2>1 DEF ExistsBijection
  <2>3. IsFiniteSet(1..N) /\ Cardinality(1..N) = N
    BY <1>0, FS_Interval
  <2> QED BY <2>2, <2>3, FS_Bijection
<1>4. ASSUME NEW k \in 1..N PROVE Cardinality(upTo(g[k])) = k
  <2> DEFINE f == [j \in 1..k |-> g[j]]
             U == upTo(g[k])
  <2>1. k \in Nat /\ \A j \in 1..k : j \in 1..N
    BY <1>0
  <2>2. \A j \in 1..k : g[j] \in U
    <3> SUFFICES ASSUME NEW j \in 1..k PROVE g[j] <= g[k]
      BY <1>1, <2>1
    <3>1. j = k \/ j < k
      BY <2>1
    <3>2. PICK x, y : x = g[j] /\ y = g[k]
      OBVIOUS
    <3>3. x \in Nat /\ y \in Nat /\ (x = y \/ x < y)
      BY <1>0, <1>1, <2>1, <3>1, <3>2
    <3>4. x <= y
      BY <3>3
    <3> QED BY <3>2, <3>4
  <2>3. \A x \in U : \E j \in 1..k : g[j] = x
    <3> SUFFICES ASSUME NEW x \in U PROVE \E j \in 1..k : g[j] = x
      OBVIOUS
    <3>1. PICK j \in 1..N : g[j] = x
      BY <1>0
    <3>2. PICK y, z : y = g[j] /\ z = g[k]
      OBVIOUS
    <3>3. y \in Nat /\ z \in Nat /\ y <= z /\ (k < j => z < y)
      BY <1>0, <1>1, <3>1, <3>2
    <3>4. ~(k < j)
      BY <3>3
    <3> QED BY <1>0, <2>1, <3>1, <3>4
  <2> HIDE DEF U
  <2>4. f \in [1..k -> U]
    BY <2>2
  <2>5. \A i, j \in 1..k : f[i] = f[j] => i = j
    BY <1>2, <2>1
  <2>6. \A x \in U : \E j \in 1..k : f[j] = x
    BY <2>3
  <2> HIDE DEF f
  <2>7. f \in Bijection(1..k, U)
    BY <2>4, <2>5, <2>6, Fun_IsBij
  <2>8. ExistsBijection(1..k, U)
    BY <2>7 DEF ExistsBijection
  <2>9. IsFiniteSet(1..k) /\ Cardinality(1..k) = k
    BY <2>1, FS_Interval
  <2>10. Cardinality(U) = k
    BY <2>8, <2>9, FS_Bijection
  <2> QED BY <2>10 DEF U
<1> HIDE DEF upTo
<1>5. ASSUME NEW k \in 1..N PROVE at(k) = g[k]
  <2>1. g[k] \in S /\ Cardinality(upTo(g[k])) = k
    BY <1>1, <1>4
  <2>2. \A x \in S : Cardinality(upTo(x)) = k => x = g[k]
    <3> SUFFICES ASSUME NEW x \in S, Cardinality(upTo(x)) = k PROVE x = g[k]
      OBVIOUS
    <3>1. PICK j \in 1..N : g[j] = x
      BY <1>0
    <3>2. Cardinality(upTo(g[j])) = j
      BY <1>4
    <3> QED BY <3>1, <3>2
  <2> QED BY <2>1, <2>2
<1>6. InOrder(S) = [k \in 1..Cardinality(S) |-> at(k)]
  BY DEF InOrder, upTo
<1> HIDE DEF at
<1> QED BY <1>0, <1>3, <1>5, <1>6

\* Sequences that agree on what is kept of them.
Agree(s, I, t, J) ==
  \E f \in [I -> J] : /\ \A i, j \in I : i < j => f[i] < f[j]
                      /\ \A y \in J : \E i \in I : f[i] = y
                      /\ \A i \in I : t[f[i]] = s[i]

\* What is kept of two sequences that agree is the same.
LEMMA KeptAgrees ==
  ASSUME NEW s, NEW t, NEW I, NEW J, NEW n, NEW m, Within(I, n), Within(J, m), Agree(s, I, t, J)
  PROVE  Kept(t, J) = Kept(s, I)
<1>0. PICK f \in [I -> J] : /\ \A i, j \in I : i < j => f[i] < f[j]
                            /\ \A y \in J : \E i \in I : f[i] = y
                            /\ \A i \in I : t[f[i]] = s[i]
  BY DEF Agree
<1> DEFINE N == Cardinality(I)
           order == InOrder(I)
           g == [k \in 1..N |-> f[order[k]]]
<1>1. Ascending(order, N, I)
  BY InOrderAscends
<1> HIDE DEF order, N
<1>2. /\ order \in [1..N -> I] /\ N \in Nat
      /\ \A j, k \in 1..N : j < k => order[j] < order[k]
      /\ \A x \in I : \E k \in 1..N : order[k] = x
  BY <1>1 DEF Ascending
<1>3. g \in [1..N -> J]
  BY <1>2
<1>4. \A j, k \in 1..N : j < k => g[j] < g[k]
  BY <1>0, <1>2
<1>5. \A y \in J : \E k \in 1..N : g[k] = y
  BY <1>0, <1>2
<1>6. \A k \in 1..N : g[k] = f[order[k]]
  OBVIOUS
<1> HIDE DEF g
<1>7. InOrder(J) = g
  <2>1. Ascending(g, N, J)
    BY <1>2, <1>3, <1>4, <1>5 DEF Ascending
  <2> QED BY <2>1, InOrderUnique
<1>8. Kept(t, J) = [k \in 1..N |-> t[g[k]]]
  BY <1>3, <1>7 DEF Kept
<1>9. Kept(s, I) = [k \in 1..N |-> s[order[k]]]
  BY <1>2 DEF Kept, order
<1>10. \A k \in 1..N : t[g[k]] = s[order[k]]
  BY <1>0, <1>2, <1>6
<1> QED BY <1>8, <1>9, <1>10

-----------------------------------------------------------------------------
Inserts(new, s, m, a) ==
  /\ Len(new) = Len(s) + 1 /\ new[m] = a
  /\ \A i \in 1..Len(s) : i < m => new[i] = s[i]
  /\ \A i \in 1..Len(s) : ~(i < m) => new[i + 1] = s[i]

\* The library InsertAt: an element more, the others in their order.
LEMMA InsertAtIs ==
  ASSUME NEW S, NEW s \in Seq(S), NEW m \in 1..Len(s), NEW a \in S
  PROVE  InsertAt(s, m, a) \in Seq(S) /\ Inserts(InsertAt(s, m, a), s, m, a)
<1> DEFINE n == Len(s)
           x == SubSeq(s, 1, m - 1)
           y == <<a>>
           z == SubSeq(s, m, n)
<1>1. n \in Nat /\ m \in 1..n
  OBVIOUS
<1>2. x \in Seq(S) /\ Len(x) = m - 1 /\ \A i \in 1..(m - 1) : x[i] = s[i]
  OBVIOUS
<1>3. y \in Seq(S) /\ Len(y) = 1 /\ y[1] = a
  OBVIOUS
<1>4. z \in Seq(S) /\ Len(z) = n - m + 1 /\ \A i \in 1..(n - m + 1) : z[i] = s[m + i - 1]
  OBVIOUS
<1>5. InsertAt(s, m, a) = (x \o y) \o z
  BY DEF InsertAt
<1> HIDE DEF x, y, z, n
<1> DEFINE w == x \o y
<1>6. w \in Seq(S) /\ Len(w) = m /\ (\A i \in 1..(m - 1) : w[i] = x[i]) /\ w[m] = y[1]
  <2>1. w \in Seq(S) /\ Len(w) = Len(x) + Len(y)
    BY <1>2, <1>3, ConcatProperties
  <2>2. \A i \in 1..(Len(x) + Len(y)) : w[i] = IF i <= Len(x) THEN x[i] ELSE y[i - Len(x)]
    BY <1>2, <1>3, ConcatProperties
  <2>3. (m - 1) + 1 = m /\ m \in 1..m /\ ~(m <= m - 1) /\ m - (m - 1) = 1
        /\ \A i \in 1..(m - 1) : i \in 1..m /\ i <= m - 1
    BY <1>1
  <2> HIDE DEF w
  <2>4. Len(x) + Len(y) = m /\ Len(x) = m - 1
    BY <1>2, <1>3, <2>3
  <2>5. \A i \in 1..m : w[i] = IF i <= m - 1 THEN x[i] ELSE y[i - (m - 1)]
    BY <2>2, <2>4
  <2>6. w[m] = y[1]
    BY <2>3, <2>5
  <2>7. \A i \in 1..(m - 1) : w[i] = x[i]
    BY <2>3, <2>5
  <2> QED BY <2>1, <2>4, <2>6, <2>7
<1> HIDE DEF w
<1> DEFINE v == w \o z
<1>7. /\ v \in Seq(S) /\ Len(v) = n + 1 /\ (\A i \in 1..m : v[i] = w[i])
      /\ \A i \in 1..(n - m + 1) : v[m + i] = z[i]
  <2>1. v \in Seq(S) /\ Len(v) = Len(w) + Len(z)
    BY <1>4, <1>6, ConcatProperties
  <2>2. \A i \in 1..(Len(w) + Len(z)) : v[i] = IF i <= Len(w) THEN w[i] ELSE z[i - Len(w)]
    BY <1>4, <1>6, ConcatProperties
  <2>3. m + (n - m + 1) = n + 1 /\ (\A i \in 1..m : i \in 1..(n + 1) /\ i <= m)
        /\ \A i \in 1..(n - m + 1) : m + i \in 1..(n + 1) /\ ~(m + i <= m) /\ (m + i) - m = i
    BY <1>1
  <2> HIDE DEF v
  <2>4. v \in Seq(S) /\ Len(v) = n + 1
    BY <1>1, <1>4, <1>6, <2>1, <2>3
  <2>5. \A i \in 1..(n + 1) : v[i] = IF i <= m THEN w[i] ELSE z[i - m]
    BY <1>4, <1>6, <2>2, <2>3
  <2>6. ASSUME NEW i \in 1..m PROVE v[i] = w[i]
    BY <2>3, <2>5
  <2>7. ASSUME NEW i \in 1..(n - m + 1) PROVE v[m + i] = z[i]
    <3>1. m + i \in 1..(n + 1) /\ ~(m + i <= m) /\ (m + i) - m = i
      BY <2>3
    <3> QED BY <2>5, <3>1
  <2> QED BY <2>4, <2>6, <2>7
<1>8. InsertAt(s, m, a) = v
  BY <1>5 DEF v, w
<1> HIDE DEF v
<1>9. ASSUME NEW i \in 1..n, i < m PROVE v[i] = s[i]
  <2>1. i \in 1..(m - 1) /\ i \in 1..m
    BY <1>1, <1>9
  <2> QED BY <1>2, <1>6, <1>7, <2>1
<1>10. v[m] = a
  <2>1. m \in 1..m
    BY <1>1
  <2> QED BY <1>3, <1>6, <1>7, <2>1
<1>11. ASSUME NEW i \in 1..n, ~(i < m) PROVE v[i + 1] = s[i]
  <2>1. PICK k : k = i - m + 1
    OBVIOUS
  <2>2. k \in 1..(n - m + 1) /\ m + k = i + 1 /\ m + k - 1 = i
    BY <1>1, <1>11, <2>1
  <2>3. v[m + k] = z[k]
    BY <1>7, <2>2
  <2>4. z[k] = s[m + k - 1]
    BY <1>4, <2>2
  <2> QED BY <2>2, <2>3, <2>4
<1> QED BY <1>7, <1>8, <1>9, <1>10, <1>11 DEF n, Inserts

-----------------------------------------------------------------------------
(* XLIFF: what is read of a content, piece by piece *)

\* Lexemes that neither are a tag of an inline content nor stand for a character.
EntityNames == {Entity(name) : name \in DOMAIN Entities}

Clean == Lexemes \ (Tags \cup EntityNames)

\* What is kept of two texts put together is what is kept of each.
LEMMA KeptConcat ==
  ASSUME NEW S, NEW a \in Seq(S), NEW b \in Seq(S), NEW I, NEW J, NEW K,
         Within(I, Len(a)), Within(J, Len(b)),
         \A x : x \in K <=> x \in I \/ (x - Len(a) \in J /\ x \in Len(a) + 1..Len(a) + Len(b))
  PROVE  Kept(a \o b, K) = Kept(a, I) \o Kept(b, J)
<1> DEFINE n == Len(a)
           m == Len(b)
           M == Cardinality(I)
           N == Cardinality(J)
           left == InOrder(I)
           right == InOrder(J)
           g == [k \in 1..M + N |-> IF k <= M THEN left[k] ELSE n + right[k - M]]
           c == a \o b
<1>1. Ascending(left, M, I) /\ Ascending(right, N, J)
  BY InOrderAscends
<1>2. /\ c \in Seq(S) /\ Len(c) = n + m
      /\ \A i \in 1..(n + m) : c[i] = IF i <= n THEN a[i] ELSE b[i - n]
  BY ConcatProperties
<1>3. n \in Nat /\ m \in Nat /\ (\A i \in I : i \in 1..n) /\ \A j \in J : j \in 1..m
  BY DEF Within
<1>4. \A x : x \in K <=> x \in I \/ (x - n \in J /\ x \in n + 1..n + m)
  OBVIOUS
<1>5. /\ a = [i \in 1..n |-> a[i]] /\ \A i \in 1..n : a[i] \in S
      /\ b = [i \in 1..m |-> b[i]] /\ \A i \in 1..m : b[i] \in S
  OBVIOUS
<1> HIDE DEF n, m, M, N, left, right, c
<1>6. /\ M \in Nat /\ left \in [1..M -> I] /\ \A j, k \in 1..M : j < k => left[j] < left[k]
      /\ \A x \in I : \E k \in 1..M : left[k] = x
      /\ N \in Nat /\ right \in [1..N -> J] /\ \A j, k \in 1..N : j < k => right[j] < right[k]
      /\ \A x \in J : \E k \in 1..N : right[k] = x
  BY <1>1 DEF Ascending
<1>7. /\ \A k \in 1..M : left[k] \in I /\ left[k] \in 1..n
      /\ \A k \in 1..N : right[k] \in J /\ right[k] \in 1..m
  BY <1>3, <1>6
<1>8. ASSUME NEW k \in 1..M + N
      PROVE  \/ k \in 1..M /\ k <= M /\ g[k] = left[k] /\ g[k] \in K /\ g[k] \in 1..n
             \/ /\ k - M \in 1..N /\ ~(k <= M) /\ g[k] = n + right[k - M]
                /\ g[k] \in K /\ g[k] \in n + 1..n + m /\ g[k] - n = right[k - M]
  <2>1. CASE k <= M
    <3>1. k \in 1..M /\ g[k] = left[k]
      BY <1>6, <2>1
    <3> QED BY <1>4, <1>7, <2>1, <3>1
  <2>2. CASE ~(k <= M)
    <3>1. k - M \in 1..N /\ g[k] = n + right[k - M]
      BY <1>6, <2>2
    <3>2. PICK y : y = right[k - M]
      OBVIOUS
    <3>3. y \in J /\ y \in 1..m
      BY <1>7, <3>1, <3>2
    <3>4. (n + y) - n = y /\ n + y \in n + 1..n + m
      BY <1>3, <3>3
    <3>5. n + y \in K
      BY <1>4, <3>3, <3>4
    <3> QED BY <2>2, <3>1, <3>2, <3>4, <3>5
  <2> QED BY <2>1, <2>2
<1>9. g \in [1..M + N -> K]
  BY <1>8
<1>10. g = [k \in 1..M + N |-> g[k]] /\ DOMAIN g = 1..M + N
  OBVIOUS
<1> HIDE DEF g
<1>11. ASSUME NEW j \in 1..M + N, NEW k \in 1..M + N, j < k PROVE g[j] < g[k]
  <2>1. CASE k <= M
    <3>1. j <= M /\ j \in 1..M /\ k \in 1..M
      BY <1>6, <1>11, <2>1
    <3>2. g[j] = left[j] /\ g[k] = left[k]
      BY <1>8, <2>1, <3>1
    <3> QED BY <1>6, <1>11, <3>1, <3>2
  <2>2. CASE j <= M /\ ~(k <= M)
    <3>1. g[j] \in 1..n /\ g[k] \in n + 1..n + m
      BY <1>8, <2>2
    <3>2. PICK x, y : x = g[j] /\ y = g[k]
      OBVIOUS
    <3>3. x < y
      BY <1>3, <3>1, <3>2
    <3> QED BY <3>2, <3>3
  <2>3. CASE ~(j <= M)
    <3>1. ~(k <= M) /\ j - M \in 1..N /\ k - M \in 1..N /\ j - M < k - M
      BY <1>6, <1>11, <2>3
    <3>2. g[j] = n + right[j - M] /\ g[k] = n + right[k - M]
      BY <1>8, <2>3, <3>1
    <3>3. PICK x, y : x = right[j - M] /\ y = right[k - M]
      OBVIOUS
    <3>4. x < y /\ x \in 1..m /\ y \in 1..m
      BY <1>6, <1>7, <3>1, <3>3
    <3>5. n + x < n + y
      BY <1>3, <3>4
    <3> QED BY <3>2, <3>3, <3>5
  <2> QED BY <2>1, <2>2, <2>3
<1>12. ASSUME NEW x \in K PROVE \E k \in 1..M + N : g[k] = x
  <2>1. CASE x \in I
    <3>1. PICK k \in 1..M : left[k] = x
      BY <1>6, <2>1
    <3>2. k \in 1..M + N /\ k <= M
      BY <1>6
    <3> QED BY <1>8, <3>1, <3>2
  <2>2. CASE x - n \in J /\ x \in n + 1..n + m
    <3>1. PICK k \in 1..N : right[k] = x - n
      BY <1>6, <2>2
    <3>2. M + k \in 1..M + N /\ ~(M + k <= M) /\ (M + k) - M = k
      BY <1>6
    <3>3. g[M + k] = n + right[k]
      BY <1>8, <3>2
    <3>4. n + (x - n) = x
      BY <1>3, <2>2
    <3> QED BY <3>1, <3>2, <3>3, <3>4
  <2> QED BY <1>4, <2>1, <2>2
<1>13. InOrder(K) = g
  <2>1. Within(K, n + m)
    <3>1. \A x \in K : x \in 1..n + m
      BY <1>3, <1>4
    <3> QED BY <1>3, <3>1 DEF Within
  <2>2. Ascending(g, M + N, K)
    BY <1>6, <1>9, <1>11, <1>12 DEF Ascending
  <2> QED BY <2>1, <2>2, InOrderUnique
<1> DEFINE p == Kept(a, I)
           q == Kept(b, J)
           r == Kept(c, K)
<1>14. /\ p = [k \in 1..M |-> a[left[k]]] /\ q = [k \in 1..N |-> b[right[k]]]
       /\ r = [k \in 1..M + N |-> c[g[k]]]
  BY <1>6, <1>10, <1>13 DEF Kept, left, right
<1> HIDE DEF p, q, r
<1>15. p \in Seq(S) /\ q \in Seq(S) /\ Len(p) = M /\ Len(q) = N
  <2>1. \A k \in 1..M : a[left[k]] \in S
    BY <1>5, <1>7
  <2>2. \A k \in 1..N : b[right[k]] \in S
    BY <1>5, <1>7
  <2>3. p \in [1..M -> S] /\ q \in [1..N -> S]
    BY <1>14, <2>1, <2>2
  <2> QED BY <1>6, <2>3
<1>16. /\ p \o q = [k \in 1..M + N |-> IF k <= M THEN p[k] ELSE q[k - M]]
  <2>1. /\ p \o q \in Seq(S) /\ Len(p \o q) = M + N
        /\ \A i \in 1..(M + N) : (p \o q)[i] = IF i <= M THEN p[i] ELSE q[i - M]
    BY <1>15, ConcatProperties
  <2>2. PICK w : w = p \o q
    OBVIOUS
  <2>3. w = [k \in 1..M + N |-> w[k]]
    <3>1. w \in Seq(S) /\ Len(w) = M + N
      BY <2>1, <2>2
    <3> QED BY <3>1
  <2> QED BY <2>1, <2>2, <2>3
<1>17. ASSUME NEW k \in 1..M + N PROVE c[g[k]] = IF k <= M THEN p[k] ELSE q[k - M]
  <2>1. CASE k \in 1..M /\ k <= M /\ g[k] = left[k] /\ g[k] \in 1..n
    <3>1. g[k] \in 1..n + m /\ g[k] <= n
      BY <1>3, <2>1
    <3>2. c[g[k]] = a[left[k]]
      BY <1>2, <2>1, <3>1
    <3> QED BY <1>14, <2>1, <3>2
  <2>2. CASE /\ k - M \in 1..N /\ ~(k <= M) /\ g[k] \in n + 1..n + m /\ g[k] - n = right[k - M]
    <3>1. g[k] \in 1..n + m /\ ~(g[k] <= n)
      BY <1>3, <2>2
    <3>2. c[g[k]] = b[right[k - M]]
      BY <1>2, <2>2, <3>1
    <3> QED BY <1>14, <2>2, <3>2
  <2> QED BY <1>8, <2>1, <2>2
<1>18. r = p \o q
  BY <1>14, <1>16, <1>17
<1> QED BY <1>18 DEF p, q, r, c

-----------------------------------------------------------------------------
\* Lexemes as a file may hold them.
Held == Lexemes \cup EntityNames

Texted(s) == {i \in DOMAIN s : s[i] \notin Tags}

\* Contents put together read as their texts put together.
LEMMA InlineConcat ==
  ASSUME NEW S, NEW a \in Seq(S), NEW b \in Seq(S)
  PROVE  InlineText(a \o b) = InlineText(a) \o InlineText(b)
<1> DEFINE n == Len(a)
           m == Len(b)
           c == a \o b
           p == Kept(a, Texted(a))
           q == Kept(b, Texted(b))
           found(y) == \E name \in DOMAIN Entities : Entity(name) = y
           plain(y) == IF found(y) THEN Entities[CHOOSE name \in DOMAIN Entities : Entity(name) = y] ELSE y
<1>1. /\ n \in Nat /\ m \in Nat /\ DOMAIN a = 1..n /\ DOMAIN b = 1..m
      /\ c \in Seq(S) /\ Len(c) = n + m
      /\ \A i \in 1..(n + m) : c[i] = IF i <= n THEN a[i] ELSE b[i - n]
  BY ConcatProperties
<1>2. InlineText(a) = Decoded(p) /\ InlineText(b) = Decoded(q) /\ InlineText(c) = Decoded(Kept(c, Texted(c)))
  BY DEF InlineText, Texted
<1> HIDE DEF c
<1>3. \A x : x \in Texted(c) <=> x \in Texted(a) \/ (x - n \in Texted(b) /\ x \in n + 1..n + m)
  <2>1. DOMAIN c = 1..n + m
    BY <1>1
  <2> SUFFICES ASSUME NEW x
               PROVE x \in Texted(c) <=> x \in Texted(a) \/ (x - n \in Texted(b) /\ x \in n + 1..n + m)
    OBVIOUS
  <2> HIDE DEF n, m
  <2>2. CASE x \in 1..n
    <3>1. x \in 1..n + m /\ x <= n /\ x \notin n + 1..n + m
      BY <1>1, <2>2
    <3>2. c[x] = a[x]
      BY <1>1, <3>1
    <3> QED BY <1>1, <2>1, <2>2, <3>1, <3>2 DEF Texted
  <2>3. CASE x \in n + 1..n + m
    <3>1. x \in 1..n + m /\ ~(x <= n) /\ x \notin 1..n /\ x - n \in 1..m
      BY <1>1, <2>3
    <3>2. c[x] = b[x - n]
      BY <1>1, <3>1
    <3> QED BY <1>1, <2>1, <2>3, <3>1, <3>2 DEF Texted
  <2>4. CASE x \notin 1..n /\ x \notin n + 1..n + m
    <3>1. x \notin 1..n + m
      BY <1>1, <2>4
    <3> QED BY <1>1, <2>1, <2>4, <3>1 DEF Texted
  <2> QED BY <2>2, <2>3, <2>4
<1>4. Within(Texted(a), n) /\ Within(Texted(b), m)
  BY <1>1 DEF Within, Texted
<1>5. Texted(a) \in SUBSET (DOMAIN a) /\ Texted(b) \in SUBSET (DOMAIN b)
  BY DEF Texted
<1>6. p \in Seq(S) /\ q \in Seq(S)
  BY <1>5, KeptType
<1>7. Kept(c, Texted(c)) = p \o q
  BY <1>3, <1>4, KeptConcat DEF c
<1> HIDE DEF p, q, n, m
<1>8. Decoded(p \o q) = Decoded(p) \o Decoded(q)
  <2> DEFINE M == Len(p)
             N == Len(q)
             r == p \o q
             u == Decoded(p)
             v == Decoded(q)
  <2>1. /\ r \in Seq(S) /\ Len(r) = M + N
        /\ \A i \in 1..(M + N) : r[i] = IF i <= M THEN p[i] ELSE q[i - M]
    BY <1>6, ConcatProperties
  <2>2. M \in Nat /\ N \in Nat /\ DOMAIN p = 1..M /\ DOMAIN q = 1..N
    BY <1>6
  <2> HIDE DEF r
  <2>3. DOMAIN r = 1..M + N
    BY <2>1
  <2>4. Decoded(r) = [i \in 1..M + N |-> plain(r[i])] /\ u = [i \in 1..M |-> plain(p[i])]
        /\ v = [i \in 1..N |-> plain(q[i])]
    BY <2>2, <2>3 DEF Decoded
  <2> DEFINE U == {plain(x) : x \in S}
  <2>5. u \in Seq(U) /\ v \in Seq(U) /\ Len(u) = M /\ Len(v) = N
    <3>1. (\A i \in 1..M : p[i] \in S) /\ \A i \in 1..N : q[i] \in S
      BY <1>6, <2>2
    <3>2. (\A i \in 1..M : plain(p[i]) \in U) /\ \A i \in 1..N : plain(q[i]) \in U
      BY <3>1
    <3> HIDE DEF plain, U, u, v, M, N
    <3>3. u \in [1..M -> U] /\ v \in [1..N -> U]
      BY <2>4, <3>2
    <3> QED BY <2>2, <3>3
  <2> HIDE DEF plain, u, v, M, N, U
  <2>7. PICK w : w = u \o v
    OBVIOUS
  <2>8. w \in Seq(U) /\ Len(w) = M + N /\ \A i \in 1..(M + N) : w[i] = IF i <= M THEN u[i] ELSE v[i - M]
    BY <2>5, <2>7, ConcatProperties
  <2>9. w = [i \in 1..M + N |-> w[i]]
    BY <2>8
  <2>10. ASSUME NEW i \in 1..M + N PROVE w[i] = plain(r[i])
    <3>1. CASE i <= M
      <4>1. i \in 1..M
        BY <2>2, <3>1
      <4> QED BY <2>1, <2>4, <2>8, <3>1, <4>1
    <3>2. CASE ~(i <= M)
      <4>1. i - M \in 1..N
        BY <2>2, <3>2
      <4> QED BY <2>1, <2>4, <2>8, <3>2, <4>1
    <3> QED BY <3>1, <3>2
  <2>11. Decoded(r) = w
    BY <2>4, <2>9, <2>10
  <2> QED BY <2>7, <2>11 DEF r, u, v
<1> QED BY <1>2, <1>7, <1>8 DEF c

\* A tag reads as nothing.
LEMMA InlineTag ==
  ASSUME NEW x \in Tags
  PROVE  InlineText(<<x>>) = <<>> /\ InlineText(<<>>) = <<>>
<1>1. ASSUME NEW s, \A i \in DOMAIN s : s[i] \in Tags PROVE InlineText(s) = <<>>
  <2>1. {i \in DOMAIN s : s[i] \notin Tags} = {}
    BY <1>1
  <2>2. Ascending(<<>>, 0, {}) /\ Within({}, 0)
    BY DEF Ascending, Within
  <2>3. InOrder({}) = <<>>
    BY <2>2, InOrderUnique
  <2>4. Kept(s, {}) = <<>>
    BY <2>3 DEF Kept
  <2>5. Decoded(<<>>) = <<>>
    BY DEF Decoded
  <2> QED BY <2>1, <2>4, <2>5 DEF InlineText
<1>2. \A i \in DOMAIN <<x>> : <<x>>[i] \in Tags
  OBVIOUS
<1>3. \A i \in DOMAIN <<>> : <<>>[i] \in Tags
  OBVIOUS
<1> QED BY <1>1, <1>2, <1>3

\* A text written with its characters named reads as the text.
LEMMA EscapedReads ==
  ASSUME NEW t \in Seq(Clean)
  PROVE  Escaped(Escapes, t) \in Seq(Held) /\ InlineText(Escaped(Escapes, t)) = t
<1> DEFINE n == Len(t)
           s == Escaped(Escapes, t)
           named(y) == \E name \in Escapes : Entities[name] = y
           code(y) == IF named(y) THEN Entity(CHOOSE name \in Escapes : Entities[name] = y) ELSE y
           found(y) == \E name \in DOMAIN Entities : Entity(name) = y
           plain(y) == IF found(y) THEN Entities[CHOOSE name \in DOMAIN Entities : Entity(name) = y] ELSE y
<1>1. n \in Nat /\ DOMAIN t = 1..n /\ t = [i \in 1..n |-> t[i]] /\ \A i \in 1..n : t[i] \in Clean
  OBVIOUS
<1>2. s = [i \in 1..n |-> code(t[i])]
  BY <1>1 DEF Escaped
<1>3. Escapes = {"amp", "lt", "gt", "quot"} /\ DOMAIN Entities = {"amp", "lt", "gt", "quot"}
  BY DEF Escapes, Entities
<1>4. /\ Entity("amp") = "&amp;" /\ Entity("lt") = "&lt;" /\ Entity("gt") = "&gt;" /\ Entity("quot") = "&quot;"
  BY DEF Entity
<1>5. EntityNames = {"&amp;", "&lt;", "&gt;", "&quot;"}
  BY <1>3, <1>4 DEF EntityNames
<1>6. ASSUME NEW y \in Clean PROVE code(y) \in Held /\ code(y) \notin Tags /\ plain(code(y)) = y
  <2>1. y \in Lexemes /\ y \notin Tags /\ y \notin EntityNames
    BY DEF Clean
  <2>2. CASE named(y)
    <3> DEFINE name == CHOOSE x \in Escapes : Entities[x] = y
    <3>1. name \in Escapes /\ Entities[name] = y /\ code(y) = Entity(name)
      BY <2>2
    <3> HIDE DEF name
    <3>2. Entity(name) \in EntityNames /\ name \in DOMAIN Entities
      BY <1>3, <3>1 DEF EntityNames
    <3>3. Entity(name) \in Held /\ Entity(name) \notin Tags
      BY <1>5, <3>2 DEF Tags, Held
    <3>4. \A x \in DOMAIN Entities : Entity(x) = Entity(name) => x = name
      BY <1>3, <1>4, <3>2
    <3>5. (CHOOSE x \in DOMAIN Entities : Entity(x) = Entity(name)) = name
      BY <3>2, <3>4
    <3>6. plain(Entity(name)) = Entities[name]
      BY <3>2, <3>5
    <3> QED BY <3>1, <3>3, <3>6
  <2>3. CASE ~named(y)
    <3>1. code(y) = y
      BY <2>3
    <3>2. ~found(y)
      BY <2>1 DEF EntityNames
    <3> QED BY <2>1, <3>1, <3>2 DEF Held
  <2> QED BY <2>2, <2>3
<1>7. \A i \in 1..n : code(t[i]) \in Held /\ code(t[i]) \notin Tags /\ plain(code(t[i])) = t[i]
  BY <1>1, <1>6
<1>8. \A w : Decoded(w) = [i \in DOMAIN w |-> plain(w[i])]
  BY DEF Decoded
<1> HIDE DEF code, plain, s, n
<1>9. s \in Seq(Held) /\ DOMAIN s = 1..n
  BY <1>1, <1>2, <1>7
<1>10. {i \in DOMAIN s : s[i] \notin Tags} = 1..n
  BY <1>2, <1>7, <1>9
<1>11. InOrder(1..n) = [k \in 1..n |-> k]
  <2> DEFINE g == [k \in 1..n |-> k]
  <2>1. Within(1..n, n)
    BY <1>1 DEF Within
  <2>2. Ascending(g, n, 1..n)
    BY <1>1 DEF Ascending
  <2> HIDE DEF g
  <2>3. InOrder(1..n) = g
    BY <2>1, <2>2, InOrderUnique
  <2> QED BY <2>3 DEF g
<1>12. Kept(s, 1..n) = [k \in 1..n |-> s[k]]
  BY <1>11 DEF Kept
<1>13. [k \in 1..n |-> s[k]] = s
  BY <1>2
<1>14. InlineText(s) = Decoded(s)
  BY <1>10, <1>12, <1>13 DEF InlineText
<1>15. Decoded(s) = [i \in 1..n |-> plain(s[i])]
  BY <1>8, <1>9
<1>16. Decoded(s) = t
  BY <1>1, <1>2, <1>7, <1>15
<1> QED BY <1>9, <1>14, <1>16 DEF s

-----------------------------------------------------------------------------
(* How much of a translation each slot takes *)

\* The sums of the lengths of the first ranges.
Sums(sum, s, N) ==
  /\ N \in Nat /\ sum[0] = 0 /\ \A i \in 0..N : sum[i] \in Nat
  /\ \A i \in 1..N : LengthOf(s[i]) \in Nat /\ sum[i] = sum[i - 1] + LengthOf(s[i])

\* There are such sums.
LEMMA SumsExist ==
  ASSUME NEW N \in Nat, NEW s, \A i \in 1..N : LengthOf(s[i]) \in Nat
  PROVE  \E sum : Sums(sum, s, N)
<1> DEFINE Op == [i \in 1..N |-> [x \in Nat |-> x + LengthOf(s[i])]]
<1>1. Op \in [1..N -> [Nat -> Nat]]
  <2>1. \A i \in 1..N : \A x \in Nat : x + LengthOf(s[i]) \in Nat
    OBVIOUS
  <2> QED BY <2>1
<1>2. \A i \in 1..N : \A x \in Nat : Op[i][x] = x + LengthOf(s[i])
  OBVIOUS
<1> HIDE DEF Op
<1>3. PICK F \in [SUBSET (1..N) -> Nat] : FoldsTo(N, 0, Op, F)
  BY <1>1, FoldExists
<1> DEFINE sum == [i \in 0..N |-> F[1..i]]
<1>4. sum[0] = 0
  <2>1. 1..0 = {} /\ {} \in SUBSET (1..N) /\ 0 \in 0..N
    OBVIOUS
  <2>2. F[{}] = 0
    BY <1>3, <2>1 DEF FoldsTo
  <2>3. sum[0] = F[1..0]
    BY <2>1
  <2> QED BY <2>1, <2>2, <2>3
<1>5. ASSUME NEW i \in 0..N PROVE sum[i] \in Nat
  <2>1. (1..i) \in SUBSET (1..N)
    OBVIOUS
  <2>2. F[1..i] \in Nat
    BY <2>1
  <2> QED BY <2>2
<1>6. ASSUME NEW i \in 1..N PROVE sum[i] = sum[i - 1] + LengthOf(s[i])
  <2>1. (1..i) \in SUBSET (1..N) /\ 1..i # {} /\ (1..i) \ {i} = 1..(i - 1) /\ Max(1..i) = i
    BY Prefix
  <2>2. (1..(i - 1)) \in SUBSET (1..N) /\ i \in 0..N /\ i - 1 \in 0..N
    OBVIOUS
  <2>3. F[1..i] = Op[Max(1..i)][F[(1..i) \ {Max(1..i)}]]
    BY <1>3, <2>1 DEF FoldsTo
  <2>4. F[1..i] = Op[i][F[1..(i - 1)]] /\ F[1..(i - 1)] \in Nat
    BY <2>1, <2>2, <2>3
  <2>5. F[1..i] = F[1..(i - 1)] + LengthOf(s[i])
    BY <1>2, <2>4
  <2> QED BY <2>2, <2>5
<1> HIDE DEF sum
<1>7. Sums(sum, s, N)
  BY <1>4, <1>5, <1>6 DEF Sums
<1> QED BY <1>7

\* Any such sums end in what the ranges come to.
LEMMA FoldIsSum ==
  ASSUME NEW s, NEW N, NEW sum, Sums(sum, s, N), DOMAIN s = 1..N
  PROVE  FoldLeft(LAMBDA n, r : n + LengthOf(r), 0, s) = sum[N]
<1> DEFINE Defines(g) == g = [d \in SUBSET (DOMAIN s) |->
                                IF d = {} THEN 0 ELSE g[d \ {Max(d)}] + LengthOf(s[Max(d)])]
           F == CHOOSE g : Defines(g)
<1>0. FoldLeft(LAMBDA n, r : n + LengthOf(r), 0, s) = F[DOMAIN s]
  BY DEF FoldLeft, MapThenFoldSet
<1>1. /\ N \in Nat /\ sum[0] = 0 /\ \A i \in 0..N : sum[i] \in Nat
      /\ \A i \in 1..N : LengthOf(s[i]) \in Nat /\ sum[i] = sum[i - 1] + LengthOf(s[i])
  BY DEF Sums
<1>2. \E g : Defines(g)
  <2> DEFINE Op == [i \in 1..N |-> [x \in Nat |-> x + LengthOf(s[i])]]
  <2>1. Op \in [1..N -> [Nat -> Nat]]
    <3>1. \A i \in 1..N : \A x \in Nat : x + LengthOf(s[i]) \in Nat
      BY <1>1
    <3> QED BY <3>1
  <2>2. \A i \in 1..N : \A x \in Nat : Op[i][x] = x + LengthOf(s[i])
    OBVIOUS
  <2> HIDE DEF Op
  <2>3. PICK g \in [SUBSET (1..N) -> Nat] : FoldsTo(N, 0, Op, g)
    BY <1>1, <2>1, FoldExists
  <2>4. ASSUME NEW d \in SUBSET (1..N)
        PROVE  g[d] = IF d = {} THEN 0 ELSE g[d \ {Max(d)}] + LengthOf(s[Max(d)])
    <3>1. CASE d = {}
      BY <2>3, <3>1 DEF FoldsTo
    <3>2. CASE d # {}
      <4>1. Max(d) \in 1..N
        BY <1>1, <3>2, MaxIn
      <4>2. d \ {Max(d)} \in SUBSET (1..N)
        OBVIOUS
      <4>3. g[d \ {Max(d)}] \in Nat
        BY <4>2
      <4>4. g[d] = Op[Max(d)][g[d \ {Max(d)}]]
        BY <2>3, <3>2 DEF FoldsTo
      <4> QED BY <2>2, <3>2, <4>1, <4>3, <4>4
    <3> QED BY <3>1, <3>2
  <2>5. Defines(g)
    BY <2>4
  <2> QED BY <2>5
<1>3. Defines(F)
  <2> HIDE DEF Defines
  <2> QED BY <1>2
<1> HIDE DEF F
<1> DEFINE T == {i \in 0..N : F[1..i] = sum[i]}
<1>4. 0 \in T
  <2>1. 1..0 = {} /\ (1..0) \in SUBSET (1..N) /\ 0 \in 0..N
    BY <1>1
  <2>2. F[{}] = 0
    BY <1>3, <2>1
  <2> QED BY <1>1, <2>1, <2>2
<1>5. ASSUME NEW i \in 0..N, i \in T, i < N PROVE i + 1 \in T
  <2>1. i + 1 \in 1..N /\ i + 1 \in 0..N /\ (i + 1) - 1 = i
    BY <1>1, <1>5
  <2> DEFINE j == i + 1
  <2>2. (1..j) \in SUBSET (1..N) /\ 1..j # {} /\ (1..j) \ {j} = 1..(j - 1) /\ Max(1..j) = j
    BY <1>1, <2>1, Prefix
  <2>3. F[1..j] = F[(1..j) \ {Max(1..j)}] + LengthOf(s[Max(1..j)])
    BY <1>3, <2>2
  <2>4. F[1..j] = F[1..i] + LengthOf(s[j])
    BY <2>1, <2>2, <2>3
  <2>5. F[1..i] = sum[i]
    BY <1>5
  <2>6. sum[j] = sum[i] + LengthOf(s[j])
    BY <1>1, <2>1
  <2> QED BY <2>1, <2>4, <2>5, <2>6
<1>6. N \in T
  <2> HIDE DEF T, Defines
  <2>1. N \in 0..N /\ \A i \in 0..N : i \in T /\ i < N => i + 1 \in T
    BY <1>1, <1>5
  <2> QED BY <1>1, <1>4, <2>1, Ascent
<1> QED BY <1>0, <1>6

\* Of len lexemes, no more are due at a of total than at b of total, and all of them at the end.
LEMMA SharesGrow ==
  ASSUME NEW t \in Nat \ {0}, NEW len \in Nat, NEW a \in 0..t, NEW b \in 0..t, a <= b
  PROVE  /\ (a * len + (t \div 2)) \div t \in 0..len
         /\ (a * len + (t \div 2)) \div t <= (b * len + (t \div 2)) \div t
<1>1. PICK h : h = t \div 2
  OBVIOUS
<1>2. h \in 0..t - 1
  BY <1>1
<1>3. ASSUME NEW c \in Nat, NEW d \in Nat, c <= d PROVE (c * len + h) \div t <= (d * len + h) \div t
  <2>1. PICK x, y : x = c * len /\ y = d * len
    OBVIOUS
  <2>2. x \in Nat /\ y \in Nat /\ x <= y
    BY <1>3, <2>1
  <2>3. x + h \in Nat /\ y + h \in Nat /\ x + h <= y + h
    BY <1>2, <2>2
  <2>4. PICK p, q : p = x + h /\ q = y + h
    OBVIOUS
  <2>5. p \div t <= q \div t
    BY <2>3, <2>4
  <2> QED BY <2>1, <2>4, <2>5
<1>4. (t * len + h) \div t = len
  BY <1>2
<1>5. (a * len + h) \div t \in Nat
  <2>1. PICK x : x = a * len + h
    OBVIOUS
  <2>2. x \in Nat
    BY <1>2, <2>1
  <2>3. x \div t \in Nat
    BY <2>2
  <2> QED BY <2>1, <2>3
<1>6. (a * len + h) \div t <= len
  <2>1. (a * len + h) \div t <= (t * len + h) \div t
    BY <1>3
  <2> QED BY <1>4, <2>1
<1>7. (a * len + h) \div t \in 0..len
  BY <1>5, <1>6
<1>8. (a * len + h) \div t <= (b * len + h) \div t
  BY <1>3
<1> QED BY <1>1, <1>7, <1>8

\* The slots are the runs of text, and their shares end in order, inside the translation.
LEMMA SlotEnds ==
  ASSUME NEW content \in Seq(STRING), NEW len \in Nat
  PROVE  /\ AreRuns(Texted(content), Slots(content)) /\ Len(Slots(content)) \in Nat
         /\ \A k \in 1..Len(Slots(content)) : SlotEnd(content, k, len) \in 0..len
         /\ \A j, k \in 1..Len(Slots(content)) : j <= k => SlotEnd(content, j, len) <= SlotEnd(content, k, len)
<1> DEFINE n == Len(content)
           P == Texted(content)
           slots == Slots(content)
           m == Len(slots)
<1>1. n \in Nat /\ DOMAIN content = 1..n
  OBVIOUS
<1>2. P \in SUBSET (1..n)
  BY <1>1 DEF Texted
<1>3. slots = ByStart(RunsOf(P))
  BY DEF Slots, Texted
<1> HIDE DEF n, P, slots
<1>4. AreRuns(P, slots)
  BY <1>1, <1>2, <1>3, RunsSorted
<1> DEFINE R == [from : P, to : P]
<1>5. slots \in Seq(R) /\ \A k \in 1..m : slots[k].from <= slots[k].to
  BY <1>4 DEF AreRuns
<1>6. \A r \in R : r.from \in P /\ r.to \in P
  OBVIOUS
<1> HIDE DEF R
<1>7. m \in Nat /\ DOMAIN slots = 1..m /\ \A k \in 1..m : slots[k] \in R
  BY <1>5
<1> HIDE DEF m
<1>8. \A k \in 1..m : LengthOf(slots[k]) \in Nat
  <2> SUFFICES ASSUME NEW k \in 1..m PROVE LengthOf(slots[k]) \in Nat
    OBVIOUS
  <2>1. PICK x, y : x = slots[k].from /\ y = slots[k].to
    OBVIOUS
  <2>4. x \in P /\ y \in P /\ x <= y
    BY <1>5, <1>6, <1>7, <2>1
  <2>5. x \in 1..n /\ y \in 1..n
    BY <1>2, <2>4
  <2>2. x \in Nat /\ y \in Nat /\ x <= y
    BY <1>1, <2>4, <2>5
  <2>3. y - x + 1 \in Nat
    BY <2>2
  <2> QED BY <2>1, <2>3 DEF LengthOf
<1>9. PICK sum : Sums(sum, slots, m)
  BY <1>7, <1>8, SumsExist
<1>10. /\ sum[0] = 0 /\ \A i \in 0..m : sum[i] \in Nat
       /\ \A i \in 1..m : LengthOf(slots[i]) \in Nat /\ sum[i] = sum[i - 1] + LengthOf(slots[i])
  BY <1>9 DEF Sums
<1>11. ASSUME NEW k \in 0..m PROVE TextBefore(content, k + 1) = sum[k]
  <2> DEFINE s == SubSeq(slots, 1, k)
  <2>1. (k + 1) - 1 = k /\ k \in Nat /\ (\A i \in 1..k : i \in 1..m) /\ \A i \in 0..k : i \in 0..m
    BY <1>7
  <2>2. DOMAIN s = 1..k /\ \A i \in 1..k : s[i] = slots[i]
    OBVIOUS
  <2> HIDE DEF s
  <2>3. Sums(sum, s, k)
    BY <1>10, <2>1, <2>2 DEF Sums
  <2>4. FoldLeft(LAMBDA x, r : x + LengthOf(r), 0, s) = sum[k]
    BY <2>2, <2>3, FoldIsSum
  <2>5. TextBefore(content, k + 1) = FoldLeft(LAMBDA x, r : x + LengthOf(r), 0, SubSeq(Slots(content), 1, (k + 1) - 1))
    BY DEF TextBefore
  <2> QED BY <2>1, <2>4, <2>5 DEF s, slots
<1>12. \A i \in 0..m : \A j \in 0..i : sum[j] <= sum[i]
  <2> DEFINE T == {i \in 0..m : \A j \in 0..i : sum[j] <= sum[i]}
  <2>1. 0 \in T
    <3>1. 0 \in 0..m /\ 0..0 = {0} /\ sum[0] <= sum[0]
      BY <1>7, <1>10
    <3> QED BY <3>1
  <2>2. ASSUME NEW i \in 0..m, i \in T, i < m PROVE i + 1 \in T
    <3>1. i + 1 \in 1..m /\ i + 1 \in 0..m /\ (i + 1) - 1 = i /\ i \in Nat /\ \A j \in 0..i : sum[j] <= sum[i]
      BY <1>7, <2>2
    <3>2. PICK x, y, z : x = sum[i] /\ y = sum[i + 1] /\ z = LengthOf(slots[i + 1])
      OBVIOUS
    <3>3. x \in Nat /\ y \in Nat /\ z \in Nat /\ y = x + z
      BY <1>10, <3>1, <3>2
    <3> SUFFICES ASSUME NEW j \in 0..i + 1 PROVE sum[j] <= y
      BY <3>1, <3>2
    <3>4. CASE j = i + 1
      <4>1. sum[j] = y
        BY <3>2, <3>4
      <4> QED BY <3>3, <4>1
    <3>5. CASE j # i + 1
      <4>1. j \in 0..i /\ j \in 0..m
        BY <1>7, <3>1, <3>5
      <4>2. sum[j] <= x /\ sum[j] \in Nat
        BY <1>10, <3>1, <3>2, <4>1
      <4> QED BY <3>3, <4>2
    <3> QED BY <3>4, <3>5
  <2>3. \A i \in 0..m : i \in T
    <3> HIDE DEF T
    <3>1. \A i \in 0..m : i \in T /\ i < m => i + 1 \in T
      BY <2>2
    <3> QED BY <1>7, <2>1, <3>1, Ascent
  <2> QED BY <2>3
<1>13. PICK t : t = sum[m]
  OBVIOUS
<1>14. t \in Nat /\ TextBefore(content, m + 1) = t /\ \A k \in 0..m : sum[k] \in 0..t
  <2>1. m \in 0..m
    BY <1>7
  <2>2. t \in Nat /\ TextBefore(content, m + 1) = t
    BY <1>10, <1>11, <1>13, <2>1
  <2>3. ASSUME NEW k \in 0..m PROVE sum[k] \in 0..t
    <3>1. k \in 0..m /\ sum[k] <= t /\ sum[k] \in Nat
      BY <1>10, <1>12, <1>13, <2>1, <1>7
    <3> QED BY <2>2, <3>1
  <2> QED BY <2>2, <2>3
<1>15. ASSUME NEW k \in 1..m
       PROVE  SlotEnd(content, k, len) = IF t = 0 THEN len ELSE (sum[k] * len + (t \div 2)) \div t
  <2>1. k \in 0..m
    OBVIOUS
  <2>2. TextBefore(content, k + 1) = sum[k]
    BY <1>11, <2>1
  <2> QED BY <1>14, <2>2 DEF SlotEnd, m, slots
<1>16. ASSUME NEW j \in 1..m, NEW k \in 1..m, j <= k
       PROVE  SlotEnd(content, j, len) \in 0..len /\ SlotEnd(content, j, len) <= SlotEnd(content, k, len)
  <2>1. CASE t = 0
    BY <1>15, <2>1
  <2>2. CASE t # 0
    <3>1. j \in 0..m /\ k \in 0..m /\ j \in 0..k
      BY <1>16
    <3>2. PICK a, b : a = sum[j] /\ b = sum[k]
      OBVIOUS
    <3>3. a \in 0..t /\ b \in 0..t /\ a <= b
      BY <1>12, <1>14, <3>1, <3>2
    <3>4. t \in Nat \ {0}
      BY <1>14, <2>2
    <3>5. /\ (a * len + (t \div 2)) \div t \in 0..len
          /\ (a * len + (t \div 2)) \div t <= (b * len + (t \div 2)) \div t
      BY <3>3, <3>4, SharesGrow
    <3> QED BY <1>15, <2>2, <3>2, <3>5
  <2> QED BY <2>1, <2>2
<1>17. \A k \in 1..m : SlotEnd(content, k, len) \in 0..len
  <2> SUFFICES ASSUME NEW k \in 1..m PROVE SlotEnd(content, k, len) \in 0..len
    OBVIOUS
  <2>1. k <= k
    BY <1>7
  <2> QED BY <1>16, <2>1
<1> QED BY <1>4, <1>7, <1>16, <1>17 DEF P, slots, m

-----------------------------------------------------------------------------
\* The slots that start at the first i places are the first k.
Through(slots, m, i, k) ==
  /\ k \in 0..m
  /\ \A j \in 1..m : slots[j].from <= i <=> j <= k

(***************************************************************************)
(* Whatever the tags of a unit and wherever they stand, a translation laid *)
(* over its slots in proportion is read back whole: each slot is shown its *)
(* share, the shares follow on each other, and what rounding leaves over   *)
(* comes after the last of them.                                           *)
(***************************************************************************)
THEOREM RenderedReads ==
  ASSUME NEW content \in Seq(STRING), NEW target \in Seq(Clean)
  PROVE  InlineText(Rendered(content, target)) = target
<1> DEFINE n == Len(content)
           len == Len(target)
           P == Texted(content)
           slots == Slots(content)
           m == Len(slots)
           upTo(k) == IF k = 0 THEN 0 ELSE SlotEnd(content, k, len)
           share(k) == SubSeq(target, upTo(k - 1) + 1, upTo(k))
           at(i) == IF content[i] \in Tags THEN <<content[i]>>
                    ELSE IF \E k \in DOMAIN slots : slots[k].from = i
                         THEN Escaped(Escapes, share(CHOOSE k \in DOMAIN slots : slots[k].from = i))
                    ELSE <<>>
           seqs == [i \in DOMAIN content |-> at(i)]
           rest == SubSeq(target, upTo(m) + 1, len)
           out == Rendered(content, target)
<1>0. CASE InlineText(content) = target
  BY <1>0 DEF Rendered
<1>1. CASE InlineText(content) # target
  <2>1. out = FlattenSeq(seqs) \o Escaped(Escapes, rest)
    BY <1>1 DEF Rendered
  <2>2. n \in Nat /\ DOMAIN content = 1..n /\ \A i \in 1..n : content[i] \in Held
    <3>1. content \in Seq(Lexemes)
      BY AsLexemes
    <3> QED BY <3>1 DEF Held
  <2>3. len \in Nat
    OBVIOUS
  <2>4. AreRuns(P, slots) /\ m \in Nat
    BY SlotEnds, <2>3
  <2>5. upTo(0) = 0 /\ \A k \in 1..m : upTo(k) = SlotEnd(content, k, len)
    BY <2>4
  <2>6. \A k \in 1..m : SlotEnd(content, k, len) \in 0..len
    BY SlotEnds, <2>3
  <2>7. \A j, k \in 1..m : j <= k => SlotEnd(content, j, len) <= SlotEnd(content, k, len)
    BY SlotEnds, <2>3
  <2> DEFINE R == [from : P, to : P]
  <2>8. slots \in Seq(R) /\ (\A k \in 1..m : slots[k].from <= slots[k].to)
        /\ \A j, k \in 1..m : j < k => slots[j].to < slots[k].from
    BY <2>4 DEF AreRuns
  <2>9. \A r \in R : r.from \in P /\ r.to \in P
    OBVIOUS
  <2>10. \A i : i \in P <=> i \in 1..n /\ content[i] \notin Tags
    BY <2>2 DEF Texted
  <2> HIDE DEF R, P, n, len, slots
  <2>11. DOMAIN slots = 1..m /\ \A k \in 1..m : slots[k].from \in 1..n /\ slots[k].to \in 1..n
                                                /\ content[slots[k].from] \notin Tags
    <3>1. DOMAIN slots = 1..m /\ \A k \in 1..m : slots[k] \in R
      BY <2>8
    <3> QED BY <2>9, <2>10, <3>1
  <2> HIDE DEF m, upTo
  <2>12. \A k \in 0..m : upTo(k) \in 0..len
    BY <2>3, <2>4, <2>5, <2>6
  <2>13. ASSUME NEW k \in 1..m PROVE upTo(k - 1) <= upTo(k)
    <3>1. CASE k = 1
      <4>1. upTo(k) \in 0..len /\ upTo(k - 1) = 0
        BY <2>4, <2>5, <2>12, <3>1
      <4> QED BY <2>3, <4>1
    <3>2. CASE k # 1
      <4>1. k - 1 \in 1..m /\ k - 1 <= k
        BY <2>4, <3>2
      <4> QED BY <2>5, <2>7, <4>1
    <3> QED BY <3>1, <3>2
  <2>14. ASSUME NEW j \in 1..m, NEW k \in 1..m, j < k PROVE slots[j].from < slots[k].from
    <3>1. PICK x, y, z : x = slots[j].from /\ y = slots[j].to /\ z = slots[k].from
      OBVIOUS
    <3>2. x \in Nat /\ y \in Nat /\ z \in Nat /\ x <= y /\ y < z
      BY <2>2, <2>8, <2>11, <2>14, <3>1
    <3>3. x < z
      BY <3>2
    <3> QED BY <3>1, <3>3
  <2>15. ASSUME NEW j \in 1..m, NEW k \in 1..m, slots[j].from = slots[k].from PROVE j = k
    <3>1. PICK x : x = slots[j].from
      OBVIOUS
    <3>2. x \in Nat /\ slots[k].from = x
      BY <2>2, <2>11, <2>15, <3>1
    <3>3. ~(j < k) /\ ~(k < j)
      BY <2>14, <3>1, <3>2
    <3> QED BY <2>4, <3>3
  <2>16. \A k \in 1..m : share(k) \in Seq(Clean)
    <3> SUFFICES ASSUME NEW k \in 1..m PROVE share(k) \in Seq(Clean)
      OBVIOUS
    <3>1. k \in 0..m /\ k - 1 \in 0..m
      BY <2>4
    <3>2. PICK a, b : a = upTo(k - 1) + 1 /\ b = upTo(k)
      OBVIOUS
    <3>3. a \in 1..len + 1 /\ b \in 0..len
      <4>1. upTo(k - 1) \in 0..len /\ upTo(k) \in 0..len
        BY <2>12, <3>1
      <4> QED BY <2>3, <3>2, <4>1
    <3>4. SubSeq(target, a, b) \in Seq(Clean)
      BY <2>3, <3>3 DEF len
    <3> QED BY <3>2, <3>4
  <2>17. ASSUME NEW i \in 1..n
         PROVE  /\ at(i) \in Seq(Held)
                /\ \A k \in 1..m : slots[k].from = i => InlineText(at(i)) = share(k)
                /\ (\A k \in 1..m : slots[k].from # i) => InlineText(at(i)) = <<>>
    <3> HIDE DEF share
    <3>1. CASE content[i] \in Tags
      <4>1. at(i) = <<content[i]>> /\ \A k \in 1..m : slots[k].from # i
        BY <2>11, <3>1
      <4>2. <<content[i]>> \in Seq(Held)
        BY <2>2
      <4>3. InlineText(<<content[i]>>) = <<>>
        BY <3>1, InlineTag
      <4> QED BY <4>1, <4>2, <4>3
    <3>2. CASE content[i] \notin Tags /\ \E k \in 1..m : slots[k].from = i
      <4>1. PICK k \in 1..m : slots[k].from = i
        BY <3>2
      <4>2. \A j \in 1..m : slots[j].from = i => j = k
        BY <2>15, <4>1
      <4>3. (CHOOSE j \in DOMAIN slots : slots[j].from = i) = k
        BY <2>11, <4>1, <4>2
      <4>4. at(i) = Escaped(Escapes, share(k))
        BY <2>11, <3>2, <4>3
      <4>5. Escaped(Escapes, share(k)) \in Seq(Held) /\ InlineText(Escaped(Escapes, share(k))) = share(k)
        BY <2>16, EscapedReads
      <4> QED BY <4>1, <4>2, <4>4, <4>5
    <3>3. CASE content[i] \notin Tags /\ \A k \in 1..m : slots[k].from # i
      <4>1. at(i) = <<>>
        BY <2>11, <3>3
      <4>2. <<>> \in Seq(Held)
        OBVIOUS
      <4>3. InlineText(<<>>) = <<>>
        <5>1. "<g>" \in Tags
          BY DEF Tags
        <5> QED BY <5>1, InlineTag
      <4> QED BY <3>3, <4>1, <4>2, <4>3
    <3> QED BY <3>1, <3>2, <3>3
  <2> DEFINE pre(i) == SubSeq(seqs, 1, i)
             Q == Seq(Held)
             T == {i \in 0..n : \E k \in 0..m : /\ Through(slots, m, i, k)
                                                /\ InlineText(FlattenSeq(pre(i))) = SubSeq(target, 1, upTo(k))}
  <2>18. seqs \in Seq(Q) /\ Len(seqs) = n /\ \A i \in 1..n : seqs[i] = at(i)
    <3>1. seqs = [i \in 1..n |-> at(i)] /\ \A i \in 1..n : at(i) \in Q
      BY <2>2, <2>17
    <3> HIDE DEF at, Q, seqs
    <3>2. seqs \in [1..n -> Q]
      BY <3>1
    <3> QED BY <2>2, <3>1, <3>2
  <2> HIDE DEF seqs, at, Q
  <2>19. \A i \in 0..n : pre(i) \in Seq(Q)
    BY <2>2, <2>18
  <2>20. 0 \in T
    <3>1. Through(slots, m, 0, 0)
      <4>1. 0 \in 0..m
        BY <2>4
      <4>2. ASSUME NEW j \in 1..m PROVE ~(slots[j].from <= 0) /\ ~(j <= 0)
        <5>1. slots[j].from \in 1..n
          BY <2>11
        <5> QED BY <5>1
      <4> QED BY <4>1, <4>2 DEF Through
    <3>2. pre(0) = <<>>
      BY <2>18
    <3>3. FlattenSeq(<<>>) = <<>>
      BY DEF FlattenSeq
    <3>4. InlineText(<<>>) = <<>>
      <4>1. "<g>" \in Tags
        BY DEF Tags
      <4> QED BY <4>1, InlineTag
    <3>5. SubSeq(target, 1, upTo(0)) = <<>>
      BY <2>5
    <3>6. 0 \in 0..m /\ 0 \in 0..n
      BY <2>2, <2>4
    <3> QED BY <3>1, <3>2, <3>3, <3>4, <3>5, <3>6
  <2>21. ASSUME NEW i \in 0..n, i \in T, i < n PROVE i + 1 \in T
    <3>1. i + 1 \in 1..n /\ i + 1 \in 0..n /\ i \in Nat
      BY <2>2, <2>21
    <3>2. PICK k \in 0..m : Through(slots, m, i, k) /\ InlineText(FlattenSeq(pre(i))) = SubSeq(target, 1, upTo(k))
      BY <2>21
    <3>3. pre(i + 1) = Append(pre(i), seqs[i + 1]) /\ seqs[i + 1] \in Q
      BY <2>18, <3>1
    <3> HIDE DEF pre
    <3>4. FlattenSeq(pre(i + 1)) = FlattenSeq(pre(i)) \o at(i + 1) /\ FlattenSeq(pre(i)) \in Seq(Held)
          /\ at(i + 1) \in Seq(Held)
      <4>1. pre(i) \in Seq(Seq(Held)) /\ seqs[i + 1] \in Seq(Held)
        BY <2>19, <3>3 DEF Q
      <4>2. FlattenSeq(Append(pre(i), seqs[i + 1])) = FlattenSeq(pre(i)) \o seqs[i + 1]
        BY <4>1, FlattenStep
      <4>3. FlattenSeq(pre(i)) \in Seq(Held)
        BY <4>1, FlattenType
      <4> QED BY <2>18, <3>1, <3>3, <4>1, <4>2, <4>3
    <3>5. InlineText(FlattenSeq(pre(i + 1))) = SubSeq(target, 1, upTo(k)) \o InlineText(at(i + 1))
      BY <3>2, <3>4, InlineConcat
    <3>6. \A j \in 1..m : slots[j].from <= i <=> j <= k
      BY <3>2 DEF Through
    <3>7. CASE \E j \in 1..m : slots[j].from = i + 1
      <4>1. PICK j \in 1..m : slots[j].from = i + 1
        BY <3>7
      <4>2. j = k + 1
        <5>1. ~(j <= k)
          BY <3>1, <3>6, <4>1
        <5>2. CASE k + 1 < j
          <6>1. k + 1 \in 1..m /\ ~(k + 1 <= k)
            BY <2>4, <5>2
          <6>2. slots[k + 1].from < i + 1 /\ slots[k + 1].from \in 1..n
            BY <2>11, <2>14, <4>1, <5>2, <6>1
          <6>3. slots[k + 1].from <= i
            BY <3>1, <6>2
          <6> QED BY <3>6, <6>1, <6>3
        <5> QED BY <2>4, <5>1, <5>2
      <4>3. Through(slots, m, i + 1, k + 1)
        <5>1. k + 1 \in 0..m
          BY <2>4, <4>2
        <5>2. ASSUME NEW l \in 1..m PROVE slots[l].from <= i + 1 <=> l <= k + 1
          <6>1. PICK x : x = slots[l].from
            OBVIOUS
          <6>2. x \in Nat
            BY <2>2, <2>11, <6>1
          <6>3. x <= i <=> l <= k
            BY <3>6, <6>1
          <6>4. x = i + 1 <=> l = k + 1
            BY <2>15, <4>1, <4>2, <6>1
          <6>5. x <= i + 1 <=> x <= i \/ x = i + 1
            BY <3>1, <6>2
          <6>6. l <= k + 1 <=> l <= k \/ l = k + 1
            BY <2>4
          <6> QED BY <6>1, <6>3, <6>4, <6>5, <6>6
        <5> QED BY <5>1, <5>2 DEF Through
      <4>4. InlineText(at(i + 1)) = share(k + 1)
        BY <2>17, <3>1, <4>1, <4>2
      <4>5. SubSeq(target, 1, upTo(k)) \o share(k + 1) = SubSeq(target, 1, upTo(k + 1))
        <5>1. k + 1 \in 1..m /\ k + 1 \in 0..m /\ (k + 1) - 1 = k
          BY <2>4, <4>2
        <5>2. PICK a, b : a = upTo(k) /\ b = upTo(k + 1)
          OBVIOUS
        <5>3. a \in 0..len /\ b \in 0..len /\ a <= b
          BY <2>12, <2>13, <5>1, <5>2
        <5>4. share(k + 1) = SubSeq(target, a + 1, b)
          BY <5>1, <5>2
        <5>5. SubSeq(target, 1, a) \o SubSeq(target, a + 1, b) = SubSeq(target, 1, b)
          BY <2>3, <5>3, Joined DEF len
        <5> QED BY <5>2, <5>4, <5>5
      <4>6. k + 1 \in 0..m
        BY <2>4, <4>2
      <4> QED BY <3>1, <3>5, <4>3, <4>4, <4>5, <4>6
    <3>8. CASE \A j \in 1..m : slots[j].from # i + 1
      <4>1. Through(slots, m, i + 1, k)
        <5>2. ASSUME NEW l \in 1..m PROVE slots[l].from <= i + 1 <=> l <= k
          <6>1. PICK x : x = slots[l].from
            OBVIOUS
          <6>2. x \in Nat /\ x # i + 1
            BY <2>2, <2>11, <3>8, <6>1
          <6>3. x <= i <=> l <= k
            BY <3>6, <6>1
          <6>4. x <= i + 1 <=> x <= i
            BY <3>1, <6>2
          <6> QED BY <6>1, <6>3, <6>4
        <5> QED BY <5>2 DEF Through
      <4>2. InlineText(at(i + 1)) = <<>>
        BY <2>17, <3>1, <3>8
      <4>3. SubSeq(target, 1, upTo(k)) \o <<>> = SubSeq(target, 1, upTo(k))
        <5>1. PICK b : b = upTo(k)
          OBVIOUS
        <5>2. b \in 0..len
          BY <2>12, <5>1
        <5>3. SubSeq(target, 1, b) \in Seq(Clean)
          BY <2>3, <5>2 DEF len
        <5>4. SubSeq(target, 1, b) \o <<>> = SubSeq(target, 1, b)
          BY <5>3, ConcatEmptySeq
        <5> QED BY <5>1, <5>4
      <4> QED BY <3>1, <3>5, <4>1, <4>2, <4>3
    <3> QED BY <3>7, <3>8
  <2>22. n \in T
    <3> HIDE DEF T
    <3>1. n \in 0..n /\ \A i \in 0..n : i \in T /\ i < n => i + 1 \in T
      BY <2>2, <2>21
    <3> QED BY <2>2, <2>20, <3>1, Ascent
  <2>23. PICK k \in 0..m : Through(slots, m, n, k) /\ InlineText(FlattenSeq(pre(n))) = SubSeq(target, 1, upTo(k))
    BY <2>22
  <2>24. k = m
    <3> SUFFICES ASSUME k # m PROVE FALSE
      OBVIOUS
    <3>1. m \in 1..m /\ ~(m <= k)
      BY <2>4
    <3>2. slots[m].from \in 1..n
      BY <2>11, <3>1
    <3>3. slots[m].from <= n
      BY <2>2, <3>2
    <3> QED BY <2>23, <3>1, <3>3 DEF Through
  <2>25. pre(n) = seqs
    BY <2>2, <2>18
  <2>26. FlattenSeq(seqs) \in Seq(Held)
    BY <2>18, FlattenType DEF Q
  <2> HIDE DEF pre
  <2>27. PICK b : b = upTo(m)
    OBVIOUS
  <2>28. b \in 0..len /\ rest = SubSeq(target, b + 1, len)
    <3>1. m \in 0..m
      BY <2>4
    <3> QED BY <2>12, <2>27, <3>1
  <2>29. rest \in Seq(Clean)
    <3>1. b + 1 \in 1..len + 1 /\ len \in 0..len
      BY <2>3, <2>28
    <3>2. SubSeq(target, b + 1, len) \in Seq(Clean)
      BY <3>1 DEF len
    <3> QED BY <2>28, <3>2
  <2>30. SubSeq(target, 1, b) \o rest = target
    <3>1. SubSeq(target, 1, b) \o SubSeq(target, b + 1, len) = SubSeq(target, 1, len)
      <4>1. 1 \in 1..len + 1 /\ len \in 0..len /\ 1 <= b + 1 /\ b <= len /\ b \in 0..len
        BY <2>3, <2>28
      <4> QED BY <4>1, Joined DEF len
    <3>2. SubSeq(target, 1, len) = target
      BY DEF len
    <3> QED BY <2>28, <3>1, <3>2
  <2> HIDE DEF rest
  <2>31. Escaped(Escapes, rest) \in Seq(Held) /\ InlineText(Escaped(Escapes, rest)) = rest
    BY <2>29, EscapedReads
  <2>32. InlineText(out) = InlineText(FlattenSeq(seqs)) \o rest
    BY <2>1, <2>26, <2>31, InlineConcat
  <2> QED BY <2>23, <2>24, <2>25, <2>27, <2>30, <2>32
<1> QED BY <1>0, <1>1

-----------------------------------------------------------------------------
(* Plain text, read again *)

\* Two line ends with nothing to translate between them.
BlankLine(t, a, b) ==
  \E p, q \in a..b : p < q /\ t[p] = "\n" /\ t[q] = "\n" /\ \A i \in p..q : t[i] \in White

\* A text that is one paragraph, without white space at its ends.
Para(x) ==
  x # <<>> /\ x[1] \notin White /\ x[Len(x)] \notin White /\ ~BlankLine(x, 1, Len(x))

\* Paragraphs: what a blank line parts.
AreParas(t, cores) ==
  /\ AreCores(t, cores)
  /\ \A k \in 1..Len(cores) : ~BlankLine(t, cores[k].from, cores[k].to)
  /\ \A j, k \in 1..Len(cores) : j < k => BlankLine(t, cores[j].to, cores[k].from)

\* Lines begin after a line end and have none but their own.
LEMMA LinesEnd ==
  ASSUME NEW L, NEW t \in Seq(L), NEW l \in Lines(t)
  PROVE  /\ l.from \in 1..Len(t) + 1 /\ l.to \in 0..Len(t)
         /\ \A i \in 1..Len(t) : l.from <= i /\ i < l.to => t[i] # "\n"
         /\ l.to # Len(t) => t[l.to] = "\n"
         /\ l.from # 1 => t[l.from - 1] = "\n"
<1> DEFINE n == Len(t)
           before(e) == {0} \cup {x \in LineEnds(t) : x < e}
           line(e) == [from |-> Max(before(e)) + 1, to |-> e]
<1>1. n \in Nat /\ DOMAIN t = 1..n
  OBVIOUS
<1>0. Lines(t) = {line(e) : e \in LineEnds(t)}
  BY DEF Lines
<1>2. PICK e \in LineEnds(t) : l = [from |-> Max(before(e)) + 1, to |-> e]
  BY <1>0
<1>3. \A x : x \in LineEnds(t) <=> x = n \/ (x \in 1..n /\ t[x] = "\n")
  BY <1>1 DEF LineEnds
<1> HIDE DEF n
<1>4. before(e) \in SUBSET (0..n) /\ before(e) # {} /\ e \in 0..n
  <2>1. \A x \in LineEnds(t) : x \in 0..n
    BY <1>1, <1>3
  <2>2. 0 \in 0..n
    BY <1>1
  <2> QED BY <2>1, <2>2
<1>5. PICK m : m = Max(before(e))
  OBVIOUS
<1>6. m \in before(e) /\ \A y \in before(e) : y <= m
  <2> HIDE DEF before
  <2> QED BY <1>1, <1>4, <1>5, Extremes
<1>7. l.from = m + 1 /\ l.to = e /\ m \in 0..n /\ (m = 0 \/ (m \in LineEnds(t) /\ m < e))
  BY <1>2, <1>4, <1>5, <1>6
<1>8. ASSUME NEW i \in 1..n, l.from <= i, i < l.to PROVE t[i] # "\n"
  <2> SUFFICES ASSUME t[i] = "\n" PROVE FALSE
    OBVIOUS
  <2>1. i < e /\ i \in LineEnds(t)
    BY <1>3, <1>7, <1>8
  <2>2. i <= m
    BY <1>6, <2>1
  <2> QED BY <1>1, <1>7, <1>8, <2>2
<1>9. l.from # 1 => t[l.from - 1] = "\n"
  <2> SUFFICES ASSUME l.from # 1 PROVE t[l.from - 1] = "\n"
    OBVIOUS
  <2>1. m # 0 /\ l.from - 1 = m
    BY <1>1, <1>7
  <2>2. m \in LineEnds(t) /\ m # n
    BY <1>1, <1>4, <1>7, <2>1
  <2> QED BY <1>3, <2>1, <2>2
<1>10. l.to # n => t[l.to] = "\n"
  BY <1>3, <1>7
<1>11. l.from \in 1..n + 1 /\ l.to \in 0..n
  BY <1>1, <1>4, <1>7
<1> QED BY <1>8, <1>9, <1>10, <1>11 DEF n

\* The paragraphs of a text are apart, and none has a blank line.
LEMMA ParagraphsAreApart ==
  ASSUME NEW L, NEW t \in Seq(L), NEW cores,
         cores = [k \in DOMAIN ParagraphRanges(t) |-> Core(t, ParagraphRanges(t)[k])]
  PROVE  AreParas(t, cores)
<1> DEFINE n == Len(t)
           solid == {x \in Lines(t) : ~Blank(Slice(t, x))}
           P == UNION {l.from..l.to : l \in solid}
           runs == ParagraphRanges(t)
           N == Len(runs)
           R == [from : 1..n, to : 1..n]
<1>1. n \in Nat
  OBVIOUS
<1>2. ASSUME NEW l \in Lines(t)
      PROVE  /\ l.from \in 1..n + 1 /\ l.to \in 0..n
             /\ \A i \in 1..n : l.from <= i /\ i < l.to => t[i] # "\n"
             /\ l.to # n => t[l.to] = "\n"
             /\ l.from # 1 => t[l.from - 1] = "\n"
             /\ l \in solid \/ \A i \in l.from..l.to : t[i] \in White
  <2>1. /\ l.from \in 1..n + 1 /\ l.to \in 0..n
        /\ \A i \in 1..n : l.from <= i /\ i < l.to => t[i] # "\n"
        /\ l.to # n => t[l.to] = "\n"
        /\ l.from # 1 => t[l.from - 1] = "\n"
    BY LinesEnd
  <2>2. Blank(Slice(t, l)) <=> \A i \in l.from..l.to : t[i] \in White
    BY <2>1, BlankSlice DEF Slice
  <2> QED BY <2>1, <2>2
<1>3. ASSUME NEW l \in solid PROVE l \in Lines(t) /\ \E i \in l.from..l.to : t[i] \notin White
  <2>1. l \in Lines(t) /\ ~Blank(Slice(t, l))
    OBVIOUS
  <2>2. l.from \in 1..n + 1 /\ l.to \in 0..n
    BY <1>2, <2>1
  <2> QED BY <2>1, <2>2, BlankSlice DEF Slice
<1>4. \A i : i \in P <=> \E l \in solid : i \in l.from..l.to
  OBVIOUS
<1>5. Covers(t, runs)
  BY ParagraphsCover
<1>6. AreCores(t, cores)
  BY <1>5, CoresOf
<1>7. runs = ByStart(RunsOf(P))
  BY DEF ParagraphRanges
<1>8. runs \in Seq(R) /\ N \in Nat /\ DOMAIN runs = 1..N
  BY <1>5 DEF Covers
<1>9. \A i \in 1..n : \E l \in Lines(t) : l.from <= i /\ i <= l.to
  BY LinesPartition
<1> HIDE DEF P, runs, solid, n, N
<1>10. P \in SUBSET (1..n)
  <2> SUFFICES ASSUME NEW i \in P PROVE i \in 1..n
    OBVIOUS
  <2>1. PICK l \in solid : i \in l.from..l.to
    BY <1>4
  <2>2. l.from \in 1..n + 1 /\ l.to \in 0..n
    BY <1>2, <1>3
  <2> QED BY <1>1, <2>1, <2>2
<1>11. /\ \A k \in 1..N : /\ runs[k].from <= runs[k].to /\ runs[k].from..runs[k].to \subseteq P
                          /\ runs[k].from - 1 \notin P /\ runs[k].to + 1 \notin P
       /\ \A j, k \in 1..N : j < k => runs[j].to < runs[k].from
  BY <1>1, <1>7, <1>10, RunsSorted DEF AreRuns, N
<1>12. ASSUME NEW k \in 1..N
       PROVE  /\ runs[k].from \in 1..n /\ runs[k].to \in 1..n
              /\ cores[k].from \in 1..n /\ cores[k].to \in 1..n
              /\ runs[k].from <= cores[k].from /\ cores[k].to <= runs[k].to
  <2>1. runs[k] \in R
    <3> HIDE DEF R
    <3> QED BY <1>8
  <2>2. cores[k] = Core(t, runs[k])
    BY <1>8 DEF runs
  <2>3. \E i \in runs[k].from..runs[k].to : t[i] \notin White
    BY <1>5 DEF Covers, N
  <2>4. IsCore(t, n, runs[k], cores[k])
    BY <1>1, <2>1, <2>2, <2>3, CoreIs
  <2> QED BY <2>1, <2>4 DEF IsCore
<1>13. Len(cores) = N /\ \A k \in 1..N : t[cores[k].from] \notin White /\ t[cores[k].to] \notin White
  <2>1. cores \in Seq(R) /\ DOMAIN cores = 1..N
    <3>1. DOMAIN cores = 1..N
      BY <1>8 DEF runs
    <3> QED BY <1>6, <3>1 DEF AreCores, R, n
  <2>2. Len(cores) = N
    <3> HIDE DEF R
    <3> QED BY <1>8, <2>1
  <2> QED BY <1>6, <2>2 DEF AreCores
\* No blank line in a run: its second line would not be in it.
<1>14. ASSUME NEW k \in 1..N, BlankLine(t, cores[k].from, cores[k].to) PROVE FALSE
  <2>1. PICK a, b, c, d : a = runs[k].from /\ b = runs[k].to /\ c = cores[k].from /\ d = cores[k].to
    OBVIOUS
  <2>2. PICK p \in c..d, q \in c..d : p < q /\ t[p] = "\n" /\ t[q] = "\n" /\ \A i \in p..q : t[i] \in White
    BY <1>14, <2>1 DEF BlankLine
  <2>3. a \in 1..n /\ b \in 1..n /\ c \in 1..n /\ d \in 1..n /\ a <= c /\ d <= b /\ a..b \subseteq P
    BY <1>11, <1>12, <2>1
  <2>4. p + 1 \in a..b /\ p \in 1..n /\ q \in 1..n /\ p + 1 <= q
    BY <1>1, <2>2, <2>3
  <2>5. PICK l \in solid : p + 1 \in l.from..l.to
    BY <1>4, <2>3, <2>4
  <2>6. PICK e, f : e = l.from /\ f = l.to
    OBVIOUS
  <2>7. /\ e \in 1..n + 1 /\ f \in 0..n /\ \A i \in 1..n : e <= i /\ i < f => t[i] # "\n"
        /\ \E i \in e..f : t[i] \notin White
    BY <1>2, <1>3, <2>6
  <2>8. ~(e <= p)
    BY <1>1, <2>2, <2>4, <2>5, <2>6, <2>7
  <2>9. ~(q < f)
    BY <1>1, <2>2, <2>4, <2>5, <2>6, <2>7
  <2>10. PICK i \in e..f : t[i] \notin White
    BY <2>7
  <2>11. i \in p..q
    BY <1>1, <2>4, <2>7, <2>8, <2>9, <2>10
  <2> QED BY <2>2, <2>10, <2>11
\* The line after a run is blank and ends before the next run begins.
<1>15. ASSUME NEW j \in 1..N, NEW k \in 1..N, j < k
       PROVE  BlankLine(t, cores[j].to, cores[k].from)
  <2>1. PICK a, b, c, d, g : /\ a = cores[j].to /\ b = runs[j].to /\ c = runs[k].from /\ d = cores[k].from
                             /\ g = runs[j].from
    OBVIOUS
  <2>2. /\ a \in 1..n /\ b \in 1..n /\ c \in 1..n /\ d \in 1..n /\ g \in 1..n
        /\ a <= b /\ b < c /\ c <= d /\ g <= b
        /\ g..b \subseteq P /\ b + 1 \notin P /\ c - 1 \notin P
    BY <1>11, <1>12, <1>15, <2>1
  <2>3. c \in P /\ b \in P
    <3>1. PICK h : h = runs[k].to
      OBVIOUS
    <3>2. h \in 1..n /\ c <= h /\ c..h \subseteq P
      BY <1>11, <1>12, <2>1, <3>1
    <3>3. b \in g..b /\ c \in c..h
      BY <2>2, <3>2
    <3> QED BY <2>2, <3>2, <3>3
  <2>4. PICK l \in solid : b \in l.from..l.to
    BY <1>4, <2>3
  <2>5. PICK x, y : x = l.from /\ y = l.to
    OBVIOUS
  <2>6. x \in 1..n + 1 /\ y \in 0..n /\ (y # n => t[y] = "\n")
    BY <1>2, <1>3, <2>5
  <2>7. y = b
    <3> SUFFICES ASSUME y # b PROVE FALSE
      OBVIOUS
    <3>1. b + 1 \in x..y
      <4>1. x \in 1..n + 1 /\ y \in 0..n
        BY <1>2, <1>3, <2>5
      <4> QED BY <1>1, <2>2, <2>4, <2>5, <4>1
    <3> QED BY <1>4, <2>2, <2>5, <3>1
  <2>8. t[b] = "\n" /\ b # n
    BY <1>1, <2>2, <2>6, <2>7
  <2>9. PICK l2 \in Lines(t) : l2.from <= b + 1 /\ b + 1 <= l2.to
    <3>1. b + 1 \in 1..n
      BY <1>1, <2>2
    <3> QED BY <1>9, <3>1
  <2>10. PICK u, v : u = l2.from /\ v = l2.to
    OBVIOUS
  <2>11. /\ u \in 1..n + 1 /\ v \in 0..n /\ u <= b + 1 /\ b + 1 <= v
         /\ \A i \in 1..n : u <= i /\ i < v => t[i] # "\n"
         /\ v # n => t[v] = "\n"
         /\ l2 \in solid \/ \A i \in u..v : t[i] \in White
    BY <1>2, <2>9, <2>10
  <2>12. l2 \notin solid
    <3>1. b + 1 \in u..v
      BY <2>2, <2>11
    <3> QED BY <1>4, <2>2, <2>10, <3>1
  <2>13. PICK l3 \in solid : c \in l3.from..l3.to
    BY <1>4, <2>3
  <2>14. PICK r, s : r = l3.from /\ s = l3.to
    OBVIOUS
  <2>15. r \in 1..n + 1 /\ s \in 0..n /\ r <= c /\ c <= s /\ (r # 1 => t[r - 1] = "\n")
    <3>1. r \in 1..n + 1 /\ s \in 0..n /\ (r # 1 => t[r - 1] = "\n")
      BY <1>2, <1>3, <2>14
    <3>2. c \in r..s
      BY <2>13, <2>14
    <3> QED BY <2>2, <3>1, <3>2
  <2>16. r = c
    <3> SUFFICES ASSUME r # c PROVE FALSE
      OBVIOUS
    <3>1. c - 1 \in r..s
      BY <2>2, <2>15
    <3> QED BY <1>4, <2>2, <2>14, <3>1
  <2>17. t[c - 1] = "\n" /\ c - 1 # b
    BY <2>2, <2>3, <2>15, <2>16
  <2>18. v < c /\ b < v
    <3>1. ~(c <= v)
      <4> SUFFICES ASSUME c <= v PROVE FALSE
        OBVIOUS
      <4>1. c - 1 \in 1..n /\ u <= c - 1 /\ c - 1 < v
        BY <1>1, <2>2, <2>11, <2>17
      <4> QED BY <2>11, <2>17, <4>1
    <3> QED BY <1>1, <2>2, <2>11, <3>1
  <2>19. t[v] = "\n"
    BY <1>1, <2>2, <2>11, <2>18
  <2>20. \A i \in b..v : t[i] \in White
    <3> SUFFICES ASSUME NEW i \in b..v PROVE t[i] \in White
      OBVIOUS
    <3>1. CASE i = b
      BY <2>8, <3>1 DEF White
    <3>2. CASE i # b
      <4>1. i \in u..v
        BY <1>1, <2>2, <2>11, <3>2
      <4> QED BY <2>11, <2>12, <4>1
    <3> QED BY <3>1, <3>2
  <2>21. b \in a..d /\ v \in a..d
    BY <1>1, <2>2, <2>11, <2>18
  <2>22. BlankLine(t, a, d)
    BY <2>8, <2>18, <2>19, <2>20, <2>21 DEF BlankLine
  <2> QED BY <2>1, <2>22
<1> QED BY <1>6, <1>13, <1>14, <1>15 DEF AreParas

\* Cores are ranges of the text in their order.
LEMMA CoresAre ==
  ASSUME NEW L, NEW t \in Seq(L), NEW cores, AreCores(t, cores)
  PROVE  /\ Len(cores) \in Nat /\ DOMAIN cores = 1..Len(cores) /\ cores = [k \in 1..Len(cores) |-> cores[k]]
         /\ \A k \in 1..Len(cores) : /\ cores[k] = [from |-> cores[k].from, to |-> cores[k].to]
                                     /\ cores[k].from \in 1..Len(t) /\ cores[k].to \in 1..Len(t)
                                     /\ cores[k].from <= cores[k].to
<1> DEFINE R == [from : 1..Len(t), to : 1..Len(t)]
<1>1. cores \in Seq(R) /\ \A k \in 1..Len(cores) : cores[k].from <= cores[k].to
  BY DEF AreCores
<1>2. \A r \in R : r = [from |-> r.from, to |-> r.to] /\ r.from \in 1..Len(t) /\ r.to \in 1..Len(t)
  OBVIOUS
<1> HIDE DEF R
<1>3. \A k \in 1..Len(cores) : cores[k] \in R
  BY <1>1
<1> QED BY <1>1, <1>2, <1>3

LEMMA ParasIn ==
  ASSUME NEW L, NEW t \in Seq(L), NEW s, AreParas(t, s), NEW u, AreParas(t, u), NEW k \in 1..Len(s)
  PROVE  \E j \in 1..Len(u) : u[j].from <= s[k].from /\ s[k].to <= u[j].to
<1> DEFINE n == Len(t)
<1>1. AreCores(t, s) /\ AreCores(t, u)
  BY DEF AreParas
<1>2. PICK a, b : a = s[k].from /\ b = s[k].to
  OBVIOUS
<1>3. a \in 1..n /\ b \in 1..n /\ a <= b
  BY <1>1, <1>2, CoresAre
<1>4. t[a] \notin White /\ t[b] \notin White /\ ~BlankLine(t, a, b)
  BY <1>1, <1>2 DEF AreParas, AreCores
<1>5. PICK j \in 1..Len(u) : u[j].from <= a /\ a <= u[j].to
  BY <1>1, <1>3, <1>4 DEF AreCores
<1>6. PICK i \in 1..Len(u) : u[i].from <= b /\ b <= u[i].to
  BY <1>1, <1>3, <1>4 DEF AreCores
<1>7. PICK c, d, e, f : c = u[j].from /\ d = u[j].to /\ e = u[i].from /\ f = u[i].to
  OBVIOUS
<1>8. c \in 1..n /\ d \in 1..n /\ e \in 1..n /\ f \in 1..n
  BY <1>1, <1>7, CoresAre
<1>9. c <= a /\ a <= d /\ e <= b /\ b <= f
  BY <1>5, <1>6, <1>7
<1>10. Len(u) \in Nat /\ n \in Nat
  BY <1>1, CoresAre
<1> HIDE DEF n
<1>11. ~(j < i)
  <2> SUFFICES ASSUME j < i PROVE FALSE
    OBVIOUS
  <2>1. BlankLine(t, d, e)
    BY <1>7 DEF AreParas
  <2>2. PICK p \in d..e, q \in d..e : p < q /\ t[p] = "\n" /\ t[q] = "\n" /\ \A x \in p..q : t[x] \in White
    BY <2>1 DEF BlankLine
  <2>3. p \in a..b /\ q \in a..b
    BY <1>3, <1>8, <1>9
  <2>4. BlankLine(t, a, b)
    BY <2>2, <2>3 DEF BlankLine
  <2> QED BY <1>4, <2>4
<1>12. ~(i < j)
  <2> SUFFICES ASSUME i < j PROVE FALSE
    OBVIOUS
  <2>1. f < c
    BY <1>1, <1>7 DEF AreCores
  <2> QED BY <1>3, <1>8, <1>9, <2>1
<1>13. i = j
  BY <1>10, <1>11, <1>12
<1> QED BY <1>2, <1>7, <1>9, <1>13

LEMMA ParasSame ==
  ASSUME NEW L, NEW t \in Seq(L), NEW s, AreParas(t, s), NEW u, AreParas(t, u), NEW k \in 1..Len(s)
  PROVE  \E j \in 1..Len(u) : u[j] = s[k]
<1> DEFINE n == Len(t)
<1>1. AreCores(t, s) /\ AreCores(t, u)
  BY DEF AreParas
<1>2. PICK j \in 1..Len(u) : u[j].from <= s[k].from /\ s[k].to <= u[j].to
  BY ParasIn
<1>3. PICK i \in 1..Len(s) : s[i].from <= u[j].from /\ u[j].to <= s[i].to
  BY ParasIn
<1>4. PICK a, b, c, d, e, f : /\ a = s[k].from /\ b = s[k].to /\ c = u[j].from /\ d = u[j].to
                              /\ e = s[i].from /\ f = s[i].to
  OBVIOUS
<1>5. /\ a \in 1..n /\ b \in 1..n /\ c \in 1..n /\ d \in 1..n /\ e \in 1..n /\ f \in 1..n
      /\ a <= b /\ Len(s) \in Nat
      /\ s[k] = [from |-> a, to |-> b] /\ u[j] = [from |-> c, to |-> d]
  BY <1>1, <1>4, CoresAre
<1>6. c <= a /\ b <= d /\ e <= c /\ d <= f
  BY <1>2, <1>3, <1>4
<1>7. ~(k < i)
  <2> SUFFICES ASSUME k < i PROVE FALSE
    OBVIOUS
  <2>1. b < e
    BY <1>1, <1>4 DEF AreCores
  <2> QED BY <1>5, <1>6, <2>1
<1>8. ~(i < k)
  <2> SUFFICES ASSUME i < k PROVE FALSE
    OBVIOUS
  <2>1. f < a
    BY <1>1, <1>4 DEF AreCores
  <2> QED BY <1>5, <1>6, <2>1
<1>9. i = k
  BY <1>5, <1>7, <1>8
<1>10. a = c /\ b = d
  BY <1>4, <1>5, <1>6, <1>9
<1> QED BY <1>5, <1>10

LEMMA CoresAscend ==
  ASSUME NEW L, NEW t \in Seq(L), NEW s, AreCores(t, s), NEW S, S = {s[k].from : k \in 1..Len(s)}
  PROVE  /\ Ascending([k \in 1..Len(s) |-> s[k].from], Len(s), S) /\ Within(S, Len(t))
<1>1. /\ Len(s) \in Nat /\ Len(t) \in Nat
      /\ \A k \in 1..Len(s) : s[k].from \in 1..Len(t) /\ s[k].to \in 1..Len(t) /\ s[k].from <= s[k].to
  <2>1. Len(t) \in Nat
    OBVIOUS
  <2> QED BY <2>1, CoresAre
<1>2. ASSUME NEW j \in 1..Len(s), NEW k \in 1..Len(s), j < k PROVE s[j].from < s[k].from
  <2>1. PICK a, b, c : a = s[j].from /\ b = s[j].to /\ c = s[k].from
    OBVIOUS
  <2>2. a \in Nat /\ b \in Nat /\ c \in Nat /\ a <= b
    BY <1>1, <2>1
  <2>3. b < c
    BY <1>2, <2>1 DEF AreCores
  <2> QED BY <2>1, <2>2, <2>3
<1>3. Within(S, Len(t))
  BY <1>1 DEF Within
<1> DEFINE g == [k \in 1..Len(s) |-> s[k].from]
<1>4. \A k \in 1..Len(s) : g[k] = s[k].from
  OBVIOUS
<1>5. g \in [1..Len(s) -> S]
  OBVIOUS
<1>6. \A x \in S : \E k \in 1..Len(s) : g[k] = x
  OBVIOUS
<1> HIDE DEF g
<1>7. Ascending(g, Len(s), S)
  BY <1>1, <1>2, <1>4, <1>5, <1>6 DEF Ascending
<1> QED BY <1>3, <1>7 DEF g

\* A text has one list of paragraphs.
LEMMA ParasUnique ==
  ASSUME NEW L, NEW t \in Seq(L), NEW s, AreParas(t, s), NEW u, AreParas(t, u)
  PROVE  s = u
<1> DEFINE S == {s[k].from : k \in 1..Len(s)}
           U == {u[k].from : k \in 1..Len(u)}
           f == [k \in 1..Len(s) |-> s[k].from]
           g == [k \in 1..Len(u) |-> u[k].from]
<1>1. AreCores(t, s) /\ AreCores(t, u)
  BY DEF AreParas
<1>2. /\ \A k \in 1..Len(s) : \E j \in 1..Len(u) : u[j] = s[k]
      /\ \A k \in 1..Len(u) : \E j \in 1..Len(s) : s[j] = u[k]
  BY ParasSame
<1>3. S = U
  <2>1. ASSUME NEW k \in 1..Len(s) PROVE s[k].from \in U
    BY <1>2
  <2>2. ASSUME NEW k \in 1..Len(u) PROVE u[k].from \in S
    BY <1>2
  <2> QED BY <2>1, <2>2
<1>4. /\ Ascending(f, Len(s), S) /\ Ascending(g, Len(u), S) /\ Within(S, Len(t))
  BY <1>1, <1>3, CoresAscend
<1>5. \A k \in 1..Len(s) : f[k] = s[k].from
  OBVIOUS
<1>6. \A k \in 1..Len(u) : g[k] = u[k].from
  OBVIOUS
<1>7. DOMAIN f = 1..Len(s) /\ DOMAIN g = 1..Len(u)
  OBVIOUS
<1> HIDE DEF S, f, g
<1>8. f = g
  <2>1. InOrder(S) = f /\ InOrder(S) = g
    BY <1>4, InOrderUnique
  <2> QED BY <2>1
<1>9. /\ Len(s) \in Nat /\ Len(u) \in Nat /\ s = [k \in 1..Len(s) |-> s[k]] /\ u = [k \in 1..Len(u) |-> u[k]]
  BY <1>1, CoresAre
<1>10. Len(s) = Len(u)
  <2>1. PICK a, b : a = Len(s) /\ b = Len(u)
    OBVIOUS
  <2>2. a \in Nat /\ b \in Nat /\ 1..a = 1..b
    BY <1>7, <1>8, <1>9, <2>1
  <2>3. ~(a < b)
    <3> SUFFICES ASSUME a < b PROVE FALSE
      OBVIOUS
    <3>1. b \in 1..b /\ b \notin 1..a
      BY <2>2
    <3> QED BY <2>2, <3>1
  <2>4. ~(b < a)
    <3> SUFFICES ASSUME b < a PROVE FALSE
      OBVIOUS
    <3>1. a \in 1..a /\ a \notin 1..b
      BY <2>2
    <3> QED BY <2>2, <3>1
  <2> QED BY <2>1, <2>2, <2>3, <2>4
<1>11. ASSUME NEW k \in 1..Len(s) PROVE s[k] = u[k]
  <2>1. PICK j \in 1..Len(u) : u[j] = s[k]
    BY <1>2
  <2>2. g[j] = g[k]
    BY <1>5, <1>6, <1>8, <1>10, <2>1
  <2>3. \A x, y \in 1..Len(u) : x < y => g[x] < g[y]
    BY <1>4 DEF Ascending
  <2>4. g[k] \in Nat
    <3>1. g \in [1..Len(u) -> S] /\ \A x \in S : x \in 1..Len(t)
      BY <1>4 DEF Ascending, Within
    <3>2. g[k] \in S
      BY <1>10, <3>1
    <3> QED BY <3>1, <3>2
  <2>5. ~(j < k) /\ ~(k < j)
    BY <1>10, <2>2, <2>3, <2>4
  <2> QED BY <1>9, <1>10, <2>1, <2>5
<1> QED BY <1>9, <1>10, <1>11

\* The places of a text outside some ranges.
Outside(n, spans) == {i \in 1..n : \A k \in 1..Len(spans) : ~(spans[k].from <= i /\ i <= spans[k].to)}

(***************************************************************************)
(* How the text out comes from body: text k in the place of span k, from   *)
(* lo[k] to hi[k], and every other place i at w[i], all in their order.    *)
(***************************************************************************)
Woven(body, spans, texts, out, w, lo, hi) ==
  LET O == Outside(Len(body), spans)
      K == 1..Len(spans)
  IN  /\ w \in [O -> 1..Len(out)] /\ lo \in [K -> 1..Len(out)] /\ hi \in [K -> 1..Len(out)]
      /\ \A i \in O : out[w[i]] = body[i]
      /\ \A k \in K : /\ lo[k] <= hi[k] /\ Len(texts[k]) = hi[k] - lo[k] + 1
                      /\ \A q \in lo[k]..hi[k] : out[q] = texts[k][q - lo[k] + 1]
      /\ \A i, j \in O : i < j => w[i] < w[j]
      /\ \A j, k \in K : j < k => hi[j] < lo[k]
      /\ \A i \in O, k \in K : (i < spans[k].from => w[i] < lo[k]) /\ (spans[k].to < i => hi[k] < w[i])
      /\ \A q \in 1..Len(out) : (\E i \in O : w[i] = q) \/ (\E k \in K : lo[k] <= q /\ q <= hi[k])

\* Texts that fit into the spans: paragraphs, none a byte order mark at the start of the file.
FitIn(spans, texts) ==
  \A k \in 1..Len(spans) : /\ texts[k] \in Seq(Lexemes) /\ Para(texts[k])
                           /\ spans[k].from = 1 => texts[k][1] # "BOM"

Moved(lo, hi, m) == [k \in 1..m |-> [from |-> lo[k], to |-> hi[k]]]

\* A text but for its byte order mark.
LEMMA ContentAt ==
  ASSUME NEW body \in Seq(Lexemes), NEW i \in 1..Len(body)
  PROVE  Content(body)[i] = IF i = 1 /\ body[1] = "BOM" THEN " " ELSE body[i]
<1>1. body # <<>> /\ DOMAIN body = 1..Len(body)
  OBVIOUS
<1> QED BY <1>1 DEF Content

LEMMA WovenContent ==
  ASSUME NEW body \in Seq(Lexemes), NEW out \in Seq(Lexemes), NEW spans, AreCores(Content(body), spans),
         NEW texts, FitIn(spans, texts), NEW w, NEW lo, NEW hi, Woven(body, spans, texts, out, w, lo, hi)
  PROVE  /\ \A i \in Outside(Len(body), spans) : Content(out)[w[i]] = Content(body)[i]
         /\ \A k \in 1..Len(spans) : \A q \in lo[k]..hi[k] : Content(out)[q] = texts[k][q - lo[k] + 1]
<1> DEFINE n == Len(body)
           O == Outside(n, spans)
           K == 1..Len(spans)
<1>1. /\ w \in [O -> 1..Len(out)] /\ lo \in [K -> 1..Len(out)] /\ hi \in [K -> 1..Len(out)]
      /\ \A i \in O : out[w[i]] = body[i]
      /\ \A k \in K : /\ lo[k] <= hi[k] /\ Len(texts[k]) = hi[k] - lo[k] + 1
                      /\ \A q \in lo[k]..hi[k] : out[q] = texts[k][q - lo[k] + 1]
      /\ \A i, j \in O : i < j => w[i] < w[j]
      /\ \A j, k \in K : j < k => hi[j] < lo[k]
      /\ \A i \in O, k \in K : (i < spans[k].from => w[i] < lo[k]) /\ (spans[k].to < i => hi[k] < w[i])
      /\ \A q \in 1..Len(out) : (\E i \in O : w[i] = q) \/ (\E k \in K : lo[k] <= q /\ q <= hi[k])
  BY DEF Woven
<1>2. \A i : i \in O <=> i \in 1..n /\ \A k \in K : ~(spans[k].from <= i /\ i <= spans[k].to)
  BY DEF Outside
<1>3. /\ Len(spans) \in Nat
      /\ \A k \in K : /\ spans[k].from \in 1..n /\ spans[k].to \in 1..n /\ spans[k].from <= spans[k].to
  BY ContentType, CoresAre
<1>4. n \in Nat
  OBVIOUS
<1> HIDE DEF O, n
<1>5. \A i \in O : i \in 1..n
  BY <1>2
<1>6. ASSUME 1 \in O PROVE w[1] = 1
  <2> SUFFICES ASSUME w[1] # 1 PROVE FALSE
    OBVIOUS
  <2>1. w[1] \in 1..Len(out) /\ 1 \in 1..Len(out) /\ 1 < w[1]
    <3>1. w[1] \in 1..Len(out)
      BY <1>1, <1>6
    <3> QED BY <3>1
  <2>2. CASE \E i \in O : w[i] = 1
    <3>1. PICK i \in O : w[i] = 1
      BY <2>2
    <3>2. 1 < i
      BY <1>4, <1>5, <2>1, <3>1
    <3>3. w[1] < 1
      BY <1>1, <1>6, <3>1, <3>2
    <3> QED BY <2>1, <3>3
  <2>3. CASE \E k \in K : lo[k] <= 1 /\ 1 <= hi[k]
    <3>1. PICK k \in K : lo[k] <= 1
      BY <2>3
    <3>2. ~(spans[k].from <= 1 /\ 1 <= spans[k].to)
      BY <1>2, <1>6
    <3>3. 1 < spans[k].from
      BY <1>3, <1>4, <3>2
    <3>4. w[1] < lo[k] /\ lo[k] \in 1..Len(out)
      BY <1>1, <1>6, <3>3
    <3> QED BY <2>1, <3>1, <3>4
  <2> QED BY <1>1, <2>1, <2>2, <2>3
<1>7. ASSUME NEW i \in O, w[i] = 1 PROVE i = 1
  <2> SUFFICES ASSUME i # 1 PROVE FALSE
    OBVIOUS
  <2>1. 1 < i /\ 1 \in 1..n
    BY <1>4, <1>5
  <2>2. CASE 1 \in O
    <3>1. w[1] < w[i] /\ w[1] \in 1..Len(out)
      BY <1>1, <2>1, <2>2
    <3> QED BY <1>7, <3>1
  <2>3. CASE 1 \notin O
    <3>1. PICK k \in K : spans[k].from <= 1 /\ 1 <= spans[k].to
      BY <1>2, <2>1, <2>3
    <3>2. ~(spans[k].from <= i /\ i <= spans[k].to)
      BY <1>2
    <3>3. spans[k].to < i
      BY <1>3, <1>4, <1>5, <2>1, <3>1, <3>2
    <3>4. hi[k] < 1 /\ hi[k] \in 1..Len(out)
      BY <1>1, <1>7, <3>3
    <3> QED BY <3>4
  <2> QED BY <2>2, <2>3
<1>8. ASSUME NEW i \in O PROVE Content(out)[w[i]] = Content(body)[i]
  <2>1. w[i] \in 1..Len(out) /\ i \in 1..Len(body) /\ out[w[i]] = body[i]
    BY <1>1, <1>5 DEF n
  <2>2. w[i] = 1 <=> i = 1
    BY <1>6, <1>7
  <2>3. PICK x : x = w[i]
    OBVIOUS
  <2>4. Content(out)[x] = (IF x = 1 /\ out[1] = "BOM" THEN " " ELSE out[x])
    BY <2>1, <2>3, ContentAt
  <2>5. Content(body)[i] = (IF i = 1 /\ body[1] = "BOM" THEN " " ELSE body[i])
    BY <2>1, ContentAt
  <2> QED BY <2>1, <2>2, <2>3, <2>4, <2>5
<1>9. ASSUME NEW k \in K, lo[k] = 1 PROVE spans[k].from = 1
  <2> SUFFICES ASSUME spans[k].from # 1 PROVE FALSE
    OBVIOUS
  <2>1. 1 < spans[k].from /\ 1 \in 1..n
    BY <1>3, <1>4
  <2>2. 1 \notin O
    <3> SUFFICES ASSUME 1 \in O PROVE FALSE
      OBVIOUS
    <3>1. w[1] < 1 /\ w[1] \in 1..Len(out)
      BY <1>1, <1>9, <2>1
    <3> QED BY <3>1
  <2>3. PICK j \in K : spans[j].from <= 1 /\ 1 <= spans[j].to
    BY <1>2, <2>1, <2>2
  <2>4. ~(j < k)
    <3> SUFFICES ASSUME j < k PROVE FALSE
      OBVIOUS
    <3>1. hi[j] < 1 /\ hi[j] \in 1..Len(out)
      BY <1>1, <1>9
    <3> QED BY <3>1
  <2>5. ~(k < j)
    <3> SUFFICES ASSUME k < j PROVE FALSE
      OBVIOUS
    <3>1. spans[k].to < spans[j].from
      BY DEF AreCores
    <3> QED BY <1>3, <1>4, <2>1, <2>3, <3>1
  <2>6. j = k
    BY <1>3, <2>4, <2>5
  <2> QED BY <1>3, <1>4, <2>1, <2>3, <2>6
<1>10. ASSUME NEW k \in K, NEW q \in lo[k]..hi[k] PROVE Content(out)[q] = texts[k][q - lo[k] + 1]
  <2>1. lo[k] \in 1..Len(out) /\ hi[k] \in 1..Len(out)
    BY <1>1
  <2>2. PICK a, b : a = lo[k] /\ b = hi[k]
    OBVIOUS
  <2>3. q \in 1..Len(out) /\ out[q] = texts[k][q - a + 1] /\ a \in 1..Len(out) /\ q \in a..b
    BY <1>1, <2>1, <2>2, SMTT(15)
  <2>4. Content(out)[q] = (IF q = 1 /\ out[1] = "BOM" THEN " " ELSE out[q])
    BY <2>3, ContentAt
  <2>5. ~(q = 1 /\ out[1] = "BOM")
    <3> SUFFICES ASSUME q = 1 PROVE out[1] # "BOM"
      OBVIOUS
    <3>1. a = 1
      BY <2>3
    <3>2. texts[k][1] # "BOM"
      BY <1>9, <2>2, <3>1 DEF FitIn
    <3>3. q - a + 1 = 1
      BY <3>1
    <3> QED BY <2>3, <3>2, <3>3
  <2> QED BY <2>2, <2>3, <2>4, <2>5
<1> QED BY <1>8, <1>10 DEF O, n

\* Where the texts were put are the paragraphs of what was written.
LEMMA WovenParas ==
  ASSUME NEW body \in Seq(Lexemes), NEW out \in Seq(Lexemes), NEW spans, AreParas(Content(body), spans),
         NEW texts, FitIn(spans, texts), NEW w, NEW lo, NEW hi, Woven(body, spans, texts, out, w, lo, hi)
  PROVE  AreParas(Content(out), Moved(lo, hi, Len(spans)))
<1> DEFINE n == Len(body)
           N == Len(out)
           O == Outside(n, spans)
           m == Len(spans)
           K == 1..m
           t == Content(body)
           u == Content(out)
           new == Moved(lo, hi, m)
<1>1. /\ w \in [O -> 1..N] /\ lo \in [K -> 1..N] /\ hi \in [K -> 1..N]
      /\ \A k \in K : lo[k] <= hi[k] /\ Len(texts[k]) = hi[k] - lo[k] + 1
      /\ \A i, j \in O : i < j => w[i] < w[j]
      /\ \A j, k \in K : j < k => hi[j] < lo[k]
      /\ \A i \in O, k \in K : (i < spans[k].from => w[i] < lo[k]) /\ (spans[k].to < i => hi[k] < w[i])
      /\ \A q \in 1..N : (\E i \in O : w[i] = q) \/ (\E k \in K : lo[k] <= q /\ q <= hi[k])
  BY DEF Woven
<1>2. \A i : i \in O <=> i \in 1..n /\ \A k \in K : ~(spans[k].from <= i /\ i <= spans[k].to)
  BY DEF Outside
<1>3. AreCores(t, spans) /\ Len(t) = n /\ t \in Seq(Lexemes) /\ Len(u) = N
  BY ContentType DEF AreParas
<1>4. /\ m \in Nat
      /\ \A k \in K : /\ spans[k].from \in 1..n /\ spans[k].to \in 1..n /\ spans[k].from <= spans[k].to
  BY <1>3, CoresAre
<1>5. /\ \A i \in O : u[w[i]] = t[i]
      /\ \A k \in K : \A q \in lo[k]..hi[k] : u[q] = texts[k][q - lo[k] + 1]
  BY <1>3, WovenContent
<1>6. n \in Nat /\ N \in Nat
  OBVIOUS
<1>7. \A k \in K : new[k].from = lo[k] /\ new[k].to = hi[k] /\ new[k] = [from |-> lo[k], to |-> hi[k]]
  BY DEF Moved
<1>8. /\ \A k \in K : /\ t[spans[k].from] \notin White /\ t[spans[k].to] \notin White
                      /\ ~BlankLine(t, spans[k].from, spans[k].to)
      /\ \A j, k \in K : j < k => /\ spans[j].to < spans[k].from
                                  /\ BlankLine(t, spans[j].to, spans[k].from)
      /\ \A i \in 1..n : t[i] \notin White => \E k \in K : spans[k].from <= i /\ i <= spans[k].to
  BY <1>3 DEF AreParas, AreCores
<1>9. \A k \in K : texts[k] \in Seq(Lexemes) /\ Para(texts[k])
  BY DEF FitIn
<1>10. new \in Seq([from : 1..N, to : 1..N]) /\ Len(new) = m /\ DOMAIN new = K
  <2> DEFINE R == [from : 1..N, to : 1..N]
  <2>1. \A k \in K : [from |-> lo[k], to |-> hi[k]] \in R
    BY <1>1
  <2>2. new = [k \in 1..m |-> [from |-> lo[k], to |-> hi[k]]]
    BY DEF Moved
  <2> HIDE DEF R, new
  <2>3. new \in [1..m -> R]
    BY <2>1, <2>2
  <2>4. new \in Seq(R) /\ Len(new) = m
    BY <1>4, <2>3, SMTT(15)
  <2> QED BY <2>2, <2>4 DEF R
<1> HIDE DEF O, n, N, t, u, new, m
<1>11. ASSUME NEW k \in K
       PROVE  /\ u[lo[k]] \notin White /\ u[hi[k]] \notin White
              /\ ~BlankLine(u, lo[k], hi[k])
  <2>1. PICK a, b, x : a = lo[k] /\ b = hi[k] /\ x = texts[k]
    OBVIOUS
  <2>2. a \in 1..N /\ b \in 1..N /\ a <= b /\ Len(x) = b - a + 1 /\ x \in Seq(Lexemes)
    BY <1>1, <1>9, <2>1
  <2>3. \A q \in a..b : u[q] = x[q - a + 1]
    BY <1>5, <2>1
  <2>4. x[1] \notin White /\ x[Len(x)] \notin White /\ ~BlankLine(x, 1, Len(x))
    BY <1>9, <2>1 DEF Para
  <2>5. u[a] = x[1] /\ u[b] = x[Len(x)]
    <3>1. a \in a..b /\ b \in a..b /\ a - a + 1 = 1
      BY <1>6, <2>2
    <3> QED BY <2>2, <2>3, <3>1
  <2>6. ASSUME BlankLine(u, a, b) PROVE FALSE
    <3>1. PICK p \in a..b, q \in a..b : p < q /\ u[p] = "\n" /\ u[q] = "\n" /\ \A i \in p..q : u[i] \in White
      BY <2>6 DEF BlankLine
    <3>2. PICK c, d : c = p - a + 1 /\ d = q - a + 1
      OBVIOUS
    <3>3. c \in 1..Len(x) /\ d \in 1..Len(x) /\ c < d /\ x[c] = "\n" /\ x[d] = "\n"
      BY <2>2, <2>3, <3>1, <3>2, SMTT(15)
    <3>4. ASSUME NEW i \in c..d PROVE x[i] \in White
      <4>1. PICK z : z = i + a - 1
        OBVIOUS
      <4>2. z \in p..q /\ z \in a..b /\ z - a + 1 = i
        BY <2>2, <3>1, <3>2, <3>3, <4>1
      <4> QED BY <2>3, <3>1, <4>2
    <3>5. BlankLine(x, 1, Len(x))
      BY <3>3, <3>4 DEF BlankLine
    <3> QED BY <2>4, <3>5
  <2> QED BY <2>1, <2>4, <2>5, <2>6
<1>12. ASSUME NEW q \in 1..N, u[q] \notin White PROVE \E k \in K : lo[k] <= q /\ q <= hi[k]
  <2> SUFFICES ASSUME NEW i \in O, w[i] = q PROVE FALSE
    BY <1>1
  <2>1. t[i] \notin White
    BY <1>5, <1>12
  <2> QED BY <1>2, <1>8, <2>1
\* The line ends and the white space between two spans are outside all spans.
<1>13. ASSUME NEW j \in K, NEW k \in K, j < k PROVE BlankLine(u, hi[j], lo[k])
  <2>1. PICK a, b : a = spans[j].to /\ b = spans[k].from
    OBVIOUS
  <2>2. a \in 1..n /\ b \in 1..n /\ a < b /\ BlankLine(t, a, b) /\ t[a] \notin White /\ t[b] \notin White
    BY <1>4, <1>8, <1>13, <2>1
  <2>3. PICK p \in a..b, q \in a..b : p < q /\ t[p] = "\n" /\ t[q] = "\n" /\ \A i \in p..q : t[i] \in White
    BY <2>2 DEF BlankLine
  <2>4. p \in 1..n /\ q \in 1..n /\ a < p /\ q < b
    <3>1. "\n" \in White
      BY DEF White
    <3>2. p # a /\ q # b
      BY <2>2, <2>3, <3>1
    <3> QED BY <1>6, <2>2, <3>2
  <2>5. ASSUME NEW l \in K PROVE q < spans[l].from \/ spans[l].to < p
    <3> SUFFICES ASSUME ~(q < spans[l].from), ~(spans[l].to < p) PROVE FALSE
      OBVIOUS
    <3>1. PICK c, d : c = spans[l].from /\ d = spans[l].to
      OBVIOUS
    <3>2. c \in 1..n /\ d \in 1..n /\ c <= q /\ p <= d /\ c <= d
      BY <1>4, <1>6, <2>4, <3>1
    <3>3. t[c] \notin White /\ t[d] \notin White /\ ~BlankLine(t, c, d)
      BY <1>8, <3>1
    <3>4. c \notin p..q /\ d \notin p..q
      BY <2>3, <3>3
    <3>5. c < p /\ q < d
      BY <2>3, <2>4, <3>2, <3>4
    <3>6. p \in c..d /\ q \in c..d
      BY <2>3, <2>4, <3>2, <3>5
    <3>7. BlankLine(t, c, d)
      BY <2>3, <3>6 DEF BlankLine
    <3> QED BY <3>3, <3>7
  <2>6. \A i \in p..q : i \in O
    <3> SUFFICES ASSUME NEW i \in p..q PROVE i \in O
      OBVIOUS
    <3>1. i \in 1..n
      BY <1>6, <2>4
    <3>2. ASSUME NEW l \in K PROVE ~(spans[l].from <= i /\ i <= spans[l].to)
      <4>1. spans[l].from \in 1..n /\ spans[l].to \in 1..n
        BY <1>4
      <4> QED BY <2>4, <2>5, <4>1
    <3> QED BY <1>2, <3>1, <3>2
  <2>7. PICK x, y, c, d : x = w[p] /\ y = w[q] /\ c = hi[j] /\ d = lo[k]
    OBVIOUS
  <2>8. p \in O /\ q \in O
    <3>1. p \in p..q /\ q \in p..q
      BY <2>3, <2>4
    <3> QED BY <2>6, <3>1
  <2>9. x \in 1..N /\ y \in 1..N /\ c \in 1..N /\ d \in 1..N /\ x < y /\ c < x /\ y < d
    BY <1>1, <2>1, <2>3, <2>4, <2>7, <2>8
  <2>10. u[x] = "\n" /\ u[y] = "\n"
    BY <1>5, <2>3, <2>7, <2>8
  <2>11. ASSUME NEW z \in x..y PROVE u[z] \in White
    <3>1. z \in 1..N
      BY <1>6, <2>9
    <3>2. CASE \E i \in O : w[i] = z
      <4>1. PICK i \in O : w[i] = z
        BY <3>2
      <4>2. i \in 1..n
        BY <1>2
      <4>3. ~(i < p) /\ ~(q < i)
        <5>1. ASSUME i < p PROVE FALSE
          <6>1. z < x
            BY <1>1, <2>7, <2>8, <4>1, <5>1
          <6> QED BY <2>9, <3>1, <6>1
        <5>2. ASSUME q < i PROVE FALSE
          <6>1. y < z
            BY <1>1, <2>7, <2>8, <4>1, <5>2
          <6> QED BY <2>9, <3>1, <6>1
        <5> QED BY <5>1, <5>2
      <4>4. i \in p..q
        BY <2>4, <4>2, <4>3
      <4> QED BY <1>5, <2>3, <4>1, <4>4
    <3>3. CASE \E l \in K : lo[l] <= z /\ z <= hi[l]
      <4>1. PICK l \in K : lo[l] <= z /\ z <= hi[l]
        BY <3>3
      <4>2. lo[l] \in 1..N /\ hi[l] \in 1..N
        BY <1>1
      <4>3. CASE q < spans[l].from
        <5>1. y < lo[l]
          BY <1>1, <2>7, <2>8, <4>3
        <5> QED BY <2>9, <3>1, <4>1, <4>2, <5>1
      <4>4. CASE spans[l].to < p
        <5>1. hi[l] < x
          BY <1>1, <2>7, <2>8, <4>4
        <5> QED BY <2>9, <3>1, <4>1, <4>2, <5>1
      <4> QED BY <2>5, <4>3, <4>4
    <3> QED BY <1>1, <3>1, <3>2, <3>3
  <2>12. x \in c..d /\ y \in c..d
    BY <2>9
  <2>13. BlankLine(u, c, d)
    BY <2>9, <2>10, <2>11, <2>12 DEF BlankLine
  <2> QED BY <2>7, <2>13
<1>14. AreCores(u, new)
  BY <1>1, <1>3, <1>7, <1>10, <1>11, <1>12 DEF AreCores
<1>15. AreParas(u, new)
  BY <1>7, <1>10, <1>11, <1>13, <1>14 DEF AreParas
<1> QED BY <1>15 DEF u, new, m

\* Blocks follow one another, and every place of the whole is in one.
LEMMA BlocksInOrder ==
  ASSUME NEW seqs, Len(seqs) \in Nat, \A k \in 1..Len(seqs) : Len(seqs[k]) \in Nat,
         NEW flat, NEW off, Blocks(seqs, flat, off)
  PROVE  /\ \A i, j \in 0..Len(seqs) : i <= j => off[i] <= off[j]
         /\ \A x \in 1..off[Len(seqs)] : \E l \in 1..Len(seqs) : off[l - 1] < x /\ x <= off[l]
<1> DEFINE N == Len(seqs)
<1>1. /\ off[0] = 0 /\ \A i \in 0..N : off[i] \in Nat
      /\ \A k \in 1..N : off[k] = off[k - 1] + Len(seqs[k])
  BY DEF Blocks
<1>2. N \in Nat /\ \A k \in 1..N : Len(seqs[k]) \in Nat
  OBVIOUS
<1> HIDE DEF N
<1>3. ASSUME NEW i \in 0..N, i < N PROVE off[i] <= off[i + 1] /\ i + 1 \in 1..N /\ i + 1 \in 0..N /\ (i + 1) - 1 = i
  <2>1. i + 1 \in 1..N /\ i + 1 \in 0..N /\ (i + 1) - 1 = i
    BY <1>2, <1>3
  <2>2. PICK x, y, z : x = off[i] /\ y = off[i + 1] /\ z = Len(seqs[i + 1])
    OBVIOUS
  <2>3. x \in Nat /\ z \in Nat /\ y = x + z
    BY <1>1, <1>2, <2>1, <2>2
  <2> QED BY <2>1, <2>2, <2>3
<1>4. ASSUME NEW i \in 0..N, NEW j \in 0..N, i <= j PROVE off[i] <= off[j]
  <2> DEFINE T == {d \in Nat : i + d <= N => off[i] <= off[i + d]}
  <2>1. 0 \in T
    BY <1>1
  <2>2. ASSUME NEW d \in 0..N, d \in T PROVE d + 1 \in T
    <3> SUFFICES ASSUME i + (d + 1) <= N PROVE off[i] <= off[i + (d + 1)]
      BY <2>2
    <3>1. PICK e : e = i + d
      OBVIOUS
    <3>2. e \in 0..N /\ e < N /\ i + (d + 1) = e + 1 /\ i + d <= N
      BY <1>2, <3>1
    <3>3. off[i] <= off[e] /\ off[e] <= off[e + 1] /\ e + 1 \in 0..N
      BY <1>3, <2>2, <3>1, <3>2
    <3>4. PICK x, y, z : x = off[i] /\ y = off[e] /\ z = off[e + 1]
      OBVIOUS
    <3>5. x \in Nat /\ y \in Nat /\ z \in Nat /\ x <= y /\ y <= z
      BY <1>1, <3>2, <3>3, <3>4
    <3>6. x <= z
      BY <3>5
    <3> QED BY <3>2, <3>4, <3>6
  <2> HIDE DEF T
  <2>3. \A d \in 0..N : d \in T
    BY <1>2, <2>1, <2>2, Ascent
  <2>4. PICK d : d = j - i
    OBVIOUS
  <2>5. d \in 0..N /\ i + d = j /\ j <= N
    BY <1>2, <1>4, <2>4
  <2>6. d \in T
    BY <2>3, <2>5
  <2> QED BY <2>5, <2>6 DEF T
<1>5. ASSUME NEW x \in 1..off[N] PROVE \E l \in 1..N : off[l - 1] < x /\ x <= off[l]
  <2> SUFFICES ASSUME \A l \in 1..N : ~(off[l - 1] < x /\ x <= off[l]) PROVE FALSE
    OBVIOUS
  <2> DEFINE T == {i \in 0..N : off[i] < x}
  <2>0. N \in 0..N /\ 0 \in 0..N /\ off[N] \in Nat
    BY <1>1, <1>2
  <2>1. 0 \in T
    BY <1>1, <2>0
  <2>2. ASSUME NEW i \in 0..N, i \in T, i < N PROVE i + 1 \in T
    <3>1. i + 1 \in 1..N /\ i + 1 \in 0..N /\ (i + 1) - 1 = i
      BY <1>3, <2>2
    <3>2. ~(x <= off[i + 1])
      BY <2>2, <3>1
    <3> QED BY <1>1, <2>0, <3>1, <3>2
  <2> HIDE DEF T
  <2>3. \A i \in 0..N : i \in T
    BY <1>2, <2>1, <2>2, Ascent
  <2> QED BY <2>0, <2>3 DEF T
<1> QED BY <1>4, <1>5 DEF N

\* What export writes over the spans of a plain text.
TxtPath(body, k) == RangePath("txt", TxtSpans(body)[k])

TextsFor(body, merged) ==
  [k \in 1..Len(TxtSpans(body)) |->
     IF Asked(merged, TxtPath(body, k)) # {} THEN TargetAt(merged, TxtPath(body, k)) ELSE Slice(body, TxtSpans(body)[k])]

LEMMA TxtSpansAre ==
  ASSUME NEW body \in Seq(Lexemes)
  PROVE  AreParas(Content(body), TxtSpans(body))
<1> DEFINE t == Content(body)
<1>1. t \in Seq(Lexemes)
  BY ContentType
<1>2. TxtSpans(body) = [k \in DOMAIN ParagraphRanges(t) |-> Core(t, ParagraphRanges(t)[k])]
  BY DEF TxtSpans
<1> HIDE DEF t
<1>3. AreParas(t, TxtSpans(body))
  BY <1>1, <1>2, ParagraphsAreApart
<1> QED BY <1>3 DEF t

\* What is asked for are texts at paths of spans, one for a path.
AskedOfSpans(body, merged) ==
  /\ \A n \in DOMAIN merged : merged[n].target \in Seq(Lexemes)
  /\ \A n \in DOMAIN merged : \E k \in 1..Len(TxtSpans(body)) : merged[n].path = TxtPath(body, k)
  /\ \A j, k \in DOMAIN merged : merged[j].path = merged[k].path => j = k

\* What each place of a plain text becomes.
Places(body, merged, seqs) ==
  LET spans == TxtSpans(body)
      K == 1..Len(spans)
      texts == TextsFor(body, merged)
  IN  /\ seqs \in Seq(Seq(Lexemes)) /\ Len(seqs) = Len(body)
      /\ \A i \in Outside(Len(body), spans) : seqs[i] = <<body[i]>>
      /\ \A k \in K : IF Asked(merged, TxtPath(body, k)) # {}
                      THEN /\ seqs[spans[k].from] = texts[k]
                           /\ \A i \in spans[k].from + 1..spans[k].to : seqs[i] = <<>>
                      ELSE \A i \in spans[k].from..spans[k].to : seqs[i] = <<body[i]>>

LEMMA TxtPlaces ==
  ASSUME NEW body \in Seq(Lexemes), NEW merged, AskedOfSpans(body, merged)
  PROVE  \E seqs : /\ Places(body, merged, seqs)
                   /\ \A doc : /\ doc.kind = "txt" /\ doc.body = body
                               /\ RangeExport(doc, merged) # NotWritten
                               => RangeExport(doc, merged) = [doc EXCEPT !.body = FlattenSeq(seqs)]
<1> DEFINE spans == TxtSpans(body)
           K == 1..Len(spans)
           edit(n) == [from |-> merged[n].path[2], to |-> merged[n].path[3],
                       text |-> EscapedFor(merged[n].path[1], merged[n].target)]
           edits == {edit(n) : n \in DOMAIN merged}
           at(i) == {e \in edits : e.from <= i /\ i <= e.to}
           put(i) == IF at(i) = {} THEN <<body[i]>>
                     ELSE LET e == CHOOSE x \in at(i) : TRUE IN IF e.from = i THEN e.text ELSE <<>>
           seqs == [i \in 1..Len(body) |-> put(i)]
           texts == TextsFor(body, merged)
<1>1. AreCores(Content(body), spans) /\ Content(body) \in Seq(Lexemes) /\ Len(Content(body)) = Len(body)
  BY TxtSpansAre, ContentType DEF AreParas
<1>2. /\ Len(spans) \in Nat
      /\ \A k \in K : /\ spans[k].from \in 1..Len(body) /\ spans[k].to \in 1..Len(body)
                      /\ spans[k].from <= spans[k].to
  BY <1>1, CoresAre
<1>3. Spliced(body, edits) = FlattenSeq(seqs)
  <2>1. DOMAIN body = 1..Len(body)
    OBVIOUS
  <2> QED BY <2>1 DEF Spliced
<1>4. ASSUME NEW doc, doc.kind = "txt", doc.body = body, RangeExport(doc, merged) # NotWritten
      PROVE  RangeExport(doc, merged) = [doc EXCEPT !.body = FlattenSeq(seqs)]
  <2> HIDE DEF seqs
  <2> QED BY <1>3, <1>4 DEF RangeExport
<1> HIDE DEF spans
<1>5. ASSUME NEW n \in DOMAIN merged
      PROVE  \E k \in K : /\ edit(n).from = spans[k].from /\ edit(n).to = spans[k].to
                          /\ merged[n].path = TxtPath(body, k) /\ edit(n).text = merged[n].target
  <2>1. PICK k \in K : merged[n].path = TxtPath(body, k)
    BY DEF AskedOfSpans, spans
  <2>2. merged[n].path = <<"txt", spans[k].from, spans[k].to>>
    BY <2>1 DEF TxtPath, RangePath, spans
  <2>3. EscapedFor("txt", merged[n].target) = merged[n].target
    BY DEF EscapedFor
  <2>4. PICK a, b, p : a = spans[k].from /\ b = spans[k].to /\ p = merged[n].path
    OBVIOUS
  <2>5. p[1] = "txt" /\ p[2] = a /\ p[3] = b
    <3>1. p = <<"txt", a, b>>
      BY <2>2, <2>4
    <3> QED BY <3>1
  <2>6. edit(n) = [from |-> a, to |-> b, text |-> merged[n].target]
    BY <2>3, <2>4, <2>5
  <2> HIDE DEF edit
  <2> QED BY <2>1, <2>4, <2>6
<1>6. ASSUME NEW i \in 1..Len(body), NEW j \in K, NEW k \in K, spans[j].from <= i, i <= spans[j].to,
             spans[k].from <= i, i <= spans[k].to
      PROVE  j = k
  <2>1. PICK a, b, c, d : a = spans[j].from /\ b = spans[j].to /\ c = spans[k].from /\ d = spans[k].to
    OBVIOUS
  <2>2. a \in Nat /\ b \in Nat /\ c \in Nat /\ d \in Nat /\ i \in Nat /\ a <= i /\ i <= b /\ c <= i /\ i <= d
    BY <1>2, <1>6, <2>1
  <2>3. (j < k => b < c) /\ (k < j => d < a)
    BY <1>1, <2>1 DEF AreCores
  <2>4. ~(j < k) /\ ~(k < j)
    BY <2>2, <2>3
  <2> QED BY <1>2, <2>4
<1>7. ASSUME NEW i \in Outside(Len(body), spans) PROVE seqs[i] = <<body[i]>>
  <2>1. i \in 1..Len(body) /\ \A k \in K : ~(spans[k].from <= i /\ i <= spans[k].to)
    BY DEF Outside
  <2>2. at(i) = {}
    BY <1>5, <2>1
  <2> QED BY <2>1, <2>2
<1>8. ASSUME NEW k \in K, NEW i \in spans[k].from..spans[k].to
      PROVE  /\ i \in 1..Len(body)
             /\ Asked(merged, TxtPath(body, k)) = {} => seqs[i] = <<body[i]>>
             /\ Asked(merged, TxtPath(body, k)) # {} => seqs[i] = IF i = spans[k].from THEN texts[k] ELSE <<>>
  <2>1. i \in 1..Len(body) /\ spans[k].from <= i /\ i <= spans[k].to
    BY <1>2
  <2>2. ASSUME NEW n \in DOMAIN merged, edit(n).from <= i, i <= edit(n).to
        PROVE  n \in Asked(merged, TxtPath(body, k))
    <3>1. PICK j \in K : /\ edit(n).from = spans[j].from /\ edit(n).to = spans[j].to
                         /\ merged[n].path = TxtPath(body, j)
      BY <1>5
    <3>2. j = k
      BY <1>6, <2>1, <2>2, <3>1
    <3> QED BY <3>1, <3>2 DEF Asked
  <2>3. ASSUME Asked(merged, TxtPath(body, k)) = {} PROVE seqs[i] = <<body[i]>>
    <3>1. at(i) = {}
      BY <2>2, <2>3
    <3> QED BY <2>1, <3>1
  <2>4. ASSUME Asked(merged, TxtPath(body, k)) # {}
        PROVE  seqs[i] = IF i = spans[k].from THEN texts[k] ELSE <<>>
    <3>1. PICK n : n \in Asked(merged, TxtPath(body, k)) /\ TargetAt(merged, TxtPath(body, k)) = merged[n].target
      BY <2>4 DEF TargetAt
    <3>2. n \in DOMAIN merged /\ merged[n].path = TxtPath(body, k)
      BY <3>1 DEF Asked
    <3>3. PICK j \in K : /\ edit(n).from = spans[j].from /\ edit(n).to = spans[j].to
                         /\ merged[n].path = TxtPath(body, j) /\ edit(n).text = merged[n].target
      BY <1>5, <3>2
    <3>4. spans[j].from = spans[k].from /\ spans[j].to = spans[k].to
      BY <3>2, <3>3 DEF TxtPath, RangePath, spans
    <3>5. edit(n) \in at(i)
      BY <2>1, <3>2, <3>3, <3>4
    <3>6. ASSUME NEW e \in at(i) PROVE e = edit(n)
      <4>1. PICK l \in DOMAIN merged : e = edit(l) /\ edit(l).from <= i /\ i <= edit(l).to
        OBVIOUS
      <4>2. l \in Asked(merged, TxtPath(body, k))
        BY <2>2, <4>1
      <4>3. l = n
        BY <3>2, <4>1, <4>2 DEF Asked, AskedOfSpans
      <4> QED BY <4>1, <4>3
    <3>7. at(i) = {edit(n)}
      BY <3>5, <3>6
    <3> HIDE DEF at
    <3>8. (CHOOSE x \in at(i) : TRUE) = edit(n) /\ at(i) # {}
      BY <3>7
    <3>9. texts[k] = merged[n].target
      BY <2>4, <3>1 DEF TextsFor, spans
    <3>10. seqs[i] = IF edit(n).from = i THEN edit(n).text ELSE <<>>
      BY <2>1, <3>8
    <3> QED BY <3>3, <3>4, <3>9, <3>10
  <2> QED BY <2>1, <2>3, <2>4
<1>9. ASSUME NEW k \in K, Asked(merged, TxtPath(body, k)) # {} PROVE texts[k] \in Seq(Lexemes)
  <2>1. PICK n : n \in Asked(merged, TxtPath(body, k)) /\ TargetAt(merged, TxtPath(body, k)) = merged[n].target
    BY <1>9 DEF TargetAt
  <2>2. texts[k] = merged[n].target
    BY <1>9, <2>1 DEF TextsFor, spans
  <2> QED BY <2>1, <2>2 DEF Asked, AskedOfSpans
<1>10. ASSUME NEW i \in 1..Len(body) PROVE seqs[i] \in Seq(Lexemes)
  <2>1. body[i] \in Lexemes
    OBVIOUS
  <2> HIDE DEF seqs, texts
  <2>2. <<body[i]>> \in Seq(Lexemes) /\ <<>> \in Seq(Lexemes)
    BY <2>1
  <2>3. CASE i \in Outside(Len(body), spans)
    BY <1>7, <2>2, <2>3
  <2>4. CASE i \notin Outside(Len(body), spans)
    <3>1. PICK k \in K : spans[k].from <= i /\ i <= spans[k].to
      BY <2>4 DEF Outside
    <3>2. i \in spans[k].from..spans[k].to
      BY <1>2, <3>1
    <3>3. CASE Asked(merged, TxtPath(body, k)) = {}
      BY <1>8, <2>2, <3>2, <3>3
    <3>4. CASE Asked(merged, TxtPath(body, k)) # {}
      <4>1. seqs[i] = IF i = spans[k].from THEN texts[k] ELSE <<>>
        BY <1>8, <3>2, <3>4
      <4> QED BY <1>9, <2>2, <3>4, <4>1
    <3> QED BY <3>3, <3>4
  <2> QED BY <2>3, <2>4
<1>11. seqs \in Seq(Seq(Lexemes)) /\ Len(seqs) = Len(body)
  <2>1. seqs = [i \in 1..Len(body) |-> seqs[i]] /\ Len(body) \in Nat
    OBVIOUS
  <2> HIDE DEF seqs
  <2> DEFINE Q == Seq(Lexemes)
  <2>2. \A i \in 1..Len(body) : seqs[i] \in Q
    BY <1>10
  <2> HIDE DEF Q
  <2>3. seqs \in Seq(Q) /\ Len(seqs) = Len(body)
    BY <2>1, <2>2
  <2> QED BY <2>3 DEF Q
<1> HIDE DEF seqs, texts
<1>12. ASSUME NEW k \in K
       PROVE  IF Asked(merged, TxtPath(body, k)) # {}
              THEN /\ seqs[spans[k].from] = texts[k]
                   /\ \A i \in spans[k].from + 1..spans[k].to : seqs[i] = <<>>
              ELSE \A i \in spans[k].from..spans[k].to : seqs[i] = <<body[i]>>
  <2>1. PICK a, b : a = spans[k].from /\ b = spans[k].to
    OBVIOUS
  <2>2. a \in Nat /\ b \in Nat /\ a <= b
    BY <1>2, <2>1
  <2>3. a \in a..b /\ \A i \in a + 1..b : i \in a..b /\ i # a
    BY <2>2
  <2> QED BY <1>8, <2>1, <2>3
<1>13. Places(body, merged, seqs)
  BY <1>7, <1>11, <1>12 DEF Places, spans, texts
<1> QED BY <1>4, <1>13

\* One text at the first place of a span, or one lexeme at each.
FillsSpan(seqs, a, b, x) ==
  \/ seqs[a] = x /\ \A i \in a + 1..b : seqs[i] = <<>>
  \/ Len(x) = b - a + 1 /\ \A i \in a..b : seqs[i] = <<x[i - a + 1]>>

\* A span takes the places of its text in what is written.
LEMMA SpanPlaced ==
  ASSUME NEW seqs, NEW flat, NEW off, Blocks(seqs, flat, off), Len(seqs) \in Nat,
         NEW a, a \in 1..Len(seqs), NEW b, b \in 1..Len(seqs), a <= b, NEW x, Len(x) \in Nat, FillsSpan(seqs, a, b, x)
  PROVE  /\ off[b] = off[a - 1] + Len(x)
         /\ \A q \in off[a - 1] + 1..off[b] : flat[q] = x[q - off[a - 1]]
<1> DEFINE n == Len(seqs)
<1>1. /\ off \in [0..n -> Nat]
      /\ \A k \in 1..n : /\ off[k] = off[k - 1] + Len(seqs[k])
                         /\ \A j \in 1..Len(seqs[k]) : flat[off[k - 1] + j] = seqs[k][j]
  BY DEF Blocks
<1>0. n \in Nat /\ a \in 1..n /\ b \in 1..n /\ a <= b
  OBVIOUS
<1> HIDE DEF n
<1>2. PICK o, m, d : o = off[a - 1] /\ m = Len(x) /\ d = b - a
  OBVIOUS
<1>3. /\ o \in Nat /\ m \in Nat /\ d \in Nat /\ b = a + d
      /\ \A i \in 0..d : a + i \in 1..n /\ a + i \in a..b
  <2>1. a - 1 \in 0..n
    BY <1>0
  <2> QED BY <1>0, <1>1, <1>2, <2>1
<1>4. CASE seqs[a] = x /\ \A i \in a + 1..b : seqs[i] = <<>>
  <2> DEFINE T == {i \in Nat : i <= d => off[a + i] = o + m}
  <2>1. 0 \in T
    BY <1>0, <1>1, <1>2, <1>4, SMTT(15)
  <2>2. ASSUME NEW i \in 0..d, i \in T, i < d PROVE i + 1 \in T
    <3>1. PICK k : k = a + i + 1
      OBVIOUS
    <3>2. k \in 1..n /\ k \in a + 1..b /\ k - 1 = a + i /\ a + (i + 1) = k
      BY <1>3, <2>2, <3>1
    <3>3. off[k] = off[k - 1] + 0
      BY <1>1, <1>4, <3>2
    <3>4. off[k - 1] = o + m
      BY <2>2, <3>2
    <3>5. off[k] = o + m
      BY <1>3, <3>3, <3>4
    <3> QED BY <2>2, <3>2, <3>5
  <2> HIDE DEF T
  <2>3. \A i \in 0..d : i \in T
    BY <1>3, <2>1, <2>2, Ascent
  <2>4. d \in T
    BY <1>3, <2>3
  <2>5. off[b] = o + m
    BY <1>3, <2>4 DEF T
  <2>6. ASSUME NEW q \in o + 1..off[b] PROVE flat[q] = x[q - o]
    <3>1. q - o \in 1..m /\ o + (q - o) = q
      BY <1>3, <2>5
    <3>2. flat[o + (q - o)] = x[q - o]
      BY <1>0, <1>1, <1>2, <1>4, <3>1
    <3> QED BY <3>1, <3>2
  <2> QED BY <1>2, <2>5, <2>6
<1>5. CASE Len(x) = b - a + 1 /\ \A i \in a..b : seqs[i] = <<x[i - a + 1]>>
  <2> DEFINE T == {i \in Nat : i <= d => off[a + i] = o + i + 1}
  <2>0. \A i \in a..b : Len(seqs[i]) = 1 /\ seqs[i][1] = x[i - a + 1]
    <3> SUFFICES ASSUME NEW i \in a..b PROVE Len(seqs[i]) = 1 /\ seqs[i][1] = x[i - a + 1]
      OBVIOUS
    <3>1. PICK y : y = x[i - a + 1]
      OBVIOUS
    <3>2. seqs[i] = <<y>>
      BY <1>5, <3>1
    <3> QED BY <3>1, <3>2
  <2>1. 0 \in T
    <3>1. off[a] = o + 1
      <4>1. a \in a..b
        BY <1>0
      <4> QED BY <1>0, <1>1, <1>2, <2>0, <4>1
    <3> QED BY <1>3, <3>1
  <2>2. ASSUME NEW i \in 0..d, i \in T, i < d PROVE i + 1 \in T
    <3>1. PICK k : k = a + i + 1
      OBVIOUS
    <3>2. k \in 1..n /\ k \in a..b /\ k - 1 = a + i /\ a + (i + 1) = k
      BY <1>3, <2>2, <3>1
    <3>3. off[k] = off[k - 1] + 1
      BY <1>1, <2>0, <3>2
    <3>4. off[k - 1] = o + i + 1
      BY <2>2, <3>2
    <3>5. off[k] = o + (i + 1) + 1
      BY <1>3, <3>3, <3>4
    <3> QED BY <2>2, <3>2, <3>5
  <2> HIDE DEF T
  <2>3. \A i \in 0..d : i \in T
    BY <1>3, <2>1, <2>2, Ascent
  <2>4. \A i \in 0..d : off[a + i] = o + i + 1
    BY <2>3 DEF T
  <2>5. off[b] = o + m /\ m = d + 1
    <3>1. m = d + 1
      BY <1>2, <1>5
    <3>2. off[a + d] = o + d + 1
      BY <1>3, <2>4
    <3> QED BY <1>3, <3>1, <3>2
  <2>6. ASSUME NEW q \in o + 1..off[b] PROVE flat[q] = x[q - o]
    <3>1. PICK i, k : i = q - o - 1 /\ k = a + i
      OBVIOUS
    <3>2. i \in 0..d /\ k \in 1..n /\ k \in a..b /\ k - a + 1 = q - o /\ o + i + 1 = q /\ i \in Nat
      BY <1>3, <2>5, <3>1
    <3>3. off[k - 1] = o + i
      <4>1. CASE i = 0
        <5>1. k - 1 = a - 1 /\ o + i = o
          BY <1>3, <3>1, <4>1
        <5> QED BY <1>2, <5>1
      <4>2. CASE i # 0
        <5>1. i - 1 \in 0..d /\ k - 1 = a + (i - 1) /\ o + (i - 1) + 1 = o + i
          BY <1>3, <3>1, <3>2, <4>2
        <5> QED BY <2>4, <5>1
      <4> QED BY <4>1, <4>2
    <3>4. 1 \in 1..Len(seqs[k])
      BY <2>0, <3>2
    <3>5. flat[off[k - 1] + 1] = seqs[k][1]
      BY <1>1, <3>2, <3>4
    <3> QED BY <2>0, <3>2, <3>3, <3>5
  <2> QED BY <1>2, <2>5, <2>6
<1> QED BY <1>4, <1>5 DEF FillsSpan

\* What is written is woven of the texts and what is outside.
LEMMA PlacesWeave ==
  ASSUME NEW body \in Seq(Lexemes), NEW merged, FitIn(TxtSpans(body), TextsFor(body, merged)),
         NEW seqs, Places(body, merged, seqs)
  PROVE  /\ FlattenSeq(seqs) \in Seq(Lexemes)
         /\ \E w, lo, hi : Woven(body, TxtSpans(body), TextsFor(body, merged), FlattenSeq(seqs), w, lo, hi)
<1> DEFINE n == Len(body)
           spans == TxtSpans(body)
           K == 1..Len(spans)
           texts == TextsFor(body, merged)
           O == Outside(n, spans)
           flat == FlattenSeq(seqs)
<1>1. /\ seqs \in Seq(Seq(Lexemes)) /\ Len(seqs) = n
      /\ \A i \in O : seqs[i] = <<body[i]>>
      /\ \A k \in K : IF Asked(merged, TxtPath(body, k)) # {}
                      THEN /\ seqs[spans[k].from] = texts[k]
                           /\ \A i \in spans[k].from + 1..spans[k].to : seqs[i] = <<>>
                      ELSE \A i \in spans[k].from..spans[k].to : seqs[i] = <<body[i]>>
  BY DEF Places
<1>2. flat \in Seq(Lexemes) /\ \E off : Blocks(seqs, flat, off)
  BY <1>1, FlattenHasBlocks DEF FlattensInto
<1>3. PICK off : Blocks(seqs, flat, off)
  BY <1>2
<1>4. n \in Nat /\ \A k \in 1..n : Len(seqs[k]) \in Nat
  <2> DEFINE Q == Seq(Lexemes)
  <2>1. seqs \in Seq(Q) /\ \A y \in Q : Len(y) \in Nat
    BY <1>1
  <2> HIDE DEF Q
  <2>2. \A k \in 1..n : seqs[k] \in Q
    BY <1>1, <2>1
  <2> QED BY <2>1, <2>2
<1>5. /\ off \in [0..n -> Nat] /\ Len(flat) = off[n]
      /\ \A k \in 1..n : /\ off[k] = off[k - 1] + Len(seqs[k])
                         /\ \A j \in 1..Len(seqs[k]) : flat[off[k - 1] + j] = seqs[k][j]
  BY <1>1, <1>3 DEF Blocks
<1>6. /\ \A i, j \in 0..n : i <= j => off[i] <= off[j]
      /\ \A x \in 1..off[n] : \E l \in 1..n : off[l - 1] < x /\ x <= off[l]
  BY <1>1, <1>3, <1>4, BlocksInOrder
<1>7. AreCores(Content(body), spans) /\ Content(body) \in Seq(Lexemes) /\ Len(Content(body)) = n
  BY TxtSpansAre, ContentType DEF AreParas
<1>8. /\ Len(spans) \in Nat
      /\ \A k \in K : spans[k].from \in 1..n /\ spans[k].to \in 1..n /\ spans[k].from <= spans[k].to
  BY <1>7, CoresAre
<1>9. \A i : i \in O <=> i \in 1..n /\ \A k \in K : ~(spans[k].from <= i /\ i <= spans[k].to)
  BY DEF Outside
<1>10. \A k \in K : texts[k] \in Seq(Lexemes) /\ Para(texts[k])
  BY DEF FitIn
<1>11. \A k \in K : Asked(merged, TxtPath(body, k)) = {} => texts[k] = SubSeq(body, spans[k].from, spans[k].to)
  BY DEF TextsFor, Slice
<1> DEFINE w == [i \in O |-> off[i]]
           lo == [k \in K |-> off[spans[k].from - 1] + 1]
           hi == [k \in K |-> off[spans[k].to]]
<1> HIDE DEF n, spans, texts, O, flat
<1>12. ASSUME NEW k \in K
       PROVE  /\ off[spans[k].to] = off[spans[k].from - 1] + Len(texts[k]) /\ Len(texts[k]) \in Nat \ {0}
              /\ \A q \in off[spans[k].from - 1] + 1..off[spans[k].to] :
                   flat[q] = texts[k][q - off[spans[k].from - 1]]
  <2>1. PICK a, b, x : a = spans[k].from /\ b = spans[k].to /\ x = texts[k]
    OBVIOUS
  <2>2. a \in 1..n /\ b \in 1..n /\ a <= b
    BY <1>8, <2>1
  <2>3. x \in Seq(Lexemes) /\ x # <<>>
    BY <1>10, <2>1 DEF Para
  <2>4. Len(x) \in Nat \ {0}
    BY <2>3
  <2>5. FillsSpan(seqs, a, b, x)
    <3>1. CASE Asked(merged, TxtPath(body, k)) # {}
      BY <1>1, <2>1, <3>1 DEF FillsSpan
    <3>2. CASE Asked(merged, TxtPath(body, k)) = {}
      <4>1. x = SubSeq(body, a, b) /\ \A i \in a..b : seqs[i] = <<body[i]>>
        BY <1>1, <1>11, <2>1, <3>2
      <4>2. Len(x) = b - a + 1 /\ \A i \in a..b : x[i - a + 1] = body[i]
        BY <2>2, <4>1 DEF n
      <4> QED BY <4>1, <4>2 DEF FillsSpan
    <3> QED BY <3>1, <3>2
  <2>6. /\ off[b] = off[a - 1] + Len(x)
        /\ \A q \in off[a - 1] + 1..off[b] : flat[q] = x[q - off[a - 1]]
    <3>1. Len(seqs) \in Nat /\ Len(x) \in Nat /\ a \in 1..Len(seqs) /\ b \in 1..Len(seqs)
      BY <1>1, <1>4, <2>2, <2>4
    <3> QED BY <1>3, <2>2, <2>5, <3>1, SpanPlaced, SMTT(15)
  <2> QED BY <2>1, <2>4, <2>6
<1>13. ASSUME NEW i \in O
       PROVE  i \in 1..n /\ i \in 0..n /\ i - 1 \in 0..n /\ off[i] = off[i - 1] + 1 /\ flat[off[i]] = body[i]
  <2>1. i \in 1..n /\ i \in 0..n /\ i - 1 \in 0..n
    BY <1>4, <1>9
  <2>2. seqs[i] = <<body[i]>>
    BY <1>1
  <2>3. Len(seqs[i]) = 1 /\ 1 \in 1..Len(seqs[i]) /\ seqs[i][1] = body[i]
    BY <2>2
  <2> QED BY <1>5, <2>1, <2>3, ZenonT(20)
<1>14. ASSUME NEW k \in K
       PROVE  /\ spans[k].from - 1 \in 0..n /\ spans[k].to \in 0..n /\ lo[k] = off[spans[k].from - 1] + 1
              /\ lo[k] \in 1..off[n] /\ hi[k] = off[spans[k].to] /\ hi[k] \in 1..off[n]
              /\ lo[k] <= hi[k] /\ Len(texts[k]) = hi[k] - lo[k] + 1
  <2>1. PICK a, b, x, y, z, v : /\ a = spans[k].from /\ b = spans[k].to /\ x = off[a - 1] /\ y = off[b]
                                /\ z = Len(texts[k]) /\ v = off[n]
    OBVIOUS
  <2>2. a - 1 \in 0..n /\ b \in 0..n /\ n \in 0..n
    BY <1>4, <1>8, <2>1
  <2>3. x \in Nat /\ y \in Nat /\ v \in Nat /\ z \in Nat \ {0} /\ y = x + z /\ y <= v
    BY <1>5, <1>6, <1>12, <2>1, <2>2
  <2>4. lo[k] = x + 1 /\ hi[k] = y
    BY <2>1
  <2>5. lo[k] \in 1..v /\ hi[k] \in 1..v /\ lo[k] <= hi[k] /\ z = hi[k] - lo[k] + 1
    BY <2>3, <2>4
  <2> QED BY <2>1, <2>2, <2>4, <2>5
<1>15. ASSUME NEW k \in K, NEW q \in lo[k]..hi[k] PROVE flat[q] = texts[k][q - lo[k] + 1]
  <2>1. PICK x : x = off[spans[k].from - 1]
    OBVIOUS
  <2>2. x \in Nat /\ lo[k] = x + 1 /\ hi[k] = off[spans[k].to] /\ hi[k] \in Nat
    BY <1>4, <1>5, <1>14, <2>1
  <2>3. q \in x + 1..off[spans[k].to] /\ q - x = q - lo[k] + 1
    BY <2>2, SMTT(15)
  <2> QED BY <1>12, <2>1, <2>3
<1>16. \A i \in O : w[i] = off[i]
  OBVIOUS
<1>17. w \in [O -> 1..off[n]]
  <2>1. ASSUME NEW i \in O PROVE off[i] \in 1..off[n]
    <3>1. PICK x, y, v : x = off[i - 1] /\ y = off[i] /\ v = off[n]
      OBVIOUS
    <3>2. x \in Nat /\ y \in Nat /\ v \in Nat /\ y = x + 1 /\ y <= v
      <4>1. n \in 0..n
        BY <1>4
      <4> QED BY <1>4, <1>5, <1>6, <1>13, <3>1, <4>1
    <3> QED BY <3>1, <3>2
  <2> QED BY <2>1
<1>18. lo \in [K -> 1..off[n]] /\ hi \in [K -> 1..off[n]]
  BY <1>14
<1> HIDE DEF w, lo, hi
\* The end of one thing is before the next begins.
<1>19. ASSUME NEW i \in 0..n, NEW j \in 1..n, i < j PROVE j - 1 \in 0..n /\ off[i] <= off[j - 1]
  <2>1. j - 1 \in 0..n /\ i <= j - 1
    BY <1>4, <1>19
  <2> QED BY <1>6, <2>1
<1>20. \A i \in 0..n : off[i] \in Nat
  BY <1>5
<1>21. ASSUME NEW i \in O, NEW j \in O, i < j PROVE w[i] < w[j]
  <2>1. off[i] <= off[j - 1] /\ off[j] = off[j - 1] + 1
    BY <1>13, <1>19, <1>21
  <2> QED BY <1>13, <1>16, <1>20, <2>1
<1>22. ASSUME NEW j \in K, NEW k \in K, j < k PROVE hi[j] < lo[k]
  <2>1. spans[j].to < spans[k].from
    BY <1>7, <1>22 DEF AreCores
  <2>2. off[spans[j].to] <= off[spans[k].from - 1]
    BY <1>8, <1>14, <1>19, <2>1
  <2> QED BY <1>14, <1>20, <2>2
<1>23. ASSUME NEW i \in O, NEW k \in K
       PROVE  (i < spans[k].from => w[i] < lo[k]) /\ (spans[k].to < i => hi[k] < w[i])
  <2>1. ASSUME i < spans[k].from PROVE w[i] < lo[k]
    <3>1. off[i] <= off[spans[k].from - 1]
      BY <1>8, <1>13, <1>19, <2>1
    <3> QED BY <1>13, <1>14, <1>16, <1>20, <3>1
  <2>2. ASSUME spans[k].to < i PROVE hi[k] < w[i]
    <3>1. off[spans[k].to] <= off[i - 1] /\ off[i] = off[i - 1] + 1
      BY <1>13, <1>14, <1>19, <2>2
    <3> QED BY <1>13, <1>14, <1>16, <1>20, <3>1
  <2> QED BY <2>1, <2>2
<1>24. ASSUME NEW q \in 1..off[n] PROVE (\E i \in O : w[i] = q) \/ (\E k \in K : lo[k] <= q /\ q <= hi[k])
  <2>1. PICK l \in 1..n : off[l - 1] < q /\ q <= off[l]
    BY <1>6
  <2>2. CASE l \in O
    <3>1. off[l] = off[l - 1] + 1 /\ off[l - 1] \in Nat
      BY <1>13, <1>20, <2>2
    <3>2. off[l] = q
      BY <2>1, <3>1
    <3> QED BY <1>16, <2>2, <3>2
  <2>3. CASE l \notin O
    <3>1. PICK k \in K : spans[k].from <= l /\ l <= spans[k].to
      BY <1>9, <2>3
    <3>2. PICK a, b : a = spans[k].from /\ b = spans[k].to
      OBVIOUS
    <3>3. a - 1 \in 0..n /\ b \in 0..n /\ l - 1 \in 0..n /\ l \in 0..n /\ a - 1 <= l - 1 /\ l <= b
      BY <1>4, <1>8, <3>1, <3>2
    <3>4. off[a - 1] <= off[l - 1] /\ off[l] <= off[b]
      BY <1>6, <3>3
    <3>5. PICK x, y, z, v : x = off[a - 1] /\ y = off[l - 1] /\ z = off[l] /\ v = off[b]
      OBVIOUS
    <3>6. x \in Nat /\ y \in Nat /\ z \in Nat /\ v \in Nat
      BY <1>20, <3>3, <3>5
    <3>7. x + 1 <= q /\ q <= v
      BY <2>1, <3>4, <3>5, <3>6, SMTT(15)
    <3>8. lo[k] = x + 1 /\ hi[k] = v
      BY <1>14, <3>2, <3>5
    <3> QED BY <3>7, <3>8
  <2> QED BY <2>2, <2>3
<1>25. Woven(body, spans, texts, flat, w, lo, hi)
  <2>1. \A i \in O : flat[w[i]] = body[i]
    BY <1>13, <1>16
  <2>2. \A k \in K : /\ lo[k] <= hi[k] /\ Len(texts[k]) = hi[k] - lo[k] + 1
                     /\ \A q \in lo[k]..hi[k] : flat[q] = texts[k][q - lo[k] + 1]
    BY <1>14, <1>15
  <2> QED BY <1>5, <1>17, <1>18, <1>21, <1>22, <1>23, <1>24, <2>1, <2>2 DEF Woven, O, n
<1>26. \E x, y, z : Woven(body, spans, texts, flat, x, y, z)
  BY <1>25
<1> QED BY <1>2, <1>26 DEF spans, texts, flat

\* One line end at most.
OneBreak(s) == \A p, q \in 1..Len(s) : s[p] = "\n" /\ s[q] = "\n" => p = q

\* Part of a text, from something to translate to something to translate, without a blank line.
LEMMA ParaSlice ==
  ASSUME NEW L, NEW t \in Seq(L), NEW a \in 1..Len(t), NEW b \in 1..Len(t), a <= b,
         t[a] \notin White, t[b] \notin White, ~BlankLine(t, a, b)
  PROVE  /\ SubSeq(t, a, b) \in Seq(L) /\ Para(SubSeq(t, a, b)) /\ SubSeq(t, a, b)[1] = t[a]
<1> DEFINE s == SubSeq(t, a, b)
<1>1. /\ s \in Seq(L) /\ Len(s) = b - a + 1 /\ \A i \in 1..Len(s) : s[i] = t[a + i - 1]
  OBVIOUS
<1> HIDE DEF s
<1>2. PICK n : n = b - a + 1
  OBVIOUS
<1>3. n \in Nat \ {0} /\ Len(s) = n /\ 1 \in 1..n /\ n \in 1..n /\ a + 1 - 1 = a /\ a + n - 1 = b
  BY <1>1, <1>2
<1>4. s[1] = t[a] /\ s[n] = t[b] /\ s # <<>>
  BY <1>1, <1>3
<1>5. ASSUME BlankLine(s, 1, n) PROVE FALSE
  <2>1. PICK p \in 1..n, q \in 1..n : p < q /\ s[p] = "\n" /\ s[q] = "\n" /\ \A i \in p..q : s[i] \in White
    BY <1>5 DEF BlankLine
  <2>2. PICK c, d : c = a + p - 1 /\ d = a + q - 1
    OBVIOUS
  <2>3. c \in a..b /\ d \in a..b /\ c < d
    BY <1>2, <1>3, <2>1, <2>2
  <2>4. t[c] = "\n" /\ t[d] = "\n"
    BY <1>1, <1>3, <2>1, <2>2
  <2>5. ASSUME NEW x \in c..d PROVE t[x] \in White
    <3>1. PICK i : i = x - a + 1
      OBVIOUS
    <3>2. i \in p..q /\ i \in 1..n /\ a + i - 1 = x
      BY <1>2, <1>3, <2>1, <2>2, <3>1
    <3>3. s[i] = t[a + i - 1] /\ s[i] \in White
      BY <1>1, <1>3, <2>1, <3>2
    <3> QED BY <3>2, <3>3
  <2> QED BY <2>3, <2>4, <2>5 DEF BlankLine
<1> QED BY <1>1, <1>3, <1>4, <1>5 DEF Para, s

\* A text behind another, with something between.
With(x, g, y) == x \o (g \o y)

\* Two paragraphs on one line, or on two, are one.
LEMMA ParaJoin ==
  ASSUME NEW L, NEW x \in Seq(L), NEW g \in Seq(L), NEW y \in Seq(L),
         Para(x), Para(y), Blank(g), OneBreak(g), NEW z, z = With(x, g, y)
  PROVE  Para(z) /\ z[1] = x[1]
<1>1. PICK a, b, c : a = Len(x) /\ b = Len(g) /\ c = Len(y)
  OBVIOUS
<1>2. a \in Nat /\ b \in Nat /\ c \in Nat /\ a # 0 /\ c # 0
  BY <1>1 DEF Para
<1>3. /\ z \in Seq(L) /\ Len(z) = a + b + c
      /\ \A i \in 1..a : z[i] = x[i]
      /\ \A i \in 1..b : z[a + i] = g[i]
      /\ \A i \in 1..c : z[a + b + i] = y[i]
  <2>1. PICK h : h = g \o y
    OBVIOUS
  <2>2. /\ h \in Seq(L) /\ Len(h) = b + c /\ (\A i \in 1..b : h[i] = g[i]) /\ \A i \in 1..c : h[b + i] = y[i]
    BY <1>1, <1>2, <2>1
  <2>3. /\ x \o h \in Seq(L) /\ Len(x \o h) = a + (b + c) /\ (\A i \in 1..a : (x \o h)[i] = x[i])
        /\ \A i \in 1..b + c : (x \o h)[a + i] = h[i]
    <3>1. PICK d : d = b + c
      OBVIOUS
    <3>2. x \in Seq(L) /\ Len(x) = a /\ h \in Seq(L) /\ Len(h) = d /\ d \in Nat
      BY <1>1, <1>2, <2>2, <3>1
    <3>3. /\ x \o h \in Seq(L) /\ Len(x \o h) = a + d /\ (\A i \in 1..a : (x \o h)[i] = x[i])
          /\ \A i \in 1..d : (x \o h)[a + i] = h[i]
      <4>1. x \o h \in Seq(L) /\ Len(x \o h) = a + d
        BY <3>2, ConcatProperties
      <4>2. \A i \in 1..a + d : (x \o h)[i] = IF i <= a THEN x[i] ELSE h[i - a]
        BY <3>2, ConcatProperties
      <4>3. \A i \in 1..a : (x \o h)[i] = x[i]
        BY <1>2, <3>2, <4>2
      <4>4. ASSUME NEW i \in 1..d PROVE (x \o h)[a + i] = h[i]
        <5>1. a + i \in 1..a + d /\ ~(a + i <= a) /\ (a + i) - a = i
          BY <1>2, <3>2
        <5> QED BY <4>2, <5>1
      <4> QED BY <4>1, <4>3, <4>4
    <3> QED BY <3>1, <3>3
  <2>4. \A i \in 1..c : b + i \in 1..b + c /\ a + (b + i) = a + b + i
    BY <1>2
  <2>5. \A i \in 1..b : i \in 1..b + c
    BY <1>2
  <2>6. z = x \o h
    BY <2>1 DEF With
  <2>7. z \in Seq(L) /\ Len(z) = a + b + c
    <3>1. z \in Seq(L) /\ Len(z) = a + (b + c)
      BY <2>3, <2>6
    <3>2. a + (b + c) = a + b + c
      BY <1>2
    <3> QED BY <3>1, <3>2
  <2>8. \A i \in 1..c : z[a + b + i] = y[i]
    BY <2>2, <2>3, <2>4, <2>6
  <2>9. \A i \in 1..b : z[a + i] = g[i]
    BY <2>2, <2>3, <2>5, <2>6
  <2> QED BY <2>3, <2>6, <2>7, <2>8, <2>9
<1>4. /\ x[1] \notin White /\ x[a] \notin White /\ y[1] \notin White /\ y[c] \notin White
      /\ ~BlankLine(x, 1, a) /\ ~BlankLine(y, 1, c)
  BY <1>1 DEF Para
<1>5. \A i \in 1..b : g[i] \in White
  <2>1. DOMAIN g = 1..b
    BY <1>1
  <2> QED BY <2>1 DEF Blank
<1>6. z[1] = x[1] /\ z[a] \notin White /\ z[a + b + 1] \notin White /\ z[a + b + c] \notin White /\ z # <<>>
  <2>1. 1 \in 1..a /\ a \in 1..a /\ 1 \in 1..c /\ c \in 1..c /\ a + b + c # 0
    BY <1>2
  <2> QED BY <1>3, <1>4, <2>1
<1>7. ASSUME BlankLine(z, 1, a + b + c) PROVE FALSE
  <2>1. PICK p \in 1..a + b + c, q \in 1..a + b + c :
          p < q /\ z[p] = "\n" /\ z[q] = "\n" /\ \A i \in p..q : z[i] \in White
    BY <1>7 DEF BlankLine
  <2>2. ~(p <= a /\ a <= q) /\ ~(p <= a + b + 1 /\ a + b + 1 <= q)
    <3>1. p \in Nat /\ q \in Nat
      BY <1>2, <2>1
    <3>2. ~(a \in p..q) /\ ~(a + b + 1 \in p..q)
      BY <1>6, <2>1
    <3> QED BY <1>2, <3>1, <3>2
  <2>3. CASE q < a
    <3>1. p \in 1..a /\ q \in 1..a /\ \A i \in p..q : i \in 1..a
      BY <1>2, <2>1, <2>3
    <3>2. x[p] = "\n" /\ x[q] = "\n" /\ \A i \in p..q : x[i] \in White
      BY <1>3, <2>1, <3>1
    <3>3. BlankLine(x, 1, a)
      BY <2>1, <3>1, <3>2 DEF BlankLine
    <3> QED BY <1>4, <3>3
  <2>4. CASE a < p /\ q <= a + b
    <3>1. PICK i, j : i = p - a /\ j = q - a
      OBVIOUS
    <3>2. i \in 1..b /\ j \in 1..b /\ a + i = p /\ a + j = q /\ i # j
      BY <1>2, <2>1, <2>4, <3>1
    <3>3. g[i] = "\n" /\ g[j] = "\n"
      BY <1>3, <2>1, <3>2
    <3> QED BY <1>1, <3>2, <3>3 DEF OneBreak
  <2>5. CASE a + b + 1 < p
    <3>1. PICK i, j : i = p - (a + b) /\ j = q - (a + b)
      OBVIOUS
    <3>2. /\ i \in 1..c /\ j \in 1..c /\ a + b + i = p /\ a + b + j = q /\ i < j
          /\ \A v \in i..j : v \in 1..c /\ a + b + v \in p..q
      BY <1>2, <2>1, <2>5, <3>1
    <3>3. y[i] = "\n" /\ y[j] = "\n" /\ \A v \in i..j : y[v] \in White
      BY <1>3, <2>1, <3>2
    <3>4. BlankLine(y, 1, c)
      BY <3>2, <3>3 DEF BlankLine
    <3> QED BY <1>4, <3>4
  <2> QED BY <1>2, <2>1, <2>2, <2>3, <2>4, <2>5
<1> QED BY <1>3, <1>4, <1>6, <1>7 DEF Para

\* White space, one line end at most, and a paragraph, in turns.
Alternate(L, seqs, gap, x) ==
  /\ \A j \in 1..Len(seqs) : /\ seqs[j] = gap[j] \o x[j] /\ gap[j] \in Seq(L) /\ x[j] \in Seq(L)
                             /\ Blank(gap[j]) /\ OneBreak(gap[j]) /\ Para(x[j])
  /\ gap[1] = <<>>

\* Paragraphs with white space between them, one line end at most, are one when put together.
LEMMA ParasJoin ==
  ASSUME NEW L, NEW seqs \in Seq(Seq(L)), Len(seqs) # 0, NEW gap, NEW x,
         Alternate(L, seqs, gap, x)
  PROVE  Para(FlattenSeq(seqs)) /\ FlattenSeq(seqs)[1] = x[1][1]
<1> DEFINE N == Len(seqs)
<1>1. PICK g : JoinsUp(N, seqs, g) /\ \A i \in 1..N : g[i] \in Seq(L)
  BY JoinExists
<1>2. N \in Nat /\ N # 0 /\ 1 \in 1..N
  OBVIOUS
<1>3. \A j \in 1..N : /\ seqs[j] = gap[j] \o x[j] /\ gap[j] \in Seq(L) /\ x[j] \in Seq(L)
                      /\ Blank(gap[j]) /\ OneBreak(gap[j]) /\ Para(x[j])
  BY DEF Alternate
<1>8. FlattenSeq(seqs) = g[N]
  BY <1>1, <1>2, FlattenIs
<1> HIDE DEF N
<1>4. g[1] = x[1]
  <2>1. PICK y : y = x[1]
    OBVIOUS
  <2>2. y \in Seq(L) /\ seqs[1] = <<>> \o y
    BY <1>2, <1>3, <2>1 DEF Alternate
  <2>3. <<>> \o y = y
    <3>1. Len(<<>> \o y) = Len(y) /\ \A i \in 1..Len(y) : (<<>> \o y)[i] = y[i]
      BY <2>2
    <3>2. <<>> \o y \in Seq(L)
      BY <2>2
    <3> QED BY <2>2, <3>1, <3>2
  <2> QED BY <1>1, <2>1, <2>2, <2>3 DEF JoinsUp
<1> DEFINE T == {i \in 0..N : i # 0 => Para(g[i]) /\ g[i][1] = x[1][1]}
<1>5. 0 \in T
  BY <1>2
<1>6. ASSUME NEW i \in 0..N, i \in T, i < N PROVE i + 1 \in T
  <2>0. i \in Int /\ i >= 0 /\ i < N
    BY <1>6
  <2>1. i + 1 \in 1..N /\ i + 1 \in 0..N /\ (i + 1) - 1 = i
    BY <1>2, <2>0
  <2>2. CASE i = 0
    <3>1. Para(x[1]) /\ g[1][1] = x[1][1]
      BY <1>2, <1>3, <1>4
    <3>2. Para(g[1]) /\ i + 1 = 1
      BY <1>4, <2>2, <3>1
    <3> QED BY <2>1, <3>1, <3>2
  <2>3. CASE i # 0
    <3>1. i \in 1..N /\ i + 1 # 1 /\ Para(g[i]) /\ g[i][1] = x[1][1] /\ g[i] \in Seq(L)
      BY <1>1, <1>2, <1>6, <2>3
    <3>2. g[i + 1] = g[i] \o seqs[i + 1]
      BY <1>1, <2>1, <3>1 DEF JoinsUp
    <3>3. PICK u, v, w : u = g[i] /\ v = gap[i + 1] /\ w = x[i + 1]
      OBVIOUS
    <3>4. /\ u \in Seq(L) /\ v \in Seq(L) /\ w \in Seq(L) /\ Para(u) /\ Para(w) /\ Blank(v) /\ OneBreak(v)
      BY <1>3, <2>1, <3>1, <3>2, <3>3
    <3>5. PICK r : r = g[i + 1] /\ r = With(u, v, w)
      BY <1>3, <2>1, <3>2, <3>3 DEF With
    <3>6. Para(r) /\ r[1] = u[1]
      BY <3>4, <3>5, ParaJoin
    <3> QED BY <2>1, <3>1, <3>3, <3>5, <3>6
  <2> QED BY <2>2, <2>3
<1> HIDE DEF T
<1>7. \A i \in 0..N : i \in T
  BY <1>2, <1>5, <1>6, Ascent
<1> QED BY <1>2, <1>7, <1>8 DEF T

\* The white space between two parts of a paragraph has one line end at most.
LEMMA GapsInPara ==
  ASSUME NEW L, NEW t \in Seq(L), Para(t), NEW cores, AreCores(t, cores), NEW k \in 1..Len(cores)
  PROVE  /\ Gap(t, cores, k) \in Seq(L) /\ Blank(Gap(t, cores, k)) /\ OneBreak(Gap(t, cores, k))
         /\ k = 1 => Gap(t, cores, k) = <<>> /\ cores[1].from = 1
<1> DEFINE n == Len(t)
           N == Len(cores)
<1>1. n \in Nat /\ n # 0 /\ N \in Nat /\ t[1] \notin White /\ ~BlankLine(t, 1, n)
  BY CoresAre DEF Para
<1>2. \A j \in 1..N : cores[j].from \in 1..n /\ cores[j].to \in 1..n
  BY CoresAre
<1>3. Gap(t, cores, k) \in Seq(L) /\ Blank(Gap(t, cores, k))
  BY GapIsBlank
<1>4. PICK a, b, s : a = (IF k = 1 THEN 0 ELSE cores[k - 1].to) /\ b = cores[k].from /\ s = Gap(t, cores, k)
  OBVIOUS
<1>5. k - 1 \in 1..N \/ k = 1
  BY <1>1
<1>6. a \in 0..n /\ b \in 1..n
  BY <1>1, <1>2, <1>4, <1>5
<1>7. s = SubSeq(t, a + 1, b - 1)
  BY <1>4 DEF Gap
<1>8. Len(s) \in Nat /\ \A i \in 1..Len(s) : s[i] = t[a + i] /\ a + i \in 1..n
  <2>1. a + 1 \in Nat /\ b - 1 \in Nat
    BY <1>6
  <2>2. Len(s) = IF a + 1 <= b - 1 THEN (b - 1) - (a + 1) + 1 ELSE 0
    BY <1>1, <1>6, <1>7
  <2>3. \A i \in 1..Len(s) : s[i] = t[(a + 1) + i - 1]
    BY <1>1, <1>6, <1>7, <2>2
  <2>4. \A i \in 1..Len(s) : (a + 1) + i - 1 = a + i /\ a + i \in 1..n
    BY <1>1, <1>6, <2>2
  <2> QED BY <1>6, <2>2, <2>3, <2>4
<1> HIDE DEF n, N
<1>9. ASSUME NEW p \in 1..Len(s), NEW q \in 1..Len(s), s[p] = "\n", s[q] = "\n", p < q PROVE FALSE
  <2>1. PICK c, d : c = a + p /\ d = a + q
    OBVIOUS
  <2>2. c \in 1..n /\ d \in 1..n /\ c < d /\ t[c] = "\n" /\ t[d] = "\n"
    BY <1>6, <1>8, <1>9, <2>1
  <2>3. ASSUME NEW i \in c..d PROVE t[i] \in White
    <3>1. PICK v : v = i - a
      OBVIOUS
    <3>2. v \in 1..Len(s) /\ a + v = i
      BY <1>6, <1>8, <2>1, <3>1
    <3>3. s[v] \in White
      <4>1. v \in DOMAIN s
        BY <1>3, <1>4, <3>2
      <4> QED BY <1>3, <1>4, <4>1 DEF Blank
    <3> QED BY <1>8, <3>2, <3>3
  <2>4. BlankLine(t, 1, n)
    BY <2>2, <2>3 DEF BlankLine
  <2> QED BY <1>1, <2>4
<1>10. OneBreak(s)
  BY <1>8, <1>9 DEF OneBreak
<1>11. ASSUME k = 1 PROVE s = <<>> /\ cores[1].from = 1
  <2>1. PICK j \in 1..N : cores[j].from <= 1 /\ 1 <= cores[j].to
    BY <1>1, SMTT(15) DEF AreCores, n, N
  <2>2. j = 1
    <3> SUFFICES ASSUME j # 1 PROVE FALSE
      OBVIOUS
    <3>1. 1 \in 1..N /\ 1 < j
      BY <1>1, <2>1
    <3>2. cores[1].to < cores[j].from
      BY <3>1 DEF AreCores, N
    <3>3. PICK c, d : c = cores[1].to /\ d = cores[j].from
      OBVIOUS
    <3>4. c \in 1..n /\ d \in 1..n /\ c < d /\ d <= 1
      BY <1>2, <2>1, <3>1, <3>2, <3>3
    <3> QED BY <1>1, <3>4
  <2>3. b = 1 /\ a = 0
    <3>1. b <= 1
      BY <1>4, <1>11, <2>1, <2>2
    <3> QED BY <1>1, <1>4, <1>6, <1>11, <3>1
  <2>4. s = SubSeq(t, 1, 0)
    BY <1>7, <2>3
  <2>5. SubSeq(t, 1, 0) = <<>>
    OBVIOUS
  <2> QED BY <1>4, <1>11, <2>3, <2>4, <2>5
<1> QED BY <1>3, <1>4, <1>10, <1>11

\* A unit of a plain text is one paragraph, and the byte order mark is not in it.
LEMMA SpanIsPara ==
  ASSUME NEW body \in Seq(Lexemes), NEW k \in 1..Len(TxtSpans(body))
  PROVE  /\ Slice(body, TxtSpans(body)[k]) \in Seq(Lexemes) /\ Para(Slice(body, TxtSpans(body)[k]))
         /\ TxtSpans(body)[k].from = 1 => Slice(body, TxtSpans(body)[k])[1] # "BOM"
<1> DEFINE t == Content(body)
           spans == TxtSpans(body)
<1>1. t \in Seq(Lexemes) /\ Len(t) = Len(body)
  BY ContentType
<1>2. AreCores(t, spans) /\ ~BlankLine(t, spans[k].from, spans[k].to)
  BY TxtSpansAre DEF AreParas
<1>3. PICK a, b : a = spans[k].from /\ b = spans[k].to
  OBVIOUS
<1>4. \A i \in 1..Len(body) : t[i] = IF i = 1 /\ body[1] = "BOM" THEN " " ELSE body[i]
  BY ContentAt
<1>5. Slice(body, spans[k]) = SubSeq(body, a, b)
  BY <1>3 DEF Slice
<1> HIDE DEF t, spans
<1>6. a \in 1..Len(t) /\ b \in 1..Len(t) /\ a <= b
  BY <1>1, <1>2, <1>3, CoresAre DEF spans
<1>7. t[a] \notin White /\ t[b] \notin White /\ ~BlankLine(t, a, b)
  BY <1>2, <1>3 DEF AreCores, spans
<1>8. SubSeq(t, a, b) \in Seq(Lexemes) /\ Para(SubSeq(t, a, b)) /\ SubSeq(t, a, b)[1] = t[a]
  BY <1>1, <1>6, <1>7, ParaSlice
<1>9. a = 1 => body[1] # "BOM"
  <2> SUFFICES ASSUME a = 1, body[1] = "BOM" PROVE FALSE
    OBVIOUS
  <2>1. t[a] = " "
    BY <1>1, <1>4, <1>6
  <2> QED BY <1>7, <2>1 DEF White
<1>10. SubSeq(t, a, b) = SubSeq(body, a, b)
  <2>1. \A i \in a..b : t[i] = body[i]
    <3> SUFFICES ASSUME NEW i \in a..b PROVE t[i] = body[i]
      OBVIOUS
    <3>1. i \in 1..Len(body) /\ (i = 1 => a = 1)
      BY <1>1, <1>6
    <3> QED BY <1>4, <1>9, <3>1
  <2>2. /\ Len(SubSeq(t, a, b)) = b - a + 1 /\ Len(SubSeq(body, a, b)) = b - a + 1
        /\ \A i \in 1..b - a + 1 : SubSeq(t, a, b)[i] = t[a + i - 1] /\ SubSeq(body, a, b)[i] = body[a + i - 1]
        /\ SubSeq(t, a, b) \in Seq(Lexemes) /\ SubSeq(body, a, b) \in Seq(Lexemes)
    BY <1>1, <1>6
  <2>3. \A i \in 1..b - a + 1 : a + i - 1 \in a..b
    BY <1>1, <1>6
  <2> QED BY <2>1, <2>2, <2>3, SMTT(15)
<1>11. SubSeq(body, a, b)[1] = t[a] /\ (a = 1 => t[a] # "BOM")
  BY <1>1, <1>4, <1>6, <1>8, <1>9, <1>10
<1> QED BY <1>3, <1>5, <1>8, <1>10, <1>11 DEF spans

\* A paragraph without a target is cut at cores.
IsCut(u, cores, pieces) ==
  /\ AreCores(u.source, cores) /\ Len(cores) # 0
  /\ pieces = [k \in 1..Len(cores) |->
                 [path |-> u.path, gap |-> Gap(u.source, cores, k), source |-> Slice(u.source, cores[k]),
                  target |-> <<>>]]

LEMMA ParaIsCut ==
  ASSUME NEW L, NEW u, u.source \in Seq(L), Para(u.source), u.tagged = FALSE, u.hasTarget = FALSE,
         NEW mode, NEW rules
  PROVE  \E cores : IsCut(u, cores, Pieces(u, mode, rules))
<1> DEFINE t == u.source
           ranges == Ranges(t, mode, rules)
           cores == [k \in DOMAIN ranges |-> Core(t, ranges[k])]
<1>1. Covers(t, ranges)
  BY RangesCover
<1>2. ranges # <<>>
  <2> SUFFICES ASSUME ranges = <<>> PROVE FALSE
    OBVIOUS
  <2>1. 1 \in 1..Len(t) /\ t[1] \notin White
    BY DEF Para
  <2>2. \E k \in 1..Len(ranges) : ranges[k].from <= 1 /\ 1 <= ranges[k].to
    BY <1>1, <2>1 DEF Covers
  <2> QED BY <2>2
<1>3. Pieces(u, mode, rules) = [k \in DOMAIN cores |->
         [path |-> u.path, gap |-> Gap(t, cores, k), source |-> Slice(t, cores[k]), target |-> <<>>]]
  BY <1>2 DEF Pieces
<1>4. AreCores(t, cores)
  <2> HIDE DEF ranges
  <2> QED BY <1>1, CoresOf
<1>5. Len(ranges) # 0 /\ Len(ranges) \in Nat /\ DOMAIN ranges = 1..Len(ranges)
  <2>1. ranges \in Seq([from : 1..Len(t), to : 1..Len(t)])
    BY <1>1 DEF Covers
  <2> HIDE DEF ranges
  <2> QED BY <1>2, <2>1, EmptySeq
<1>6. DOMAIN cores = 1..Len(ranges)
  BY <1>5
<1> HIDE DEF ranges, cores
<1>7. Len(cores) \in Nat /\ DOMAIN cores = 1..Len(cores)
  BY <1>4, CoresAre
<1>8. Len(cores) # 0
  <2>1. 1 \in 1..Len(ranges)
    BY <1>5
  <2>2. 1 \in 1..Len(cores)
    BY <1>6, <1>7, <2>1
  <2> QED BY <1>7, <2>2
<1>9. IsCut(u, cores, Pieces(u, mode, rules))
  BY <1>3, <1>4, <1>7, <1>8 DEF IsCut
<1> QED BY <1>9

\* What may be typed into a plain text: a paragraph that no byte order mark begins.
FitsIn(text) == ~Blank(text) => Para(text) /\ text[1] # "BOM"

\* Rows cut from a paragraph, and what was typed into them, put together: a paragraph.
LEMMA CutTexts ==
  ASSUME NEW L, NEW u, u.source \in Seq(L), Para(u.source), NEW cores, NEW pieces, IsCut(u, cores, pieces),
         NEW own, ArePieces(own, pieces),
         \A j \in DOMAIN own : own[j].target \in Seq(L) /\ FitsIn(own[j].target),
         NEW text, text = FlattenSeq([j \in DOMAIN own |-> Exported(own[j])])
  PROVE  Para(text) /\ (u.source[1] # "BOM" => text[1] # "BOM")
<1> DEFINE t == u.source
           N == Len(cores)
           gap == [j \in 1..N |-> Gap(t, cores, j)]
           x == [j \in 1..N |-> IF Blank(own[j].target) THEN Slice(t, cores[j]) ELSE own[j].target]
           seqs == [j \in 1..N |-> Exported(own[j])]
<1>1. /\ AreCores(t, cores) /\ N # 0
      /\ pieces = [k \in 1..N |-> [path |-> u.path, gap |-> Gap(t, cores, k), source |-> Slice(t, cores[k]),
                                   target |-> <<>>]]
  BY DEF IsCut
<1>2. N \in Nat /\ 1 \in 1..N
  BY <1>1, CoresAre
<1>3. t \in Seq(L) /\ Para(t)
  OBVIOUS
<1> HIDE DEF t, N
<1>4. DOMAIN own = 1..N /\ \A j \in 1..N : own[j].gap = Gap(t, cores, j) /\ own[j].source = Slice(t, cores[j])
  <2>1. pieces \in Seq({pieces[k] : k \in 1..N}) /\ DOMAIN pieces = 1..N /\ Len(pieces) = N
    <3>1. pieces = [k \in 1..N |-> pieces[k]]
      BY <1>1
    <3> QED BY <1>2, <3>1
  <2>2. \A j \in 1..N : pieces[j].gap = Gap(t, cores, j) /\ pieces[j].source = Slice(t, cores[j])
    BY <1>1
  <2> QED BY <2>1, <2>2 DEF ArePieces
<1>5. \A j \in 1..N : /\ Gap(t, cores, j) \in Seq(L) /\ Blank(Gap(t, cores, j)) /\ OneBreak(Gap(t, cores, j))
                      /\ j = 1 => Gap(t, cores, j) = <<>> /\ cores[1].from = 1
  BY <1>1, <1>3, GapsInPara DEF N
<1>6. ASSUME NEW j \in 1..N
      PROVE  Slice(t, cores[j]) \in Seq(L) /\ Para(Slice(t, cores[j])) /\ Slice(t, cores[j])[1] = t[cores[j].from]
  <2>1. PICK a, b : a = cores[j].from /\ b = cores[j].to
    OBVIOUS
  <2>2. a \in 1..Len(t) /\ b \in 1..Len(t) /\ a <= b
    BY <1>1, <1>3, <2>1, CoresAre DEF N
  <2>3. t[a] \notin White /\ t[b] \notin White
    BY <1>1, <2>1 DEF AreCores, N
  <2>4. ~BlankLine(t, 1, Len(t))
    BY <1>3 DEF Para
  <2>5. \A p \in a..b : p \in 1..Len(t)
    BY <2>2
  <2>6. ~BlankLine(t, a, b)
    BY <2>4, <2>5 DEF BlankLine
  <2>7. SubSeq(t, a, b) \in Seq(L) /\ Para(SubSeq(t, a, b)) /\ SubSeq(t, a, b)[1] = t[a]
    BY <1>3, <2>2, <2>3, <2>6, ParaSlice
  <2> QED BY <2>1, <2>7 DEF Slice
<1>7. ASSUME NEW j \in 1..N
      PROVE  /\ x[j] \in Seq(L) /\ Para(x[j])
             /\ seqs[j] = gap[j] \o x[j] /\ gap[j] = Gap(t, cores, j)
  <2>1. own[j].target \in Seq(L) /\ FitsIn(own[j].target)
    BY <1>4
  <2>2. x[j] = IF Blank(own[j].target) THEN Slice(t, cores[j]) ELSE own[j].target
    OBVIOUS
  <2>3. seqs[j] = Gap(t, cores, j) \o x[j]
    <3>1. PICK o : o = own[j]
      OBVIOUS
    <3>2. seqs[j] = Exported(o)
      BY <3>1
    <3>3. o.gap = Gap(t, cores, j) /\ o.source = Slice(t, cores[j])
      BY <1>4, <3>1
    <3>4. Exported(o) = o.gap \o (IF Blank(o.target) THEN o.source ELSE o.target)
      BY DEF Exported
    <3>5. x[j] = IF Blank(o.target) THEN o.source ELSE o.target
      BY <2>2, <3>1, <3>3
    <3> HIDE DEF x, seqs
    <3> QED BY <3>2, <3>3, <3>4, <3>5
  <2>4. gap[j] = Gap(t, cores, j)
    OBVIOUS
  <2> HIDE DEF x, seqs, gap
  <2> QED BY <1>6, <2>1, <2>2, <2>3, <2>4 DEF FitsIn
<1>8. DOMAIN seqs = 1..N /\ text = FlattenSeq(seqs)
  BY <1>4
<1>9. u.source[1] # "BOM" => x[1][1] # "BOM"
  <2>1. x[1] = IF Blank(own[1].target) THEN Slice(t, cores[1]) ELSE own[1].target
    BY <1>2
  <2>2. FitsIn(own[1].target)
    BY <1>2, <1>4
  <2>3. Slice(t, cores[1])[1] = t[1]
    <3>1. PICK c : c = cores[1].from
      OBVIOUS
    <3>2. c = 1
      BY <1>2, <1>5, <3>1
    <3>3. Slice(t, cores[1])[1] = t[c]
      BY <1>2, <1>6, <3>1
    <3> QED BY <3>2, <3>3
  <2> HIDE DEF x
  <2> QED BY <2>1, <2>2, <2>3 DEF FitsIn, t
<1>10. seqs = [j \in 1..N |-> seqs[j]]
  OBVIOUS
<1> HIDE DEF seqs, gap, x
<1>11. seqs \in Seq(Seq(L)) /\ Len(seqs) = N
  <2>1. \A j \in 1..N : seqs[j] \in Seq(L)
    <3> SUFFICES ASSUME NEW j \in 1..N PROVE seqs[j] \in Seq(L)
      OBVIOUS
    <3>1. PICK v, w : v = gap[j] /\ w = x[j]
      OBVIOUS
    <3>2. v \in Seq(L) /\ w \in Seq(L)
      BY <1>5, <1>7, <3>1
    <3>3. v \o w \in Seq(L)
      BY <3>2, ConcatProperties
    <3> QED BY <1>7, <3>1, <3>3
  <2> QED BY <1>2, <1>10, <2>1
<1>12. gap[1] = <<>>
  BY <1>2, <1>5, <1>7
<1>13. Alternate(L, seqs, gap, x)
  BY <1>5, <1>7, <1>11, <1>12 DEF Alternate
<1>14. Para(FlattenSeq(seqs)) /\ FlattenSeq(seqs)[1] = x[1][1]
  BY <1>1, <1>11, <1>13, ParasJoin
<1> QED BY <1>8, <1>9, <1>14

=============================================================================
