--------------------------- MODULE Workspace_proofs ---------------------------
(***************************************************************************)
(* Proofs about Workspace: what the engine decides on is what a restart    *)
(* would load, nothing that was removed comes back, documents keep their   *)
(* copies and their languages, and a termbase has one entry per term.      *)
(***************************************************************************)
EXTENDS Workspace, TLAPS, SequenceTheorems, FunctionTheorems, FiniteSetTheorems

(***************************************************************************)
(* Induction over 0..N, for a set in the place of a predicate.  A gap in T *)
(* would make i |-> i + 1 a map of a finite set into itself without 0.     *)
(***************************************************************************)
LEMMA Ascent ==
  ASSUME NEW N \in Nat, NEW T, 0 \in T, \A i \in 0..N : i \in T /\ i < N => i + 1 \in T
  PROVE  \A i \in 0..N : i \in T
<1> SUFFICES ASSUME NEW m \in 0..N, m \notin T PROVE FALSE
  OBVIOUS
<1> DEFINE D == {i \in 0..m : i \in T}
           f == [i \in D |-> i + 1]
<1>1. IsFiniteSet(D)
  <2>1. IsFiniteSet(0..m) /\ D \in SUBSET (0..m)
    BY FS_Interval
  <2> HIDE DEF D
  <2> QED BY <2>1, FS_Subset
<1>2. IsFiniteSet(D \ {0}) /\ Cardinality(D \ {0}) = Cardinality(D) - 1 /\ Cardinality(D) \in Nat
  <2>1. 0 \in D
    OBVIOUS
  <2> HIDE DEF D
  <2> QED BY <1>1, <2>1, FS_RemoveElement, FS_CardinalityType
<1>3. f \in Injection(D, D \ {0})
  <2>1. \A i \in D : i + 1 \in D \ {0}
    <3> SUFFICES ASSUME NEW i \in 0..m, i \in T PROVE i + 1 \in 0..m /\ i + 1 \in T /\ i + 1 # 0
      OBVIOUS
    <3>1. i # m
      OBVIOUS
    <3> QED BY <3>1
  <2>2. f \in [D -> D \ {0}]
    BY <2>1
  <2>3. \A i, j \in D : f[i] = f[j] => i = j
    OBVIOUS
  <2> HIDE DEF f, D
  <2> QED BY <2>2, <2>3, Fun_IsInj
<1>4. Cardinality(D) <= Cardinality(D \ {0})
  <2> HIDE DEF f, D
  <2> QED BY <1>2, <1>3, FS_Injection
<1> HIDE DEF D
<1> QED
  BY <1>2, <1>4

LEMMA MaxIn ==
  ASSUME NEW n \in Nat, NEW A \in SUBSET (1..n), A # {}
  PROVE  Max(A) \in A /\ \A y \in A : Max(A) >= y
<1> DEFINE T == {k \in Nat : \A B \in SUBSET (1..k) : B # {} => \E x \in B : \A y \in B : x >= y}
<1>1. 0 \in T
  <2>1. 1..0 = {}
    OBVIOUS
  <2> QED BY <2>1
<1>2. ASSUME NEW k \in 0..n, k \in T, k < n PROVE k + 1 \in T
  <2> SUFFICES ASSUME NEW B \in SUBSET (1..(k + 1)), B # {}
               PROVE  \E x \in B : \A y \in B : x >= y
    OBVIOUS
  <2>1. CASE k + 1 \in B
    BY <2>1
  <2>2. CASE k + 1 \notin B
    <3>1. B \in SUBSET (1..k)
      BY <2>2
    <3> QED BY <1>2, <3>1
  <2> QED BY <2>1, <2>2
<1>3. n \in T
  <2> HIDE DEF T
  <2> QED BY <1>1, <1>2, Ascent
<1>4. \E x \in A : \A y \in A : x >= y
  BY <1>3
<1> QED
  BY <1>4 DEF Max

LEMMA MinIn ==
  ASSUME NEW n \in Nat, NEW A \in SUBSET (1..n), A # {}
  PROVE  Min(A) \in A
<1> DEFINE T == {k \in Nat : (\E a \in A : a <= k) => \E x \in A : \A y \in A : x =< y}
<1>1. 0 \in T
  OBVIOUS
<1>2. ASSUME NEW k \in 0..n, k \in T, k < n PROVE k + 1 \in T
  <2>1. CASE \E a \in A : a <= k
    BY <1>2, <2>1
  <2>2. CASE ~\E a \in A : a <= k
    <3>1. \A y \in A : k + 1 =< y
      BY <2>2
    <3>2. ASSUME NEW a \in A, a <= k + 1 PROVE \A y \in A : a =< y
      BY <3>1, <3>2
    <3> QED BY <3>2
  <2> QED BY <2>1, <2>2
<1>3. n \in T
  <2> HIDE DEF T
  <2> QED BY <1>1, <1>2, Ascent
<1>4. \E x \in A : \A y \in A : x =< y
  <2>1. \E a \in A : a <= n
    <3>1. PICK a : a \in A
      OBVIOUS
    <3>2. a \in 1..n
      BY <3>1
    <3> QED BY <3>1, <3>2
  <2> QED BY <1>3, <2>1
<1> QED
  BY <1>4 DEF Min

(***************************************************************************)
(* The function that FoldLeft computes with exists: Op[i] is what the i-th *)
(* element of the sequence does to a value of S.                           *)
(***************************************************************************)
FoldsTo(N, base, Op, g) ==
  \A s \in SUBSET (1..N) : g[s] = IF s = {} THEN base ELSE Op[Max(s)][g[s \ {Max(s)}]]

LEMMA FoldExists ==
  ASSUME NEW N \in Nat, NEW S, NEW base \in S, NEW Op \in [1..N -> [S -> S]]
  PROVE  \E g \in [SUBSET (1..N) -> S] : FoldsTo(N, base, Op, g)
<1> DEFINE Folded(k, g) == FoldsTo(k, base, Op, g)
           T == {k \in Nat : \E g \in [SUBSET (1..k) -> S] : Folded(k, g)}
<1>1. 0 \in T
  <2> DEFINE g == [s \in SUBSET (1..0) |-> base]
  <2>1. g \in [SUBSET (1..0) -> S] /\ Folded(0, g)
    BY DEF FoldsTo
  <2> QED BY <2>1
<1>2. ASSUME NEW k \in 0..N, k \in T, k < N PROVE k + 1 \in T
  <2>1. PICK g \in [SUBSET (1..k) -> S] : Folded(k, g)
    BY <1>2
  <2> DEFINE h == [s \in SUBSET (1..(k + 1)) |->
                     IF k + 1 \in s THEN Op[k + 1][g[s \ {k + 1}]] ELSE g[s]]
  <2>2. k + 1 \in 1..N /\ k + 1 \in Nat
    BY <1>2
  <2>3. \A s \in SUBSET (1..(k + 1)) : k + 1 \in s => s \ {k + 1} \in SUBSET (1..k)
    OBVIOUS
  <2>4. \A s \in SUBSET (1..(k + 1)) : k + 1 \notin s => s \in SUBSET (1..k)
    OBVIOUS
  <2>5. h \in [SUBSET (1..(k + 1)) -> S]
    BY <2>2, <2>3, <2>4
  <2>6. \A s \in SUBSET (1..k) : h[s] = g[s]
    OBVIOUS
  <2>7. ASSUME NEW s \in SUBSET (1..(k + 1))
        PROVE  h[s] = IF s = {} THEN base ELSE Op[Max(s)][h[s \ {Max(s)}]]
    <3>1. CASE k + 1 \in s
      <4>1. Max(s) = k + 1
        <5>1. Max(s) \in s /\ \A y \in s : Max(s) >= y
          BY <2>2, <3>1, MaxIn
        <5>2. Max(s) \in 1..(k + 1) /\ Max(s) >= k + 1
          BY <3>1, <5>1
        <5> QED BY <5>2
      <4>2. h[s \ {k + 1}] = g[s \ {k + 1}]
        BY <2>3, <2>6, <3>1
      <4> QED BY <3>1, <4>1, <4>2
    <3>2. CASE k + 1 \notin s
      <4>1. s \in SUBSET (1..k) /\ h[s] = g[s]
        BY <2>4, <3>2
      <4>2. g[s] = IF s = {} THEN base ELSE Op[Max(s)][g[s \ {Max(s)}]]
        BY <2>1, <4>1 DEF FoldsTo
      <4>3. s \ {Max(s)} \in SUBSET (1..k)
        BY <4>1
      <4>4. h[s \ {Max(s)}] = g[s \ {Max(s)}]
        BY <2>6, <4>3
      <4> QED BY <4>1, <4>2, <4>4
    <3> QED BY <3>1, <3>2
  <2> HIDE DEF h
  <2>8. Folded(k + 1, h)
    BY <2>7 DEF FoldsTo
  <2> HIDE DEF Folded
  <2> QED BY <2>2, <2>5, <2>8
<1>3. N \in T
  <2> HIDE DEF T
  <2>1. \A k \in 0..N : k \in T /\ k < N => k + 1 \in T
    BY <1>2
  <2>2. N \in 0..N
    OBVIOUS
  <2> QED BY <1>1, <2>1, <2>2, Ascent
<1> QED
  BY <1>3

\* The prefixes of a sequence, which a fold goes through one by one.
LEMMA Prefix ==
  ASSUME NEW N \in Nat, NEW i \in 1..N
  PROVE  /\ (1..i) \in SUBSET (1..N) /\ 1..i # {} /\ (1..i) \ {i} = 1..(i - 1)
         /\ Max(1..i) = i
<1>1. i \in 1..i /\ i \in Nat
  OBVIOUS
<1>2. Max(1..i) \in 1..i /\ \A y \in 1..i : Max(1..i) >= y
  BY <1>1, MaxIn
<1>3. Max(1..i) = i
  BY <1>1, <1>2
<1> QED
  BY <1>1, <1>3

-----------------------------------------------------------------------------
(* Batches of memory entries.                                              *)

Units == [source : Sources, target : Targets]

EntryTables == [Entries -> EntryRows \cup {None}]

Batches == [tm : EntryTables, index : [Entries -> IndexRows \cup {None}]]

\* The index knows the entries of a table, by their source.
Indexed(tm, idx) ==
  idx = [e \in Entries |-> IF tm[e] # None THEN [memory |-> tm[e].memory, source |-> tm[e].source]
                           ELSE None]

\* One unit changes entry e: it gets a target or, when it was never used, a row.
UnitAt(b, up, e) ==
  /\ up \in Batches
  /\ \A f \in Entries \ {e} : up.tm[f] = b.tm[f] /\ up.index[f] = b.index[f]
  /\ e \in Entries =>
       \/ /\ b.tm[e] # None /\ up.tm[e] \in EntryRows /\ up.index[e] = b.index[e]
          /\ up.tm[e].memory = b.tm[e].memory /\ up.tm[e].source = b.tm[e].source
       \/ /\ up.tm[e] \in EntryRows
          /\ up.index[e] = [memory |-> up.tm[e].memory, source |-> up.tm[e].source]
          /\ Fresh(b.tm) # {} => e \in Fresh(b.tm)

LEMMA NewTarget ==
  ASSUME NEW b \in Batches, NEW e \in Entries, b.tm[e] # None, NEW target \in Targets
  PROVE  UnitAt(b, [b EXCEPT !.tm[e].target = target], e)
<1> DEFINE row == [b.tm[e] EXCEPT !.target = target]
           tm == [b.tm EXCEPT ![e] = row]
           up == [b EXCEPT !.tm = tm]
<1>1. b.tm \in EntryTables /\ b.tm[e] \in EntryRows
  BY DEF Batches, EntryTables
<1>2. row \in EntryRows /\ row.memory = b.tm[e].memory /\ row.source = b.tm[e].source
  BY <1>1 DEF EntryRows
<1> HIDE DEF row
<1>3. tm \in EntryTables /\ tm[e] = row /\ \A f \in Entries \ {e} : tm[f] = b.tm[f]
  BY <1>1, <1>2 DEF EntryTables
<1> HIDE DEF tm
<1>4. up \in Batches /\ up.tm = tm /\ up.index = b.index
  BY <1>3 DEF Batches
<1>5. up = [b EXCEPT !.tm[e].target = target]
  BY DEF row, tm
<1> HIDE DEF up
<1>6. UnitAt(b, up, e)
  BY <1>2, <1>3, <1>4 DEF UnitAt
<1> QED
  BY <1>5, <1>6

LEMMA NewEntry ==
  ASSUME NEW b \in Batches, NEW e, Fresh(b.tm) # {} => e \in Fresh(b.tm),
         NEW m \in Projects, NEW unit \in Units
  PROVE  UnitAt(b, [b EXCEPT !.tm[e] = [memory |-> m, source |-> unit.source, target |-> unit.target],
                             !.index[e] = [memory |-> m, source |-> unit.source]], e)
<1> DEFINE row == [memory |-> m, source |-> unit.source, target |-> unit.target]
           key == [memory |-> m, source |-> unit.source]
           tm == [b.tm EXCEPT ![e] = row]
           idx == [b.index EXCEPT ![e] = key]
           up == [b EXCEPT !.tm = tm, !.index = idx]
<1>1. b.tm \in EntryTables /\ b.index \in [Entries -> IndexRows \cup {None}]
  BY DEF Batches
<1>2. row \in EntryRows /\ key \in IndexRows /\ key = [memory |-> row.memory, source |-> row.source]
  BY DEF EntryRows, IndexRows, Units
<1> HIDE DEF row, key
<1>3. tm \in EntryTables /\ (e \in Entries => tm[e] = row) /\ \A f \in Entries \ {e} : tm[f] = b.tm[f]
  BY <1>1, <1>2 DEF EntryTables
<1>4. /\ idx \in [Entries -> IndexRows \cup {None}] /\ (e \in Entries => idx[e] = key)
      /\ \A f \in Entries \ {e} : idx[f] = b.index[f]
  BY <1>1, <1>2
<1> HIDE DEF tm, idx
<1>5. up \in Batches /\ up.tm = tm /\ up.index = idx
  BY <1>3, <1>4 DEF Batches
<1>6. up = [b EXCEPT !.tm[e] = [memory |-> m, source |-> unit.source, target |-> unit.target],
                     !.index[e] = [memory |-> m, source |-> unit.source]]
  BY DEF row, key, tm, idx
<1> HIDE DEF up
<1>7. UnitAt(b, up, e)
  BY <1>2, <1>3, <1>4, <1>5 DEF UnitAt
<1> QED
  BY <1>6, <1>7

\* upsert_tm_entry.
LEMMA UpsertOneEntry ==
  ASSUME NEW b \in Batches, NEW m \in Projects, NEW unit \in Units
  PROVE  \E e : UnitAt(b, UpsertTmEntry(b, m, unit), e)
<1> DEFINE same == {e \in Entries : RowOf(b.tm, e) /\ b.tm[e].memory = m
                                 /\ HashOf[b.tm[e].source] = HashOf[unit.source]}
           e == CHOOSE x \in IF same # {} THEN same ELSE Fresh(b.tm) : TRUE
<1>1. CASE same # {}
  <2>1. e \in Entries /\ b.tm[e] # None
    BY <1>1 DEF RowOf
  <2>2. UpsertTmEntry(b, m, unit) = [b EXCEPT !.tm[e].target = unit.target]
    BY <1>1 DEF UpsertTmEntry
  <2> HIDE DEF e
  <2>3. unit.target \in Targets
    BY DEF Units
  <2>4. UnitAt(b, [b EXCEPT !.tm[e].target = unit.target], e)
    BY <2>1, <2>3, NewTarget
  <2> QED BY <2>2, <2>4
<1>2. CASE same = {}
  <2>1. Fresh(b.tm) # {} => e \in Fresh(b.tm)
    BY <1>2
  <2>2. UpsertTmEntry(b, m, unit)
          = [b EXCEPT !.tm[e] = [memory |-> m, source |-> unit.source, target |-> unit.target],
                      !.index[e] = [memory |-> m, source |-> unit.source]]
    BY <1>2 DEF UpsertTmEntry
  <2> HIDE DEF e
  <2>3. UnitAt(b, [b EXCEPT !.tm[e] = [memory |-> m, source |-> unit.source, target |-> unit.target],
                      !.index[e] = [memory |-> m, source |-> unit.source]], e)
    BY <2>1, NewEntry
  <2> QED BY <2>2, <2>3
<1> QED
  BY <1>1, <1>2

\* A unit keeps the index in step, and the ids of removed entries unused.
LEMMA UnitKeeps ==
  ASSUME NEW b \in Batches, NEW up, NEW e, UnitAt(b, up, e)
  PROVE  /\ Indexed(b.tm, b.index) => Indexed(up.tm, up.index)
         /\ \A k \in Nat : Cardinality(Fresh(b.tm)) >= k + 1 =>
              /\ Cardinality(Fresh(up.tm)) >= k
              /\ \A f \in Entries \cap gone.tm : b.tm[f] = None => up.tm[f] = None
<1>1. /\ b.tm \in EntryTables /\ b.index \in [Entries -> IndexRows \cup {None}]
      /\ up.tm \in EntryTables /\ up.index \in [Entries -> IndexRows \cup {None}]
  BY DEF Batches, UnitAt
<1>2. ASSUME Indexed(b.tm, b.index) PROVE Indexed(up.tm, up.index)
  <2>1. ASSUME NEW f \in Entries
        PROVE  up.index[f] = IF up.tm[f] # None
                             THEN [memory |-> up.tm[f].memory, source |-> up.tm[f].source] ELSE None
    <3>1. b.index[f] = IF b.tm[f] # None
                       THEN [memory |-> b.tm[f].memory, source |-> b.tm[f].source] ELSE None
      BY <1>2 DEF Indexed
    <3>2. CASE f # e
      BY <3>1, <3>2 DEF UnitAt
    <3>3. CASE f = e
      BY <3>1, <3>3, StoreAssumption DEF UnitAt
    <3> QED BY <3>2, <3>3
  <2> QED BY <1>1, <2>1 DEF Indexed
<1>3. ASSUME NEW k \in Nat, Cardinality(Fresh(b.tm)) >= k + 1
      PROVE  /\ Cardinality(Fresh(up.tm)) >= k
             /\ \A f \in Entries \cap gone.tm : b.tm[f] = None => up.tm[f] = None
  <2>1. IsFiniteSet(Fresh(b.tm)) /\ IsFiniteSet(Fresh(up.tm))
    <3>1. Fresh(b.tm) \in SUBSET Entries /\ Fresh(up.tm) \in SUBSET Entries
      BY DEF Fresh, New
    <3> QED BY <3>1, WorkspaceAssumption, FS_Subset
  <2>2. Fresh(b.tm) # {}
    BY <1>3, FS_EmptySet
  <2>3. \A f \in Entries \cap gone.tm : b.tm[f] = None => up.tm[f] = None
    BY <2>2 DEF UnitAt, Fresh
  <2>4. Fresh(b.tm) \ {e} \in SUBSET Fresh(up.tm)
    BY DEF UnitAt, Fresh, New, RowOf
  <2>5. IsFiniteSet(Fresh(b.tm) \ {e}) /\ Cardinality(Fresh(b.tm) \ {e}) >= k
    <3> DEFINE S == Fresh(b.tm)
    <3> HIDE DEF S
    <3>1. Cardinality(S) >= k + 1 /\ IsFiniteSet(S)
      BY <1>3, <2>1 DEF S
    <3>2. /\ Cardinality(S) \in Nat /\ IsFiniteSet(S \ {e})
          /\ Cardinality(S \ {e}) = IF e \in S THEN Cardinality(S) - 1 ELSE Cardinality(S)
      BY <3>1, FS_RemoveElement, FS_CardinalityType
    <3>3. Cardinality(S \ {e}) >= k
      BY <3>1, <3>2
    <3> QED BY <3>2, <3>3 DEF S
  <2>6. Cardinality(Fresh(b.tm) \ {e}) <= Cardinality(Fresh(up.tm))
    BY <2>1, <2>4, FS_Subset
  <2>7. Cardinality(Fresh(b.tm) \ {e}) \in Nat /\ Cardinality(Fresh(up.tm)) \in Nat
    BY <2>1, <2>5, FS_CardinalityType
  <2> QED BY <2>3, <2>5, <2>6, <2>7
<1> QED
  BY <1>2, <1>3

\* The units of a file one after the other.
LEMMA BatchFold ==
  ASSUME NEW m \in Projects, NEW file \in Seq(Units), [tm |-> disk.tm, index |-> index] \in Batches
  PROVE  \E b \in [0..Len(file) -> Batches] :
           /\ b[0] = [tm |-> disk.tm, index |-> index] /\ Batch(m, file) = b[Len(file)]
           /\ \A i \in 1..Len(file) : b[i] = UpsertTmEntry(b[i - 1], m, file[i])
<1> DEFINE N == Len(file)
           base == [tm |-> disk.tm, index |-> index]
           Defines(g) == g = [s \in SUBSET (DOMAIN file) |->
                                IF s = {} THEN base
                                ELSE UpsertTmEntry(g[s \ {Max(s)}], m, file[Max(s)])]
           F == CHOOSE g : Defines(g)
           b == [i \in 0..N |-> F[1..i]]
<1>1. Batch(m, file) = F[DOMAIN file]
  BY DEF Batch, FoldLeft, MapThenFoldSet
<1>2. N \in Nat /\ DOMAIN file = 1..N /\ \A i \in 1..N : file[i] \in Units
  BY ElementOfSeq, LenProperties
<1>3. ASSUME NEW x \in Batches, NEW i \in 1..N PROVE UpsertTmEntry(x, m, file[i]) \in Batches
  BY <1>2, UpsertOneEntry DEF UnitAt
<1> HIDE DEF N, base
<1>4. \E g : Defines(g)
  <2> DEFINE Op == [i \in 1..N |-> [x \in Batches |-> UpsertTmEntry(x, m, file[i])]]
  <2>1. Op \in [1..N -> [Batches -> Batches]]
    BY <1>3
  <2> HIDE DEF Op
  <2>2. base \in Batches
    BY DEF base
  <2>3. PICK g \in [SUBSET (1..N) -> Batches] : FoldsTo(N, base, Op, g)
    BY <1>2, <2>1, <2>2, FoldExists
  <2>4. ASSUME NEW s \in SUBSET (1..N)
        PROVE  g[s] = IF s = {} THEN base ELSE UpsertTmEntry(g[s \ {Max(s)}], m, file[Max(s)])
    <3>1. CASE s = {}
      BY <2>3, <3>1 DEF FoldsTo
    <3>2. CASE s # {}
      <4>1. Max(s) \in 1..N
        BY <1>2, <3>2, MaxIn
      <4>2. s \ {Max(s)} \in SUBSET (1..N)
        OBVIOUS
      <4>3. g[s \ {Max(s)}] \in Batches
        BY <4>2
      <4>4. g[s] = Op[Max(s)][g[s \ {Max(s)}]]
        BY <2>3, <3>2 DEF FoldsTo
      <4> QED BY <3>2, <4>1, <4>3, <4>4 DEF Op
    <3> QED BY <3>1, <3>2
  <2>5. Defines(g)
    BY <1>2, <2>4
  <2> QED BY <2>5
<1>5. Defines(F)
  <2> HIDE DEF Defines
  <2> QED BY <1>4
<1> HIDE DEF F
<1>6. F[1..0] = base
  <2>1. 1..0 = {} /\ (1..0) \in SUBSET (1..N)
    OBVIOUS
  <2> QED BY <1>2, <1>5, <2>1
<1>7. ASSUME NEW i \in 1..N PROVE F[1..i] = UpsertTmEntry(F[1..(i - 1)], m, file[i])
  <2>1. (1..i) \in SUBSET (1..N) /\ 1..i # {} /\ (1..i) \ {i} = 1..(i - 1) /\ Max(1..i) = i
    BY <1>2, Prefix
  <2>2. F[1..i] = UpsertTmEntry(F[(1..i) \ {Max(1..i)}], m, file[Max(1..i)])
    BY <1>2, <1>5, <2>1
  <2> QED BY <2>1, <2>2
<1> HIDE DEF Defines
<1>8. \A i \in 0..N : F[1..i] \in Batches
  <2> DEFINE T == {i \in 0..N : F[1..i] \in Batches}
  <2>1. 0 \in T
    BY <1>2, <1>6 DEF base
  <2>2. ASSUME NEW i \in 0..N, i \in T, i < N PROVE i + 1 \in T
    <3>1. i + 1 \in 1..N /\ (i + 1) - 1 = i
      BY <1>2, <2>2
    <3>2. F[1..(i + 1)] = UpsertTmEntry(F[1..i], m, file[i + 1])
      BY <1>7, <3>1
    <3> QED BY <1>3, <2>2, <3>1, <3>2
  <2>3. \A i \in 0..N : i \in T
    <3> HIDE DEF T
    <3>1. \A i \in 0..N : i \in T /\ i < N => i + 1 \in T
      BY <2>2
    <3> QED BY <1>2, <2>1, <3>1, Ascent
  <2> QED BY <2>3
<1>9. b \in [0..N -> Batches] /\ b[0] = base /\ b[N] = F[1..N]
  BY <1>2, <1>6, <1>8
<1>10. \A i \in 1..N : b[i] = UpsertTmEntry(b[i - 1], m, file[i])
  <2> TAKE i \in 1..N
  <2>1. i \in 0..N /\ i - 1 \in 0..N
    BY <1>2
  <2> QED BY <1>7, <2>1
<1> HIDE DEF b
<1> QED
  BY <1>1, <1>2, <1>9, <1>10 DEF N, base

\* tm.import: the tables after a whole file.
LEMMA BatchKeeps ==
  ASSUME NEW m \in Projects, NEW file \in Seq(Units), [tm |-> disk.tm, index |-> index] \in Batches,
         Cardinality(Fresh(disk.tm)) >= Len(file)
  PROVE  /\ Batch(m, file) \in Batches
         /\ Indexed(disk.tm, index) => Indexed(Batch(m, file).tm, Batch(m, file).index)
         /\ \A f \in Entries \cap gone.tm : disk.tm[f] = None => Batch(m, file).tm[f] = None
<1> DEFINE N == Len(file)
<1>1. PICK b \in [0..N -> Batches] :
           /\ b[0] = [tm |-> disk.tm, index |-> index] /\ Batch(m, file) = b[N]
           /\ \A i \in 1..N : b[i] = UpsertTmEntry(b[i - 1], m, file[i])
  BY BatchFold
<1>2. N \in Nat /\ \A i \in 1..N : file[i] \in Units
  BY ElementOfSeq, LenProperties
<1>0. Cardinality(Fresh(disk.tm)) >= N
  OBVIOUS
<1> HIDE DEF N
<1> DEFINE T == {i \in 0..N :
                   /\ Indexed(disk.tm, index) => Indexed(b[i].tm, b[i].index)
                   /\ \A f \in Entries \cap gone.tm : disk.tm[f] = None => b[i].tm[f] = None
                   /\ Cardinality(Fresh(b[i].tm)) >= N - i}
<1>3. 0 \in T
  BY <1>0, <1>1, <1>2
<1>4. ASSUME NEW i \in 0..N, i \in T, i < N PROVE i + 1 \in T
  <2>1. i + 1 \in 1..N /\ (i + 1) - 1 = i /\ (N - (i + 1)) + 1 = N - i /\ N - (i + 1) \in Nat
    BY <1>2, <1>4
  <2>2. b[i] \in Batches /\ file[i + 1] \in Units /\ b[i + 1] = UpsertTmEntry(b[i], m, file[i + 1])
    BY <1>1, <1>2, <2>1
  <2>3. PICK e : UnitAt(b[i], b[i + 1], e)
    BY <2>2, UpsertOneEntry
  <2>4. Cardinality(Fresh(b[i].tm)) >= (N - (i + 1)) + 1
    BY <1>4, <2>1
  <2>5. /\ Indexed(b[i].tm, b[i].index) => Indexed(b[i + 1].tm, b[i + 1].index)
        /\ Cardinality(Fresh(b[i + 1].tm)) >= N - (i + 1)
        /\ \A f \in Entries \cap gone.tm : b[i].tm[f] = None => b[i + 1].tm[f] = None
    BY <2>1, <2>2, <2>3, <2>4, UnitKeeps
  <2> QED BY <1>4, <2>1, <2>5
<1>5. N \in T
  <2> HIDE DEF T
  <2>1. \A i \in 0..N : i \in T /\ i < N => i + 1 \in T
    BY <1>4
  <2>2. N \in 0..N
    BY <1>2
  <2> QED BY <1>2, <1>3, <2>1, <2>2, Ascent
<1> QED
  BY <1>1, <1>2, <1>5

-----------------------------------------------------------------------------
(* Terms and their translations.                                           *)

TermTables == [Terms -> TermRows \cup {None}]

Distinct(list) == \A i, j \in DOMAIN list : i # j => ~Same(list[i].term, list[j].term)

\* What OneEntryPerTerm says of a table.
SingleTerms(terms) ==
  \A t \in Terms : RowOf(terms, t) =>
    Homonyms(terms, terms[t].source) = {t} /\ Distinct(terms[t].translations)

LEMMA SingleIsOneEntry == SingleTerms(disk.terms) <=> OneEntryPerTerm
  BY DEF SingleTerms, OneEntryPerTerm, Distinct

LEMMA TranslatedKeeps ==
  ASSUME NEW list \in Seq(Translations), Distinct(list), NEW tr \in Translations
  PROVE  Translated(list, tr) \in Seq(Translations) /\ Distinct(Translated(list, tr))
<1>1. DOMAIN list = 1..Len(list) /\ Len(list) \in Nat
  BY LenProperties
<1>2. CASE \E i \in DOMAIN list : Same(list[i].term, tr.term)
  <2> DEFINE I == {i \in 1..Len(list) : Same(list[i].term, tr.term)}
             i == Min(I)
             row == [list[i] EXCEPT !.forbidden = tr.forbidden]
             new == [list EXCEPT ![i] = row]
  <2>1. I \in SUBSET (1..Len(list)) /\ I # {}
    BY <1>1, <1>2
  <2>2. Translated(list, tr) = new
    BY <1>2, <2>1 DEF Translated, SelectInSeq
  <2>3. i \in 1..Len(list)
    <3> HIDE DEF I
    <3>1. Min(I) \in I
      BY <1>1, <2>1, MinIn
    <3> QED BY <2>1, <3>1
  <2> HIDE DEF i, I
  <2>4. list[i] \in Translations
    BY <2>3, ElementOfSeq
  <2>5. row \in Translations /\ row.term = list[i].term
    BY <2>4 DEF Translations
  <2> HIDE DEF row
  <2>6. new \in Seq(Translations) /\ Len(new) = Len(list) /\ DOMAIN new = DOMAIN list
    BY <1>1, <2>3, <2>5, ExceptSeq
  <2>7. \A j \in DOMAIN list : new[j].term = list[j].term
    BY <1>1, <2>3, <2>5
  <2> HIDE DEF new
  <2> QED BY <2>2, <2>6, <2>7 DEF Distinct
<1>3. CASE ~\E i \in DOMAIN list : Same(list[i].term, tr.term)
  <2> DEFINE new == Append(list, tr)
  <2>1. Translated(list, tr) = new
    BY <1>3 DEF Translated
  <2>2. /\ new \in Seq(Translations) /\ Len(new) = Len(list) + 1
        /\ \A i \in 1..Len(list) : new[i] = list[i]
        /\ new[Len(list) + 1] = tr
    BY AppendProperties
  <2> HIDE DEF new
  <2>3. DOMAIN new = 1..(Len(list) + 1)
    BY <2>2, LenProperties
  <2>4. ASSUME NEW i \in DOMAIN new, NEW j \in DOMAIN new, i # j
        PROVE  ~Same(new[i].term, new[j].term)
    <3>1. CASE i \in 1..Len(list) /\ j \in 1..Len(list)
      BY <1>1, <2>2, <2>4, <3>1 DEF Distinct
    <3>2. CASE i \in 1..Len(list) /\ j = Len(list) + 1
      BY <1>1, <1>3, <2>2, <3>2
    <3>3. CASE j \in 1..Len(list) /\ i = Len(list) + 1
      BY <1>1, <1>3, <2>2, <3>3 DEF Same
    <3> QED BY <1>1, <2>3, <2>4, <3>1, <3>2, <3>3
  <2> QED BY <2>1, <2>2, <2>4 DEF Distinct
<1> QED
  BY <1>2, <1>3

LEMMA TranslatedType ==
  ASSUME NEW list \in Seq(Translations), NEW tr \in Translations
  PROVE  Translated(list, tr) \in Seq(Translations)
<1>1. DOMAIN list = 1..Len(list) /\ Len(list) \in Nat
  BY LenProperties
<1>2. CASE \E i \in DOMAIN list : Same(list[i].term, tr.term)
  <2> DEFINE I == {i \in 1..Len(list) : Same(list[i].term, tr.term)}
             i == Min(I)
             row == [list[i] EXCEPT !.forbidden = tr.forbidden]
  <2>1. I \in SUBSET (1..Len(list)) /\ I # {}
    BY <1>1, <1>2
  <2>2. Translated(list, tr) = [list EXCEPT ![i] = row]
    BY <1>2, <2>1 DEF Translated, SelectInSeq
  <2>3. i \in 1..Len(list)
    <3> HIDE DEF I
    <3>1. Min(I) \in I
      BY <1>1, <2>1, MinIn
    <3> QED BY <2>1, <3>1
  <2> HIDE DEF i, I
  <2>4. row \in Translations
    <3>1. list[i] \in Translations
      BY <2>3, ElementOfSeq
    <3> QED BY <3>1 DEF Translations
  <2> HIDE DEF row
  <2> QED BY <2>2, <2>3, <2>4, ExceptSeq
<1>3. CASE ~\E i \in DOMAIN list : Same(list[i].term, tr.term)
  BY <1>3, AppendProperties DEF Translated
<1> QED
  BY <1>2, <1>3

\* An edited translation has a term none of its siblings has.
LEMMA EditedKeeps ==
  ASSUME NEW list \in Seq(Translations), NEW new \in Edited(list)
  PROVE  new \in Seq(Translations) /\ (Distinct(list) => Distinct(new))
<1>1. DOMAIN list = 1..Len(list) /\ Len(list) \in Nat
  BY LenProperties
<1>2. PICK c \in (DOMAIN list) \X Translations :
        /\ \A j \in DOMAIN list \ {c[1]} : ~Same(list[j].term, c[2].term)
        /\ new = [list EXCEPT ![c[1]] = c[2]]
  BY DEF Edited
<1> DEFINE i == c[1]
           tr == c[2]
<1>3. i \in DOMAIN list /\ tr \in Translations
  OBVIOUS
<1>4. /\ \A j \in DOMAIN list \ {i} : ~Same(list[j].term, tr.term)
      /\ new = [list EXCEPT ![i] = tr]
  BY <1>2
<1> HIDE DEF i, tr
<1>5. new \in Seq(Translations) /\ DOMAIN new = DOMAIN list
  BY <1>1, <1>3, <1>4, ExceptSeq
<1>6. new[i] = tr /\ \A j \in DOMAIN list \ {i} : new[j] = list[j]
  BY <1>3, <1>4
<1>7. ASSUME Distinct(list), NEW j \in DOMAIN new, NEW k \in DOMAIN new, j # k
      PROVE  ~Same(new[j].term, new[k].term)
  <2>1. CASE j = i
    BY <1>4, <1>5, <1>6, <1>7, <2>1 DEF Same
  <2>2. CASE k = i
    BY <1>4, <1>5, <1>6, <1>7, <2>2 DEF Same
  <2>3. CASE j # i /\ k # i
    BY <1>5, <1>6, <1>7, <2>3 DEF Distinct
  <2> QED BY <2>1, <2>2, <2>3
<1> QED
  BY <1>5, <1>7 DEF Distinct

\* A list that loses a translation keeps the others.
LEMMA RemoveAtKeeps ==
  ASSUME NEW list \in Seq(Translations), NEW i \in DOMAIN list
  PROVE  RemoveAt(list, i) \in Seq(Translations) /\ (Distinct(list) => Distinct(RemoveAt(list, i)))
<1> DEFINE N == Len(list)
           a == SubSeq(list, 1, i - 1)
           b == SubSeq(list, i + 1, N)
           new == a \o b
           at(j) == IF j < i THEN j ELSE j + 1
<1>1. DOMAIN list = 1..N /\ N \in Nat /\ i \in 1..N /\ \A j \in 1..N : list[j] \in Translations
  BY LenProperties, ElementOfSeq
<1> HIDE DEF N
<1>2. a \in Seq(Translations) /\ Len(a) = i - 1 /\ \A j \in 1..(i - 1) : a[j] = list[j]
  <2>1. \A j \in 1..(i - 1) : list[j] \in Translations
    BY <1>1
  <2>2. 1 \in Int /\ i - 1 \in Int
    BY <1>1
  <2>3. /\ a \in Seq(Translations) /\ Len(a) = (IF 1 <= i - 1 THEN (i - 1) - 1 + 1 ELSE 0)
        /\ \A j \in 1..((i - 1) - 1 + 1) : a[j] = list[1 + j - 1]
    BY <2>1, <2>2, SubSeqProperties
  <2> HIDE DEF a
  <2>4. ASSUME NEW j \in 1..(i - 1) PROVE a[j] = list[j]
    <3>1. j \in 1..((i - 1) - 1 + 1) /\ 1 + j - 1 = j
      BY <1>1
    <3> QED BY <2>3, <3>1
  <2> QED BY <1>1, <2>3, <2>4
<1>3. b \in Seq(Translations) /\ Len(b) = N - i /\ \A j \in 1..(N - i) : b[j] = list[i + j]
  <2>1. \A j \in (i + 1)..N : list[j] \in Translations
    BY <1>1
  <2>2. i + 1 \in Int /\ N \in Int
    BY <1>1
  <2>3. /\ b \in Seq(Translations) /\ Len(b) = (IF i + 1 <= N THEN N - (i + 1) + 1 ELSE 0)
        /\ \A j \in 1..(N - (i + 1) + 1) : b[j] = list[(i + 1) + j - 1]
    BY <2>1, <2>2, SubSeqProperties
  <2> HIDE DEF b
  <2>4. ASSUME NEW j \in 1..(N - i) PROVE b[j] = list[i + j]
    <3>1. j \in 1..(N - (i + 1) + 1) /\ (i + 1) + j - 1 = i + j
      BY <1>1
    <3> QED BY <2>3, <3>1
  <2> QED BY <1>1, <2>3, <2>4
<1> HIDE DEF a, b
<1>4. /\ new \in Seq(Translations) /\ Len(new) = Len(a) + Len(b)
      /\ \A j \in 1..(Len(a) + Len(b)) : new[j] = IF j <= Len(a) THEN a[j] ELSE b[j - Len(a)]
  BY <1>2, <1>3, ConcatProperties
<1> HIDE DEF new
<1>5. DOMAIN new = 1..(N - 1)
  BY <1>1, <1>2, <1>3, <1>4, LenProperties
<1>6. ASSUME NEW j \in 1..(N - 1) PROVE at(j) \in 1..N /\ new[j] = list[at(j)]
  <2>1. CASE j < i
    <3>1. j \in 1..(i - 1) /\ j \in 1..(Len(a) + Len(b)) /\ j <= Len(a)
      BY <1>1, <1>2, <1>3, <2>1
    <3> QED BY <1>1, <1>2, <1>4, <2>1, <3>1
  <2>2. CASE ~(j < i)
    <3> DEFINE k == j - Len(a)
    <3>1. j \in 1..(Len(a) + Len(b)) /\ ~(j <= Len(a)) /\ k \in 1..(N - i) /\ i + k = j + 1
      BY <1>1, <1>2, <1>3, <2>2
    <3>2. new[j] = b[k]
      BY <1>4, <3>1
    <3> HIDE DEF k
    <3>3. new[j] = list[i + k]
      BY <1>3, <3>1, <3>2
    <3> QED BY <1>1, <2>2, <3>1, <3>3
  <2> QED BY <2>1, <2>2
<1>7. ASSUME Distinct(list), NEW j \in 1..(N - 1), NEW k \in 1..(N - 1), j # k
      PROVE  ~Same(new[j].term, new[k].term)
  <2>1. at(j) # at(k)
    BY <1>1, <1>7
  <2> HIDE DEF at
  <2>2. at(j) \in 1..N /\ at(k) \in 1..N /\ new[j] = list[at(j)] /\ new[k] = list[at(k)]
    BY <1>6
  <2> QED BY <1>1, <1>7, <2>1, <2>2 DEF Distinct
<1>8. RemoveAt(list, i) = new
  BY DEF RemoveAt, new, a, b, N
<1> QED
  BY <1>4, <1>5, <1>7, <1>8 DEF Distinct

LEMMA TermFields ==
  ASSUME NEW terms \in TermTables, NEW t \in Terms, RowOf(terms, t)
  PROVE  /\ terms[t] \in TermRows /\ terms[t].source \in TermSources
         /\ terms[t].translations \in Seq(Translations)
  BY DEF TermTables, RowOf, TermRows

\* What one added term does: a row that is there gets a translation, or an
\* unused id gets a row.
TermAt(terms, new, src, t) ==
  /\ new \in TermTables
  /\ \A u \in Terms \ {t} : new[u] = terms[u]
  /\ t \in Terms =>
       /\ new[t] \in TermRows
       /\ SingleTerms(terms) => Distinct(new[t].translations)
  /\ \/ t \in Homonyms(terms, src) /\ new[t].source = terms[t].source
     \/ /\ Homonyms(terms, src) = {} /\ (t \in Terms => new[t].source = src)
        /\ Unused(terms) # {} => t \in Unused(terms)

LEMMA AddedAt ==
  ASSUME NEW terms \in TermTables, NEW src \in TermSources, NEW tr \in Translations, NEW t,
         Homonyms(terms, src) # {} => t \in Homonyms(terms, src),
         Homonyms(terms, src) = {} /\ Unused(terms) # {} => t \in Unused(terms)
  PROVE  TermAt(terms, Added(terms, src, tr, t), src, t)
<1>1. CASE Homonyms(terms, src) = {}
  <2> DEFINE row == [source |-> src, translations |-> Translated(<<>>, tr)]
             new == [terms EXCEPT ![t] = row]
  <2>1. <<>> \in Seq(Translations) /\ Distinct(<<>>)
    BY EmptySeq DEF Distinct
  <2>2. Translated(<<>>, tr) \in Seq(Translations) /\ Distinct(Translated(<<>>, tr))
    BY <2>1, TranslatedKeeps
  <2>3. row \in TermRows /\ row.source = src /\ Distinct(row.translations)
    BY <2>2 DEF TermRows
  <2>4. Added(terms, src, tr, t) = new
    BY <1>1 DEF Added
  <2> HIDE DEF row
  <2>5. new \in TermTables /\ (t \in Terms => new[t] = row) /\ \A u \in Terms \ {t} : new[u] = terms[u]
    BY <2>3 DEF TermTables
  <2> HIDE DEF new
  <2> QED BY <1>1, <2>3, <2>4, <2>5 DEF TermAt
<1>2. CASE Homonyms(terms, src) # {}
  <2>1. t \in Terms /\ RowOf(terms, t)
    BY <1>2 DEF Homonyms
  <2>2. terms[t] \in TermRows /\ terms[t].translations \in Seq(Translations)
    BY <2>1, TermFields
  <2> DEFINE list == Translated(terms[t].translations, tr)
             row == [terms[t] EXCEPT !.translations = list]
             new == [terms EXCEPT ![t] = row]
  <2>3. Added(terms, src, tr, t) = new
    BY <1>2 DEF Added
  <2>4. list \in Seq(Translations)
    BY <2>2, TranslatedType
  <2>5. SingleTerms(terms) => Distinct(list)
    BY <2>1, <2>2, TranslatedKeeps DEF SingleTerms
  <2> HIDE DEF list
  <2>6. row \in TermRows /\ row.source = terms[t].source /\ row.translations = list
    BY <2>2, <2>4 DEF TermRows
  <2> HIDE DEF row
  <2>7. new \in TermTables /\ new[t] = row /\ \A u \in Terms \ {t} : new[u] = terms[u]
    BY <2>1, <2>6 DEF TermTables
  <2> HIDE DEF new
  <2> QED BY <1>2, <2>3, <2>5, <2>6, <2>7 DEF TermAt
<1> QED
  BY <1>1, <1>2

\* An added term keeps one entry per term.
LEMMA AddedKeepsSingle ==
  ASSUME NEW terms \in TermTables, NEW new, NEW src \in TermSources, NEW t \in Terms,
         TermAt(terms, new, src, t), SingleTerms(terms)
  PROVE  SingleTerms(new)
<1>1. new[t] \in TermRows /\ RowOf(new, t)
  BY StoreAssumption DEF TermAt, RowOf
<1>2. \A u \in Terms : RowOf(new, u) => u = t \/ (RowOf(terms, u) /\ new[u] = terms[u])
  BY DEF TermAt, RowOf
<1>3. \A u, v \in Terms : RowOf(terms, u) /\ RowOf(terms, v) /\ u # v
                           => ~Same(terms[u].source, terms[v].source)
  BY DEF SingleTerms, Homonyms
<1>4. ASSUME NEW u \in Terms \ {t}, RowOf(new, u) PROVE ~Same(new[u].source, new[t].source)
  <2>1. RowOf(terms, u) /\ new[u] = terms[u]
    BY <1>2, <1>4
  <2>2. CASE t \in Homonyms(terms, src) /\ new[t].source = terms[t].source
    BY <1>3, <2>1, <2>2 DEF Homonyms
  <2>3. CASE Homonyms(terms, src) = {} /\ new[t].source = src
    BY <2>1, <2>3 DEF Homonyms, Same
  <2> QED BY <2>2, <2>3 DEF TermAt
<1>5. ASSUME NEW u \in Terms, NEW v \in Terms, RowOf(new, u), RowOf(new, v), u # v
      PROVE  ~Same(new[u].source, new[v].source)
  <2>1. CASE u = t
    BY <1>4, <1>5, <2>1 DEF Same
  <2>2. CASE v = t
    BY <1>4, <1>5, <2>2
  <2>3. CASE u # t /\ v # t
    BY <1>2, <1>3, <1>5, <2>3
  <2> QED BY <2>1, <2>2, <2>3
<1>6. ASSUME NEW u \in Terms, RowOf(new, u)
      PROVE  Homonyms(new, new[u].source) = {u} /\ Distinct(new[u].translations)
  <2>1. Homonyms(new, new[u].source) = {u}
    BY <1>5, <1>6 DEF Homonyms, Same
  <2>2. Distinct(new[u].translations)
    BY <1>2, <1>6 DEF SingleTerms, TermAt
  <2> QED BY <2>1, <2>2
<1> QED
  BY <1>6 DEF SingleTerms

LEMMA UnusedIsFinite ==
  ASSUME NEW terms
  PROVE  IsFiniteSet(Unused(terms)) /\ Cardinality(Unused(terms)) \in Nat
<1>1. Unused(terms) \in SUBSET Terms
  BY DEF Unused
<1>2. IsFiniteSet(Unused(terms))
  BY <1>1, TermbaseAssumption, FS_Subset
<1> QED
  BY <1>2, FS_CardinalityType

\* It takes at most one id, which was never used.
LEMMA AddedKeepsGone ==
  ASSUME NEW terms \in TermTables, NEW new, NEW src, NEW t, TermAt(terms, new, src, t),
         NEW k \in Nat, Cardinality(Unused(terms)) >= k + 1
  PROVE  /\ Cardinality(Unused(new)) >= k /\ t \in Terms
         /\ \A u \in Terms \cap gone.terms : terms[u] = None => new[u] = None
<1>1. Unused(terms) # {}
  BY FS_EmptySet
<1>2. t \in Terms
  BY <1>1 DEF TermAt, Unused, Homonyms
<1>3. \A u \in Terms \cap gone.terms : terms[u] = None => new[u] = None
  BY <1>1 DEF TermAt, Unused, Homonyms, RowOf
<1> DEFINE S == Unused(terms)
<1>4. S \ {t} \in SUBSET Unused(new)
  BY DEF TermAt, Unused, RowOf
<1>5. Cardinality(S) >= k + 1 /\ IsFiniteSet(S) /\ Cardinality(S) \in Nat
  BY UnusedIsFinite
<1> HIDE DEF S
<1>6. /\ IsFiniteSet(S \ {t})
      /\ Cardinality(S \ {t}) = IF t \in S THEN Cardinality(S) - 1 ELSE Cardinality(S)
  BY <1>5, FS_RemoveElement
<1>7. Cardinality(S \ {t}) <= Cardinality(Unused(new))
  BY <1>4, UnusedIsFinite, FS_Subset
<1>8. Cardinality(S \ {t}) \in Nat /\ Cardinality(Unused(new)) \in Nat
  BY <1>6, UnusedIsFinite, FS_CardinalityType
<1>9. Cardinality(Unused(new)) >= k
  BY <1>5, <1>6, <1>7, <1>8
<1> QED
  BY <1>2, <1>3, <1>9

\* One line of a file; termbase_import takes the first place there is.
Lines == [source : TermSources, term : TermTargets, forbidden : BOOLEAN]

LineAdded(terms, line) ==
  Added(terms, line.source, [term |-> line.term, forbidden |-> line.forbidden],
        CHOOSE t \in Places(terms, line.source) : TRUE)

LEMMA LineAt ==
  ASSUME NEW terms \in TermTables, NEW line \in Lines
  PROVE  \E t : TermAt(terms, LineAdded(terms, line), line.source, t)
<1> DEFINE src == line.source
           tr == [term |-> line.term, forbidden |-> line.forbidden]
           t == CHOOSE u \in Places(terms, src) : TRUE
<1>1. src \in TermSources /\ tr \in Translations
  BY DEF Lines, Translations
<1>2. /\ Homonyms(terms, src) # {} => t \in Homonyms(terms, src)
      /\ Homonyms(terms, src) = {} /\ Unused(terms) # {} => t \in Unused(terms)
  BY DEF Places
<1>3. LineAdded(terms, line) = Added(terms, src, tr, t)
  BY DEF LineAdded
<1> HIDE DEF src, tr, t
<1>4. TermAt(terms, Added(terms, src, tr, t), src, t)
  BY <1>1, <1>2, AddedAt
<1> QED
  BY <1>3, <1>4 DEF src

\* The lines of a file one after the other.
LEMMA MergedFold ==
  ASSUME NEW terms \in TermTables, NEW file \in Seq(Lines)
  PROVE  \E b \in [0..Len(file) -> TermTables] :
           /\ b[0] = terms /\ Merged(terms, file) = b[Len(file)]
           /\ \A i \in 1..Len(file) : b[i] = LineAdded(b[i - 1], file[i])
<1> DEFINE N == Len(file)
           Defines(g) == g = [s \in SUBSET (DOMAIN file) |->
                                IF s = {} THEN terms
                                ELSE LineAdded(g[s \ {Max(s)}], file[Max(s)])]
           F == CHOOSE g : Defines(g)
           b == [i \in 0..N |-> F[1..i]]
<1>1. Merged(terms, file) = F[DOMAIN file]
  BY DEF Merged, LineAdded, FoldLeft, MapThenFoldSet
<1>2. N \in Nat /\ DOMAIN file = 1..N /\ \A i \in 1..N : file[i] \in Lines
  BY ElementOfSeq, LenProperties
<1>3. ASSUME NEW x \in TermTables, NEW i \in 1..N PROVE LineAdded(x, file[i]) \in TermTables
  BY <1>2, LineAt DEF TermAt
<1> HIDE DEF N
<1>4. \E g : Defines(g)
  <2> DEFINE Op == [i \in 1..N |-> [x \in TermTables |-> LineAdded(x, file[i])]]
  <2>1. Op \in [1..N -> [TermTables -> TermTables]]
    BY <1>3
  <2> HIDE DEF Op
  <2>3. PICK g \in [SUBSET (1..N) -> TermTables] : FoldsTo(N, terms, Op, g)
    BY <1>2, <2>1, FoldExists
  <2>4. ASSUME NEW s \in SUBSET (1..N)
        PROVE  g[s] = IF s = {} THEN terms ELSE LineAdded(g[s \ {Max(s)}], file[Max(s)])
    <3>1. CASE s = {}
      BY <2>3, <3>1 DEF FoldsTo
    <3>2. CASE s # {}
      <4>1. Max(s) \in 1..N
        BY <1>2, <3>2, MaxIn
      <4>2. s \ {Max(s)} \in SUBSET (1..N)
        OBVIOUS
      <4>3. g[s \ {Max(s)}] \in TermTables
        BY <4>2
      <4>4. g[s] = Op[Max(s)][g[s \ {Max(s)}]]
        BY <2>3, <3>2 DEF FoldsTo
      <4> QED BY <3>2, <4>1, <4>3, <4>4 DEF Op
    <3> QED BY <3>1, <3>2
  <2>5. Defines(g)
    BY <1>2, <2>4
  <2> QED BY <2>5
<1>5. Defines(F)
  <2> HIDE DEF Defines
  <2> QED BY <1>4
<1> HIDE DEF F
<1>6. F[1..0] = terms
  <2>1. 1..0 = {} /\ (1..0) \in SUBSET (1..N)
    OBVIOUS
  <2> QED BY <1>2, <1>5, <2>1
<1>7. ASSUME NEW i \in 1..N PROVE F[1..i] = LineAdded(F[1..(i - 1)], file[i])
  <2>1. (1..i) \in SUBSET (1..N) /\ 1..i # {} /\ (1..i) \ {i} = 1..(i - 1) /\ Max(1..i) = i
    BY <1>2, Prefix
  <2>2. F[1..i] = LineAdded(F[(1..i) \ {Max(1..i)}], file[Max(1..i)])
    BY <1>2, <1>5, <2>1
  <2> QED BY <2>1, <2>2
<1> HIDE DEF Defines
<1>8. \A i \in 0..N : F[1..i] \in TermTables
  <2> DEFINE T == {i \in 0..N : F[1..i] \in TermTables}
  <2>1. 0 \in T
    BY <1>2, <1>6
  <2>2. ASSUME NEW i \in 0..N, i \in T, i < N PROVE i + 1 \in T
    <3>1. i + 1 \in 1..N /\ (i + 1) - 1 = i
      BY <1>2, <2>2
    <3>2. F[1..(i + 1)] = LineAdded(F[1..i], file[i + 1])
      BY <1>7, <3>1
    <3> QED BY <1>3, <2>2, <3>1, <3>2
  <2>3. \A i \in 0..N : i \in T
    <3> HIDE DEF T
    <3>1. \A i \in 0..N : i \in T /\ i < N => i + 1 \in T
      BY <2>2
    <3> QED BY <1>2, <2>1, <3>1, Ascent
  <2> QED BY <2>3
<1>9. b \in [0..N -> TermTables] /\ b[0] = terms /\ b[N] = F[1..N]
  BY <1>2, <1>6, <1>8
<1>10. \A i \in 1..N : b[i] = LineAdded(b[i - 1], file[i])
  <2> TAKE i \in 1..N
  <2>1. i \in 0..N /\ i - 1 \in 0..N
    BY <1>2
  <2> QED BY <1>7, <2>1
<1> HIDE DEF b
<1> QED
  BY <1>1, <1>2, <1>9, <1>10 DEF N

\* termbase.import: the table after a whole file.
LEMMA MergedKeeps ==
  ASSUME NEW terms \in TermTables, NEW file \in Seq(Lines), Cardinality(Unused(terms)) >= Len(file)
  PROVE  /\ Merged(terms, file) \in TermTables
         /\ SingleTerms(terms) => SingleTerms(Merged(terms, file))
         /\ \A u \in Terms \cap gone.terms : terms[u] = None => Merged(terms, file)[u] = None
<1> DEFINE N == Len(file)
<1>1. PICK b \in [0..N -> TermTables] :
           /\ b[0] = terms /\ Merged(terms, file) = b[N]
           /\ \A i \in 1..N : b[i] = LineAdded(b[i - 1], file[i])
  BY MergedFold
<1>2. N \in Nat /\ \A i \in 1..N : file[i] \in Lines
  BY ElementOfSeq, LenProperties
<1>0. Cardinality(Unused(terms)) >= N
  OBVIOUS
<1> HIDE DEF N
<1> DEFINE T == {i \in 0..N :
                   /\ SingleTerms(terms) => SingleTerms(b[i])
                   /\ \A u \in Terms \cap gone.terms : terms[u] = None => b[i][u] = None
                   /\ Cardinality(Unused(b[i])) >= N - i}
<1>3. 0 \in T
  BY <1>0, <1>1, <1>2
<1>4. ASSUME NEW i \in 0..N, i \in T, i < N PROVE i + 1 \in T
  <2>1. i + 1 \in 1..N /\ (i + 1) - 1 = i /\ (N - (i + 1)) + 1 = N - i /\ N - (i + 1) \in Nat
    BY <1>2, <1>4
  <2>2. b[i] \in TermTables /\ file[i + 1] \in Lines /\ b[i + 1] = LineAdded(b[i], file[i + 1])
    BY <1>1, <1>2, <2>1
  <2> DEFINE src == file[i + 1].source
  <2>3. PICK t : TermAt(b[i], b[i + 1], src, t)
    BY <2>2, LineAt
  <2>4. src \in TermSources
    BY <2>2 DEF Lines
  <2> HIDE DEF src
  <2>5. Cardinality(Unused(b[i])) >= (N - (i + 1)) + 1
    BY <1>4, <2>1
  <2>6. /\ Cardinality(Unused(b[i + 1])) >= N - (i + 1) /\ t \in Terms
        /\ \A u \in Terms \cap gone.terms : b[i][u] = None => b[i + 1][u] = None
    BY <2>1, <2>2, <2>3, <2>5, AddedKeepsGone
  <2>7. SingleTerms(b[i]) => SingleTerms(b[i + 1])
    BY <2>2, <2>3, <2>4, <2>6, AddedKeepsSingle
  <2> QED BY <1>4, <2>1, <2>6, <2>7
<1>5. N \in T
  <2> HIDE DEF T
  <2>1. \A i \in 0..N : i \in T /\ i < N => i + 1 \in T
    BY <1>4
  <2>2. N \in 0..N
    BY <1>2
  <2> QED BY <1>2, <1>3, <2>1, <2>2, Ascent
<1> QED
  BY <1>1, <1>2, <1>5

-----------------------------------------------------------------------------
(* Types.                                                                   *)

ProjectTables  == [Projects -> ProjectRows \cup {None}]
DocumentTables == [Documents -> DocumentRows \cup {None}]
MemoryTables   == [Projects -> Pairs \cup {None}]
MountTables    == SUBSET (Projects \X Projects)
Indexes        == [Entries -> IndexRows \cup {None}]

Headers ==
  [version : 0..Migrations + 1, imported : {"no", "fresh", "imported"}, materialized : BOOLEAN]

Rams ==
  [projects : ProjectTables, documents : DocumentTables, memories : MemoryTables,
   mounts : MountTables, termMounts : SUBSET Projects]

Removed ==
  [documents : SUBSET Documents, memories : SUBSET Projects, mounts : MountTables,
   tm : SUBSET Entries, terms : SUBSET Terms]

TypeInv ==
  /\ TypeOK
  /\ header \in Headers /\ ram \in Rams /\ index \in Indexes
  /\ legacyFile \in {"none", "json", "torn", "backup"} /\ gone \in Removed

TableNames == {"projects", "documents", "memories", "mounts", "tm", "terms", "termMounts"}

\* Two databases, two sets of loaded tables or two histories differ in these only.
Only(x, y, names) == \A name \in TableNames \ names : y[name] = x[name]

LEMMA TableSorts ==
  Tables = [projects : ProjectTables, documents : DocumentTables, memories : MemoryTables,
            mounts : MountTables, tm : EntryTables, terms : TermTables,
            termMounts : SUBSET Projects]
BY DEF Tables, ProjectTables, DocumentTables, MemoryTables, MountTables, EntryTables, TermTables

LEMMA LoadedFields ==
  ASSUME NEW x \in Tables
  PROVE  /\ Loaded(x) \in Rams
         /\ \A r \in Rams : r = Loaded(x) <=>
              /\ r.projects = x.projects /\ r.documents = x.documents
              /\ r.memories = x.memories /\ r.mounts = x.mounts /\ r.termMounts = x.termMounts
<1> USE TableSorts DEF Loaded, Rams
<1>1. Loaded(x) \in Rams
  OBVIOUS
<1>2. ASSUME NEW r \in Rams, r.projects = x.projects, r.documents = x.documents,
             r.memories = x.memories, r.mounts = x.mounts, r.termMounts = x.termMounts
      PROVE  r = Loaded(x)
  BY <1>2
<1> QED BY <1>1, <1>2

LEMMA EmptyIsTables ==
  /\ EmptyTables \in Tables
  /\ \A p \in Projects : EmptyTables.projects[p] = None /\ EmptyTables.memories[p] = None
  /\ \A d \in Documents : EmptyTables.documents[d] = None
  /\ \A e \in Entries : EmptyTables.tm[e] = None
  /\ \A t \in Terms : EmptyTables.terms[t] = None
  /\ EmptyTables.mounts = {}
BY TableSorts DEF EmptyTables, ProjectTables, DocumentTables, MemoryTables, MountTables,
   EntryTables, TermTables

LEMMA IndexType ==
  ASSUME NEW x \in Tables
  PROVE  IndexOf(x) \in Indexes
<1>1. x.tm \in EntryTables
  BY TableSorts
<1>2. ASSUME NEW e \in Entries, x.tm[e] # None
      PROVE  [memory |-> x.tm[e].memory, source |-> x.tm[e].source] \in IndexRows
  BY <1>1, <1>2 DEF EntryTables, EntryRows, IndexRows
<1> QED
  BY <1>2 DEF IndexOf, RowOf, Indexes

\* The import keeps the tables of state.json but entries of the same key.
LEMMA DedupedType ==
  ASSUME NEW x \in Deduped(Legacy)
  PROVE  /\ x \in Tables /\ Only(Legacy, x, {"tm"})
         /\ x.memories = EmptyTables.memories /\ x.mounts = {}
<1>1. PICK kept \in SUBSET Entries :
        x = [Legacy EXCEPT !.tm = [e \in Entries |-> IF e \in kept THEN Legacy.tm[e] ELSE None]]
  BY DEF Deduped
<1> DEFINE tm == [e \in Entries |-> IF e \in kept THEN Legacy.tm[e] ELSE None]
<1>2. tm \in EntryTables /\ Legacy \in Tables
  BY StoreAssumption, TableSorts DEF EntryTables
<1> HIDE DEF tm
<1>3. x \in Tables /\ Only(Legacy, x, {"tm"})
  BY <1>1, <1>2, TableSorts DEF tm, Only, TableNames
<1> QED
  BY <1>3, StoreAssumption DEF Only, TableNames

LEMMA UpsertedType ==
  ASSUME NEW I, NEW S, NEW t \in [I -> S], NEW u \in [I -> S]
  PROVE  Upserted(t, u) \in [I -> S]
BY DEF Upserted

\* What the import of state.json writes into a database without rows.
LEMMA ImportWrites ==
  ASSUME TypeInv, ImportLegacy, disk' # disk
  PROVE  /\ phase = "import" /\ phase' = "rename" /\ ~Imported /\ legacyFile = "json"
         /\ header' = [header EXCEPT !.imported = "imported"]
         /\ \E x \in Deduped(Legacy) :
              /\ disk' \in Tables /\ Only(disk, disk', {"projects", "documents", "tm", "terms", "termMounts"})
              /\ disk'.projects = Upserted(disk.projects, x.projects)
              /\ disk'.documents = Upserted(disk.documents, x.documents)
              /\ disk'.tm = Upserted(disk.tm, x.tm) /\ disk'.terms = Upserted(disk.terms, x.terms)
<1>1. /\ phase = "import" /\ phase' = "rename" /\ ~Imported /\ legacyFile = "json"
      /\ header' = [header EXCEPT !.imported = "imported"]
      /\ \E state \in Deduped(Legacy) :
           disk' = [disk EXCEPT !.projects = Upserted(@, state.projects),
                                !.documents = Upserted(@, state.documents),
                                !.tm = Upserted(@, state.tm),
                                !.terms = Upserted(@, state.terms),
                                !.termMounts = @ \cup state.termMounts]
  BY DEF ImportLegacy
<1>2. PICK x \in Deduped(Legacy) :
           disk' = [disk EXCEPT !.projects = Upserted(disk.projects, x.projects),
                                !.documents = Upserted(disk.documents, x.documents),
                                !.tm = Upserted(disk.tm, x.tm),
                                !.terms = Upserted(disk.terms, x.terms),
                                !.termMounts = disk.termMounts \cup x.termMounts]
  BY <1>1
<1>3. x \in Tables /\ disk \in Tables
  BY DedupedType DEF TypeInv, TypeOK
<1> DEFINE ps == Upserted(disk.projects, x.projects)
           ds == Upserted(disk.documents, x.documents)
           es == Upserted(disk.tm, x.tm)
           ts == Upserted(disk.terms, x.terms)
           ms == disk.termMounts \cup x.termMounts
<1>4. ps \in ProjectTables /\ ds \in DocumentTables
  BY <1>3, UpsertedType, TableSorts DEF ProjectTables, DocumentTables
<1>5. es \in EntryTables /\ ts \in TermTables /\ ms \in SUBSET Projects
  BY <1>3, UpsertedType, TableSorts DEF EntryTables, TermTables
<1>6. disk' = [disk EXCEPT !.projects = ps, !.documents = ds, !.tm = es, !.terms = ts, !.termMounts = ms]
  BY <1>2
<1> HIDE DEF ps, ds, es, ts, ms
<1>7. /\ disk' \in Tables /\ Only(disk, disk', {"projects", "documents", "tm", "terms", "termMounts"})
      /\ disk'.projects = ps /\ disk'.documents = ds /\ disk'.tm = es /\ disk'.terms = ts
  BY <1>3, <1>4, <1>5, <1>6, TableSorts DEF Only, TableNames
<1> QED
  BY <1>1, <1>7 DEF ps, ds, es, ts

\* What the first opening by this build writes.
LEMMA MaterializeWrites ==
  ASSUME TypeInv, Materialize
  PROVE  /\ phase = "materialize" /\ phase' = "load"
         /\ \/ Materialized /\ disk' = disk /\ header' = header
            \/ /\ ~Materialized /\ header' = [header EXCEPT !.materialized = TRUE]
               /\ disk' \in Tables /\ Only(disk, disk', {"memories", "mounts"})
               /\ \A p \in Projects : \/ disk'.memories[p] = disk.memories[p]
                                      \/ RowOf(disk.projects, p)
               /\ \A m \in disk'.mounts : m \in disk.mounts \/ \E p \in Projects : m = <<p, p>> /\ RowOf(disk.projects, p)
<1>1. /\ phase = "materialize" /\ phase' = "load"
      /\ \/ Materialized /\ disk' = disk /\ header' = header
         \/ ~Materialized /\ header' = [header EXCEPT !.materialized = TRUE]
  BY DEF Materialize
<1>2. ASSUME ~Materialized
      PROVE  /\ disk' \in Tables /\ Only(disk, disk', {"memories", "mounts"})
             /\ \A p \in Projects : \/ disk'.memories[p] = disk.memories[p]
                                    \/ RowOf(disk.projects, p)
             /\ \A m \in disk'.mounts : m \in disk.mounts \/ \E p \in Projects : m = <<p, p>> /\ RowOf(disk.projects, p)
  <2> DEFINE bare == {p \in Projects : RowOf(disk.projects, p) /\ \A q \in Projects : <<p, q>> \notin disk.mounts}
             ms == [p \in Projects |-> IF p \in bare /\ disk.memories[p] = None
                                       THEN disk.projects[p].pair ELSE disk.memories[p]]
             mounts == disk.mounts \cup {<<p, p>> : p \in bare}
  <2>1. disk' = [disk EXCEPT !.memories = ms, !.mounts = mounts]
    BY <1>2 DEF Materialize
  <2>2. disk \in Tables
    BY DEF TypeInv, TypeOK
  <2>3. ms \in MemoryTables
    <3>1. \A p \in bare : disk.projects[p].pair \in Pairs
      BY <2>2, TableSorts DEF ProjectTables, ProjectRows, RowOf
    <3>2. \A p \in Projects : disk.memories[p] \in Pairs \cup {None}
      BY <2>2, TableSorts DEF MemoryTables
    <3> QED BY <3>1, <3>2 DEF MemoryTables
  <2>4. mounts \in MountTables
    BY <2>2, TableSorts DEF MountTables
  <2>5. \A p \in Projects : ms[p] = disk.memories[p] \/ RowOf(disk.projects, p)
    OBVIOUS
  <2>6. \A m \in mounts : m \in disk.mounts \/ \E p \in Projects : m = <<p, p>> /\ RowOf(disk.projects, p)
    OBVIOUS
  <2> HIDE DEF ms, mounts
  <2>7. /\ disk' \in Tables /\ Only(disk, disk', {"memories", "mounts"})
        /\ disk'.memories = ms /\ disk'.mounts = mounts
    BY <2>1, <2>2, <2>3, <2>4, TableSorts DEF Only, TableNames
  <2> QED BY <2>5, <2>6, <2>7
<1> QED
  BY <1>1, <1>2

-----------------------------------------------------------------------------
(* What each handler writes and what it changes in RAM.                     *)

\* The transaction of a handler fails, or what it writes is stored.
Failed == disk' = disk /\ failures < MaxFailures /\ failures' = failures + 1 /\ clean' = FALSE
Stored == disk' \in Tables /\ UNCHANGED <<failures, clean>>

LEMMA RefusedFails == Refused => Failed
BY DEF Refused, Fail, Failed

LEMMA TableTypes == TypeInv => disk \in Tables /\ ram \in Rams
BY DEF TypeInv, TypeOK

\* A project comes with its own memory, mounted.
LEMMA ProjectCreateWrites ==
  ASSUME TypeInv, ProjectCreate
  PROVE  /\ Called /\ UNCHANGED <<index, copies, gone>>
         /\ \/ Failed /\ ram' = ram
            \/ \E p \in Projects, row \in ProjectRows :
                 /\ ram.projects[p] = None /\ Stored
                 /\ Only(disk, disk', {"projects", "memories", "mounts"})
                 /\ disk'.projects = [disk.projects EXCEPT ![p] = row]
                 /\ disk'.memories = [disk.memories EXCEPT ![p] = row.pair]
                 /\ disk'.mounts = disk.mounts \cup {<<p, p>>}
                 /\ ram' \in Rams /\ ram'.documents = ram.documents /\ ram'.termMounts = ram.termMounts
                 /\ ram'.projects = [ram.projects EXCEPT ![p] = row]
                 /\ ram'.memories = [ram.memories EXCEPT ![p] = row.pair]
                 /\ ram'.mounts = ram.mounts \cup {<<p, p>>}
<1>1. PICK p \in Projects, pair \in Pairs :
        LET with(tables) ==
              [tables EXCEPT !.projects[p] = [pair |-> pair, archived |-> FALSE, gated |-> FALSE],
                             !.memories[p] = pair, !.mounts = @ \cup {<<p, p>>}]
        IN /\ Called /\ UNCHANGED <<index, copies, gone>> /\ ram.projects[p] = None
           /\ \/ Written(with(disk)) /\ ram' = with(ram)
              \/ Refused /\ UNCHANGED ram
  BY DEF ProjectCreate, New, RowOf
<1> DEFINE row == [pair |-> pair, archived |-> FALSE, gated |-> FALSE]
<1>2. row \in ProjectRows /\ row.pair = pair
  BY DEF ProjectRows
<1>3. CASE Refused /\ ram' = ram
  BY <1>1, <1>3 DEF Refused, Fail, Failed
<1>4. CASE ~(Refused /\ ram' = ram)
  <2> HIDE DEF row
  <2> DEFINE dps == [disk.projects EXCEPT ![p] = row]
             dms == [disk.memories EXCEPT ![p] = pair]
             dmt == disk.mounts \cup {<<p, p>>}
             rps == [ram.projects EXCEPT ![p] = row]
             rms == [ram.memories EXCEPT ![p] = pair]
             rmt == ram.mounts \cup {<<p, p>>}
  <2>1. dps \in ProjectTables /\ dms \in MemoryTables /\ dmt \in MountTables
    BY <1>2, TableTypes, TableSorts DEF ProjectTables, MemoryTables, MountTables
  <2>2. rps \in ProjectTables /\ rms \in MemoryTables /\ rmt \in MountTables
    BY <1>2, TableTypes DEF Rams, ProjectTables, MemoryTables, MountTables
  <2>3. /\ Written([disk EXCEPT !.projects = dps, !.memories = dms, !.mounts = dmt])
        /\ ram' = [ram EXCEPT !.projects = rps, !.memories = rms, !.mounts = rmt]
    BY <1>1, <1>4 DEF row
  <2> HIDE DEF dps, dms, dmt, rps, rms, rmt
  <2>4. /\ Stored /\ Only(disk, disk', {"projects", "memories", "mounts"})
        /\ disk'.projects = dps /\ disk'.memories = dms /\ disk'.mounts = dmt
    BY <2>1, <2>3, TableTypes, TableSorts DEF Only, TableNames, Written, Commit, Stored
  <2>5. /\ ram' \in Rams /\ ram'.documents = ram.documents /\ ram'.termMounts = ram.termMounts
        /\ ram'.projects = rps /\ ram'.memories = rms /\ ram'.mounts = rmt
    BY <2>2, <2>3, TableTypes DEF Rams
  <2> QED BY <1>1, <1>2, <2>4, <2>5 DEF dps, dms, dmt, rps, rms, rmt
<1> QED BY <1>3, <1>4

\* A row is saved as it is in RAM.
LEMMA SaveProjectWrites ==
  ASSUME TypeInv, NEW p \in Projects, NEW row \in ProjectRows, SaveProject(p, row)
  PROVE  /\ Called /\ UNCHANGED <<index, copies, gone>>
         /\ ram' \in Rams /\ Only(ram, ram', {"projects", "tm", "terms"})
         /\ ram'.projects = [ram.projects EXCEPT ![p] = row]
         /\ \/ Failed
            \/ /\ Stored /\ Only(disk, disk', {"projects"})
               /\ disk'.projects = [disk.projects EXCEPT ![p] = row]
<1> DEFINE dps == [disk.projects EXCEPT ![p] = row]
           rps == [ram.projects EXCEPT ![p] = row]
<1>1. /\ Called /\ UNCHANGED <<index, copies, gone>> /\ ram' = [ram EXCEPT !.projects = rps]
      /\ Written([disk EXCEPT !.projects = dps]) \/ Refused
  BY DEF SaveProject
<1>2. dps \in ProjectTables /\ rps \in ProjectTables
  BY TableTypes, TableSorts DEF Rams, ProjectTables
<1> HIDE DEF dps, rps
<1>3. ram' \in Rams /\ Only(ram, ram', {"projects", "tm", "terms"}) /\ ram'.projects = rps
  BY <1>1, <1>2, TableTypes DEF Rams, Only, TableNames
<1>4. CASE Refused
  BY <1>1, <1>3, <1>4 DEF Refused, Fail, Failed, rps
<1>5. CASE Written([disk EXCEPT !.projects = dps])
  <2>1. /\ Stored /\ Only(disk, disk', {"projects"})
        /\ disk'.projects = dps
    BY <1>2, <1>5, TableTypes, TableSorts DEF Only, TableNames, Written, Commit, Stored
  <2> QED BY <1>1, <1>3, <2>1 DEF dps, rps
<1> QED BY <1>1, <1>4, <1>5

\* Archiving and gating save the row of RAM with the flag.
LEMMA ProjectSaves ==
  ASSUME TypeInv, ProjectArchive \/ QaProfileUpdate
  PROVE  \E p \in ProjectIds, row \in ProjectRows :
           SaveProject(p, row) /\ row.pair = ram.projects[p].pair
<1>0. \A p \in ProjectIds : p \in Projects /\ ram.projects[p] \in ProjectRows
  BY TableTypes DEF ProjectIds, RowOf, Rams, ProjectTables
<1>1. CASE ProjectArchive
  <2>1. PICK p \in ProjectIds, archived \in BOOLEAN : SaveProject(p, [ram.projects[p] EXCEPT !.archived = archived])
    BY <1>1 DEF ProjectArchive
  <2>2. [ram.projects[p] EXCEPT !.archived = archived] \in ProjectRows
        /\ [ram.projects[p] EXCEPT !.archived = archived].pair = ram.projects[p].pair
    BY <1>0 DEF ProjectRows
  <2> QED BY <2>1, <2>2
<1>2. CASE QaProfileUpdate
  <2>1. PICK p \in ProjectIds, gated \in BOOLEAN : SaveProject(p, [ram.projects[p] EXCEPT !.gated = gated])
    BY <1>2 DEF QaProfileUpdate
  <2>2. [ram.projects[p] EXCEPT !.gated = gated] \in ProjectRows
        /\ [ram.projects[p] EXCEPT !.gated = gated].pair = ram.projects[p].pair
    BY <1>0 DEF ProjectRows
  <2> QED BY <2>1, <2>2
<1> QED BY <1>1, <1>2

\* A project moves to another language pair, and memories of its own with it.
LEMMA ProjectUpdateWrites ==
  ASSUME TypeInv, ProjectUpdate
  PROVE  /\ Called /\ UNCHANGED <<index, copies, gone>>
         /\ \E p \in ProjectIds, row \in ProjectRows :
              /\ PairIsFree(p)
              /\ ram' \in Rams /\ Only(ram, ram', {"projects", "memories", "tm", "terms"})
              /\ ram'.projects = [ram.projects EXCEPT ![p] = row]
              /\ \A m \in Projects : RowOf(ram'.memories, m) => RowOf(ram.memories, m)
              /\ \/ Failed
                 \/ /\ Stored /\ Only(disk, disk', {"projects", "memories"})
                    /\ disk'.projects = [disk.projects EXCEPT ![p] = row]
                    /\ \A m \in Projects :
                         /\ disk'.memories[m] = disk.memories[m] \/ RowOf(ram.memories, m)
                         /\ disk.memories[m] = ram.memories[m] => disk'.memories[m] = ram'.memories[m]
<1>1. PICK p \in ProjectIds, pair \in Pairs :
        LET row == [ram.projects[p] EXCEPT !.pair = pair]
            changed == {m \in Projects : Followed(p, pair)[m] # ram.memories[m]}
        IN /\ PairIsFree(p)
           /\ Called
           /\ \/ /\ ram' = [ram EXCEPT !.projects[p] = row, !.memories = Followed(p, pair)]
                 /\ \/ Written([disk EXCEPT !.projects[p] = row,
                         !.memories = [m \in Projects |-> IF m \in changed THEN pair ELSE @[m]]])
                    \/ Refused
              \/ \E done \in SUBSET changed :
                   /\ ram' = [ram EXCEPT !.projects[p] = row,
                         !.memories = [m \in Projects |-> IF m \in done THEN pair ELSE @[m]]]
                   /\ Refused
           /\ UNCHANGED <<index, copies, gone>>
  BY DEF ProjectUpdate
<1> DEFINE row == [ram.projects[p] EXCEPT !.pair = pair]
           changed == {m \in Projects : Followed(p, pair)[m] # ram.memories[m]}
           dps == [disk.projects EXCEPT ![p] = row]
           rps == [ram.projects EXCEPT ![p] = row]
           dms == [m \in Projects |-> IF m \in changed THEN pair ELSE disk.memories[m]]
           some(done) == [m \in Projects |-> IF m \in done THEN pair ELSE ram.memories[m]]
<1>2. p \in Projects /\ row \in ProjectRows
  <2>1. p \in Projects /\ ram.projects[p] \in ProjectRows
    BY TableTypes DEF ProjectIds, RowOf, Rams, ProjectTables
  <2> QED BY <2>1 DEF ProjectRows
<1>3. /\ \A m \in changed : RowOf(ram.memories, m) /\ m \in Projects
      /\ Followed(p, pair) = some(changed)
  BY DEF Followed
<1>4. dms \in MemoryTables /\ \A done : some(done) \in MemoryTables
  BY TableTypes, TableSorts DEF MemoryTables, Rams
<1> HIDE DEF row
<1>5. dps \in ProjectTables /\ rps \in ProjectTables
  BY <1>2, TableTypes, TableSorts DEF ProjectTables, Rams
<1>6. /\ \A m \in Projects : dms[m] = disk.memories[m] \/ RowOf(ram.memories, m)
      /\ \A m \in Projects : disk.memories[m] = ram.memories[m] => dms[m] = some(changed)[m]
  BY <1>3
<1>7. \A done \in SUBSET changed : \A m \in Projects : RowOf(some(done), m) => RowOf(ram.memories, m)
  BY <1>3 DEF RowOf
<1>8. \E done \in SUBSET changed :
        /\ ram' = [ram EXCEPT !.projects = rps, !.memories = some(done)]
        /\ \/ Refused
           \/ done = changed /\ Written([disk EXCEPT !.projects = dps, !.memories = dms])
  BY <1>1, <1>3 DEF row
<1> HIDE DEF changed, dps, rps, dms, some
<1>9. PICK done \in SUBSET changed :
        /\ ram' = [ram EXCEPT !.projects = rps, !.memories = some(done)]
        /\ \/ Refused
           \/ done = changed /\ Written([disk EXCEPT !.projects = dps, !.memories = dms])
  BY <1>8
<1>10. /\ ram' \in Rams /\ Only(ram, ram', {"projects", "memories", "tm", "terms"})
       /\ ram'.projects = rps /\ ram'.memories = some(done)
  BY <1>4, <1>5, <1>9, TableTypes DEF Rams, Only, TableNames
<1>11. Failed \/ /\ Stored /\ Only(disk, disk', {"projects", "memories"}) /\ done = changed
                 /\ disk'.projects = dps /\ disk'.memories = dms
  <2>1. CASE Refused
    BY <2>1, RefusedFails
  <2>2. CASE done = changed /\ Written([disk EXCEPT !.projects = dps, !.memories = dms])
    BY <1>4, <1>5, <2>2, TableTypes, TableSorts DEF Only, TableNames, Written, Commit, Stored
  <2> QED BY <1>9, <2>1, <2>2
<1>12. \A m \in Projects : RowOf(ram'.memories, m) => RowOf(ram.memories, m)
  BY <1>7, <1>9, <1>10
<1>13. \/ Failed
       \/ /\ Stored /\ Only(disk, disk', {"projects", "memories"}) /\ disk'.projects = dps
          /\ \A m \in Projects :
               /\ disk'.memories[m] = disk.memories[m] \/ RowOf(ram.memories, m)
               /\ disk.memories[m] = ram.memories[m] => disk'.memories[m] = ram'.memories[m]
  BY <1>6, <1>10, <1>11
<1>14. PairIsFree(p) /\ Called /\ UNCHANGED <<index, copies, gone>>
  BY <1>1
<1> QED
  BY <1>2, <1>10, <1>12, <1>13, <1>14, Zenon DEF dps, rps

LEMMA DocumentImportWrites ==
  ASSUME TypeInv, DocumentImport
  PROVE  /\ Called /\ UNCHANGED gone
         /\ \E d \in Documents, row \in DocumentRows :
              /\ RowOf(ram.projects, row.project) /\ row.pair = ram.projects[row.project].pair
              /\ ram.documents[d] = None /\ d \notin copies /\ d \notin gone.documents
              /\ copies' = copies \cup {d}
              /\ \/ /\ Stored /\ Only(disk, disk', {"documents"})
                    /\ disk'.documents = [disk.documents EXCEPT ![d] = row]
                    /\ ram' \in Rams /\ Only(ram, ram', {"documents", "tm", "terms"})
                    /\ ram'.documents = [ram.documents EXCEPT ![d] = row]
                    /\ UNCHANGED <<index, phase, crashes>>
                 \/ Failed /\ UNCHANGED <<ram, index, phase, crashes>>
                 \/ Dies /\ UNCHANGED <<disk, clean, failures>>
<1>1. PICK p \in ProjectIds, d \in New(Documents, ram.documents) \ (copies \cup gone.documents) :
        LET row == [project |-> p, pair |-> ram.projects[p].pair]
        IN /\ Called
           /\ copies' = copies \cup {d}
           /\ \/ /\ Written([disk EXCEPT !.documents[d] = row])
                 /\ ram' = [ram EXCEPT !.documents[d] = row]
                 /\ UNCHANGED <<index, phase, crashes>>
              \/ Refused /\ UNCHANGED <<ram, index, phase, crashes>>
              \/ Dies /\ UNCHANGED <<disk, clean, failures>>
           /\ UNCHANGED gone
  BY DEF DocumentImport
<1> DEFINE row == [project |-> p, pair |-> ram.projects[p].pair]
           dds == [disk.documents EXCEPT ![d] = row]
           rds == [ram.documents EXCEPT ![d] = row]
<1>2. /\ d \in Documents /\ ram.documents[d] = None /\ d \notin copies /\ d \notin gone.documents
      /\ RowOf(ram.projects, p)
  BY DEF New, ProjectIds, RowOf
<1>3. row \in DocumentRows /\ row.project = p /\ row.pair = ram.projects[p].pair
  <2>1. p \in Projects /\ ram.projects[p] \in ProjectRows
    BY TableTypes DEF ProjectIds, RowOf, Rams, ProjectTables
  <2> QED BY <2>1 DEF ProjectRows, DocumentRows
<1> HIDE DEF row
<1>4. dds \in DocumentTables /\ rds \in DocumentTables
  BY <1>3, TableTypes, TableSorts DEF DocumentTables, Rams
<1> HIDE DEF dds, rds
<1>5. \/ /\ Written([disk EXCEPT !.documents = dds]) /\ ram' = [ram EXCEPT !.documents = rds]
         /\ UNCHANGED <<index, phase, crashes>>
      \/ Failed /\ UNCHANGED <<ram, index, phase, crashes>>
      \/ Dies /\ UNCHANGED <<disk, clean, failures>>
  BY <1>1, RefusedFails DEF dds, rds, row
<1>6. ASSUME Written([disk EXCEPT !.documents = dds]), ram' = [ram EXCEPT !.documents = rds]
      PROVE  /\ Stored /\ Only(disk, disk', {"documents"}) /\ disk'.documents = dds
             /\ ram' \in Rams /\ Only(ram, ram', {"documents", "tm", "terms"}) /\ ram'.documents = rds
  <2>1. Stored /\ Only(disk, disk', {"documents"}) /\ disk'.documents = dds
    BY <1>4, <1>6, TableTypes, TableSorts DEF Only, TableNames, Written, Commit, Stored
  <2>2. ram' \in Rams /\ Only(ram, ram', {"documents", "tm", "terms"}) /\ ram'.documents = rds
    BY <1>4, <1>6, TableTypes DEF Rams, Only, TableNames
  <2> QED BY <2>1, <2>2
<1>7. Called /\ copies' = copies \cup {d} /\ UNCHANGED gone
  BY <1>1
<1>8. \/ /\ Stored /\ Only(disk, disk', {"documents"})
         /\ disk'.documents = [disk.documents EXCEPT ![d] = row]
         /\ ram' \in Rams /\ Only(ram, ram', {"documents", "tm", "terms"})
         /\ ram'.documents = [ram.documents EXCEPT ![d] = row]
         /\ UNCHANGED <<index, phase, crashes>>
      \/ Failed /\ UNCHANGED <<ram, index, phase, crashes>>
      \/ Dies /\ UNCHANGED <<disk, clean, failures>>
  BY <1>5, <1>6 DEF dds, rds
<1> QED
  BY <1>2, <1>3, <1>7, <1>8, Zenon

LEMMA DocumentRemoveWrites ==
  ASSUME TypeInv, DocumentRemove
  PROVE  /\ Called
         /\ \E d \in Documents :
              /\ RowOf(ram.documents, d)
              /\ copies' \in {copies \ {d}, copies} /\ (RowOf(disk'.documents, d) => copies' = copies)
              /\ \/ /\ Stored /\ Only(disk, disk', {"documents"})
                    /\ disk'.documents = [disk.documents EXCEPT ![d] = None]
                    /\ gone' \in Removed /\ Only(gone, gone', {"documents", "projects", "termMounts"})
                    /\ gone'.documents = gone.documents \cup {d}
                    /\ \/ /\ ram' \in Rams /\ Only(ram, ram', {"documents", "tm", "terms"})
                          /\ ram'.documents = [ram.documents EXCEPT ![d] = None]
                          /\ UNCHANGED <<index, phase, crashes>>
                       \/ Dies
                 \/ Failed /\ UNCHANGED <<ram, index, phase, crashes, gone>>
<1>1. PICK d \in Documents :
        /\ RowOf(ram.documents, d)
        /\ Called
        /\ \/ /\ Written([disk EXCEPT !.documents[d] = None])
              /\ gone' = [gone EXCEPT !.documents = @ \cup {d}]
              /\ \/ ram' = [ram EXCEPT !.documents[d] = None] /\ UNCHANGED <<index, phase, crashes>>
                 \/ Dies
           \/ Refused /\ UNCHANGED <<ram, index, phase, crashes, gone>>
        /\ CopyGoes(d)
  BY DEF DocumentRemove
<1> DEFINE dds == [disk.documents EXCEPT ![d] = None]
           rds == [ram.documents EXCEPT ![d] = None]
           gds == gone.documents \cup {d}
<1>2. dds \in DocumentTables /\ rds \in DocumentTables /\ gone \in Removed /\ gds \in SUBSET Documents
  BY TableTypes, TableSorts DEF DocumentTables, Rams, TypeInv, Removed
<1> HIDE DEF dds, rds, gds
<1>3. \/ /\ Written([disk EXCEPT !.documents = dds]) /\ gone' = [gone EXCEPT !.documents = gds]
         /\ \/ ram' = [ram EXCEPT !.documents = rds] /\ UNCHANGED <<index, phase, crashes>>
            \/ Dies
      \/ Failed /\ UNCHANGED <<ram, index, phase, crashes, gone>>
  BY <1>1, RefusedFails DEF dds, rds, gds
<1>4. ASSUME Written([disk EXCEPT !.documents = dds])
      PROVE  Stored /\ Only(disk, disk', {"documents"}) /\ disk'.documents = dds
  BY <1>2, <1>4, TableTypes, TableSorts DEF Only, TableNames, Written, Commit, Stored
<1>5. ASSUME ram' = [ram EXCEPT !.documents = rds]
      PROVE  ram' \in Rams /\ Only(ram, ram', {"documents", "tm", "terms"}) /\ ram'.documents = rds
  BY <1>2, <1>5, TableTypes DEF Rams, Only, TableNames
<1>6. ASSUME gone' = [gone EXCEPT !.documents = gds]
      PROVE  /\ gone' \in Removed /\ Only(gone, gone', {"documents", "projects", "termMounts"})
             /\ gone'.documents = gds
  BY <1>2, <1>6 DEF Removed, Only, TableNames
<1>7. copies' \in {copies \ {d}, copies} /\ (RowOf(disk'.documents, d) => copies' = copies)
  BY <1>1 DEF CopyGoes
<1>8. \/ /\ Stored /\ Only(disk, disk', {"documents"})
         /\ disk'.documents = dds
         /\ gone' \in Removed /\ Only(gone, gone', {"documents", "projects", "termMounts"})
         /\ gone'.documents = gds
         /\ \/ /\ ram' \in Rams /\ Only(ram, ram', {"documents", "tm", "terms"})
               /\ ram'.documents = rds
               /\ UNCHANGED <<index, phase, crashes>>
            \/ Dies
      \/ Failed /\ UNCHANGED <<ram, index, phase, crashes, gone>>
  BY <1>3, <1>4, <1>5, <1>6, Zenon
<1> QED
  BY <1>1, <1>7, <1>8, Zenon DEF dds, rds, gds

LEMMA MemoryAttachWrites ==
  ASSUME TypeInv, MemoryAttach
  PROVE  /\ Called /\ UNCHANGED <<index, copies>>
         /\ \E p \in ProjectIds, m \in MemoryIds :
              \/ /\ Stored /\ Only(disk, disk', {"mounts"})
                 /\ disk'.mounts = disk.mounts \cup {<<p, m>>}
                 /\ ram' \in Rams /\ Only(ram, ram', {"mounts", "tm", "terms"})
                 /\ ram'.mounts = ram.mounts \cup {<<p, m>>}
                 /\ gone' \in Removed /\ Only(gone, gone', {"mounts", "projects", "termMounts"})
                 /\ gone'.mounts = gone.mounts \ {<<p, m>>}
              \/ Failed /\ UNCHANGED <<ram, gone>>
<1>1. PICK p \in ProjectIds, m \in MemoryIds :
        LET with(tables) == [tables EXCEPT !.mounts = @ \cup {<<p, m>>}]
        IN /\ Called /\ UNCHANGED <<index, copies>>
           /\ \/ Written(with(disk)) /\ ram' = with(ram) /\ gone' = [gone EXCEPT !.mounts = @ \ {<<p, m>>}]
              \/ Refused /\ UNCHANGED <<ram, gone>>
  BY DEF MemoryAttach
<1> DEFINE dmt == disk.mounts \cup {<<p, m>>}
           rmt == ram.mounts \cup {<<p, m>>}
           gmt == gone.mounts \ {<<p, m>>}
<1>2. p \in Projects /\ m \in Projects /\ gone \in Removed
  BY DEF ProjectIds, MemoryIds, TypeInv
<1>3. dmt \in MountTables /\ rmt \in MountTables /\ gmt \in MountTables
  BY <1>2, TableTypes, TableSorts DEF MountTables, Rams, Removed
<1>4. \/ /\ Written([disk EXCEPT !.mounts = dmt]) /\ ram' = [ram EXCEPT !.mounts = rmt]
         /\ gone' = [gone EXCEPT !.mounts = gmt]
      \/ Failed /\ UNCHANGED <<ram, gone>>
  BY <1>1, RefusedFails
<1> HIDE DEF dmt, rmt, gmt
<1>5. ASSUME Written([disk EXCEPT !.mounts = dmt])
      PROVE  Stored /\ Only(disk, disk', {"mounts"}) /\ disk'.mounts = dmt
  BY <1>3, <1>5, TableTypes, TableSorts DEF Only, TableNames, Written, Commit, Stored
<1>6. ASSUME ram' = [ram EXCEPT !.mounts = rmt]
      PROVE  ram' \in Rams /\ Only(ram, ram', {"mounts", "tm", "terms"}) /\ ram'.mounts = rmt
  BY <1>3, <1>6, TableTypes DEF Rams, Only, TableNames
<1>7. ASSUME gone' = [gone EXCEPT !.mounts = gmt]
      PROVE  /\ gone' \in Removed /\ Only(gone, gone', {"mounts", "projects", "termMounts"})
             /\ gone'.mounts = gmt
  BY <1>2, <1>3, <1>7 DEF Removed, Only, TableNames
<1>8. Called /\ UNCHANGED <<index, copies>>
  BY <1>1
<1> QED
  BY <1>4, <1>5, <1>6, <1>7, <1>8, Zenon DEF dmt, rmt, gmt

LEMMA MemoryDetachWrites ==
  ASSUME TypeInv, MemoryDetach
  PROVE  /\ Called /\ UNCHANGED <<index, copies>>
         /\ \E p \in ProjectIds, m \in MemoryIds :
              /\ ram' \in Rams /\ Only(ram, ram', {"mounts", "tm", "terms"})
              /\ ram'.mounts = ram.mounts \ {<<p, m>>}
              /\ \/ /\ Stored /\ Only(disk, disk', {"mounts"})
                    /\ disk'.mounts = disk.mounts \ {<<p, m>>}
                    /\ gone' \in Removed /\ Only(gone, gone', {"mounts", "projects", "termMounts"})
                    /\ gone'.mounts = gone.mounts \cup {<<p, m>>}
                 \/ Failed /\ UNCHANGED gone
<1>1. PICK p \in ProjectIds, m \in MemoryIds :
        /\ Called /\ UNCHANGED <<index, copies>>
        /\ ram' = [ram EXCEPT !.mounts = @ \ {<<p, m>>}]
        /\ \/ /\ Written([disk EXCEPT !.mounts = @ \ {<<p, m>>}])
              /\ gone' = [gone EXCEPT !.mounts = @ \cup {<<p, m>>}]
           \/ Refused /\ UNCHANGED gone
  BY DEF MemoryDetach
<1> DEFINE dmt == disk.mounts \ {<<p, m>>}
           rmt == ram.mounts \ {<<p, m>>}
           gmt == gone.mounts \cup {<<p, m>>}
<1>2. p \in Projects /\ m \in Projects /\ gone \in Removed
  BY DEF ProjectIds, MemoryIds, TypeInv
<1>3. dmt \in MountTables /\ rmt \in MountTables /\ gmt \in MountTables
  BY <1>2, TableTypes, TableSorts DEF MountTables, Rams, Removed
<1>4. /\ ram' = [ram EXCEPT !.mounts = rmt]
      /\ \/ Written([disk EXCEPT !.mounts = dmt]) /\ gone' = [gone EXCEPT !.mounts = gmt]
         \/ Failed /\ UNCHANGED gone
  BY <1>1, RefusedFails
<1> HIDE DEF dmt, rmt, gmt
<1>5. ASSUME Written([disk EXCEPT !.mounts = dmt])
      PROVE  Stored /\ Only(disk, disk', {"mounts"}) /\ disk'.mounts = dmt
  BY <1>3, <1>5, TableTypes, TableSorts DEF Only, TableNames, Written, Commit, Stored
<1>6. ram' \in Rams /\ Only(ram, ram', {"mounts", "tm", "terms"}) /\ ram'.mounts = rmt
  BY <1>3, <1>4, TableTypes DEF Rams, Only, TableNames
<1>7. ASSUME gone' = [gone EXCEPT !.mounts = gmt]
      PROVE  /\ gone' \in Removed /\ Only(gone, gone', {"mounts", "projects", "termMounts"})
             /\ gone'.mounts = gmt
  BY <1>2, <1>3, <1>7 DEF Removed, Only, TableNames
<1>8. Called /\ UNCHANGED <<index, copies>>
  BY <1>1
<1> QED
  BY <1>4, <1>5, <1>6, <1>7, <1>8, Zenon DEF dmt, rmt, gmt

\* A memory that is mounted nowhere goes with its entries.
LEMMA MemoryDeleteWrites ==
  ASSUME TypeInv, MemoryDelete
  PROVE  /\ Called /\ UNCHANGED copies
         /\ \E m \in MemoryIds :
              /\ \A p \in Projects : <<p, m>> \notin ram.mounts
              /\ \/ /\ Stored /\ Only(disk, disk', {"memories", "tm"})
                    /\ disk'.memories = [disk.memories EXCEPT ![m] = None]
                    /\ disk'.tm = [e \in Entries |-> IF e \in EntriesOf(m) THEN None ELSE disk.tm[e]]
                    /\ ram' \in Rams /\ Only(ram, ram', {"memories", "tm", "terms"})
                    /\ ram'.memories = [ram.memories EXCEPT ![m] = None]
                    /\ index' = [e \in Entries |->
                                   IF index[e] # None /\ index[e].memory = m THEN None ELSE index[e]]
                    /\ gone' \in Removed /\ Only(gone, gone', {"tm", "memories", "projects", "termMounts"})
                    /\ gone'.tm = gone.tm \cup EntriesOf(m)
                    /\ gone'.memories = gone.memories \cup {m}
                 \/ Failed /\ UNCHANGED <<ram, index, gone>>
<1>1. PICK m \in MemoryIds :
        /\ \A p \in Projects : <<p, m>> \notin ram.mounts
        /\ Called /\ UNCHANGED copies
        /\ \/ /\ Written([disk EXCEPT !.memories[m] = None,
                           !.tm = [e \in Entries |-> IF e \in EntriesOf(m) THEN None ELSE @[e]]])
              /\ ram' = [ram EXCEPT !.memories[m] = None]
              /\ index' = [e \in Entries |->
                             IF index[e] # None /\ index[e].memory = m THEN None ELSE index[e]]
              /\ gone' = [gone EXCEPT !.tm = @ \cup EntriesOf(m), !.memories = @ \cup {m}]
           \/ Refused /\ UNCHANGED <<ram, index, gone>>
  BY DEF MemoryDelete
<1> DEFINE dms == [disk.memories EXCEPT ![m] = None]
           rms == [ram.memories EXCEPT ![m] = None]
           tm == [e \in Entries |-> IF e \in EntriesOf(m) THEN None ELSE disk.tm[e]]
           gms == gone.memories \cup {m}
           gtm == gone.tm \cup EntriesOf(m)
<1>2. m \in Projects /\ gone \in Removed /\ EntriesOf(m) \in SUBSET Entries
  BY DEF MemoryIds, TypeInv, EntriesOf
<1>3. /\ dms \in MemoryTables /\ rms \in MemoryTables /\ tm \in EntryTables
      /\ gms \in SUBSET Projects /\ gtm \in SUBSET Entries
  BY <1>2, TableTypes, TableSorts DEF MemoryTables, EntryTables, Rams, Removed
<1>4. \/ /\ Written([disk EXCEPT !.memories = dms, !.tm = tm])
         /\ ram' = [ram EXCEPT !.memories = rms]
         /\ index' = [e \in Entries |->
                        IF index[e] # None /\ index[e].memory = m THEN None ELSE index[e]]
         /\ gone' = [gone EXCEPT !.tm = gtm, !.memories = gms]
      \/ Failed /\ UNCHANGED <<ram, index, gone>>
  BY <1>1, RefusedFails
<1> HIDE DEF dms, rms, tm, gms, gtm
<1>5. ASSUME Written([disk EXCEPT !.memories = dms, !.tm = tm])
      PROVE  Stored /\ Only(disk, disk', {"memories", "tm"}) /\ disk'.memories = dms /\ disk'.tm = tm
  BY <1>3, <1>5, TableTypes, TableSorts DEF Only, TableNames, Written, Commit, Stored
<1>6. ASSUME ram' = [ram EXCEPT !.memories = rms]
      PROVE  ram' \in Rams /\ Only(ram, ram', {"memories", "tm", "terms"}) /\ ram'.memories = rms
  BY <1>3, <1>6, TableTypes DEF Rams, Only, TableNames
<1>7. ASSUME gone' = [gone EXCEPT !.tm = gtm, !.memories = gms]
      PROVE  /\ gone' \in Removed /\ Only(gone, gone', {"tm", "memories", "projects", "termMounts"})
             /\ gone'.tm = gtm /\ gone'.memories = gms
  BY <1>2, <1>3, <1>7 DEF Removed, Only, TableNames
<1>8. /\ Called /\ UNCHANGED copies
      /\ \A p \in Projects : <<p, m>> \notin ram.mounts
  BY <1>1
<1>9. \/ /\ Stored /\ Only(disk, disk', {"memories", "tm"})
         /\ disk'.memories = dms /\ disk'.tm = tm
         /\ ram' \in Rams /\ Only(ram, ram', {"memories", "tm", "terms"})
         /\ ram'.memories = rms
         /\ index' = [e \in Entries |->
                        IF index[e] # None /\ index[e].memory = m THEN None ELSE index[e]]
         /\ gone' \in Removed /\ Only(gone, gone', {"tm", "memories", "projects", "termMounts"})
         /\ gone'.tm = gtm /\ gone'.memories = gms
      \/ Failed /\ UNCHANGED <<ram, index, gone>>
  BY <1>4, <1>5, <1>6, <1>7, Zenon
<1> QED
  BY <1>8, <1>9, Zenon DEF dms, rms, tm, gms, gtm

\* The termbase is attached to projects and taken from them.
LEMMA TermbaseMountWrites ==
  ASSUME TypeInv, TermbaseAttach \/ TermbaseDetach
  PROVE  /\ Called /\ UNCHANGED <<index, copies, gone>>
         /\ ram' \in Rams /\ Only(ram, ram', {"termMounts", "tm", "terms"})
         /\ \/ Failed
            \/ /\ Stored /\ Only(disk, disk', {"termMounts"})
               /\ ram.termMounts = disk.termMounts => ram'.termMounts = disk'.termMounts
<1>1. \E mts \in SUBSET Projects, dts \in SUBSET Projects :
        /\ Called /\ UNCHANGED <<index, copies, gone>>
        /\ ram.termMounts = disk.termMounts => mts = dts
        /\ \/ Written([disk EXCEPT !.termMounts = dts]) /\ ram' = [ram EXCEPT !.termMounts = mts]
           \/ Refused /\ (ram' = ram \/ ram' = [ram EXCEPT !.termMounts = mts])
  <2>1. ram.termMounts \in SUBSET Projects /\ disk.termMounts \in SUBSET Projects
    BY TableTypes, TableSorts DEF Rams
  <2>2. ASSUME TermbaseAttach
        PROVE \E p \in Projects :
                /\ Called /\ UNCHANGED <<index, copies, gone>>
                /\ \/ /\ Written([disk EXCEPT !.termMounts = disk.termMounts \cup {p}])
                      /\ ram' = [ram EXCEPT !.termMounts = ram.termMounts \cup {p}]
                   \/ Refused /\ UNCHANGED ram
    BY <2>2 DEF TermbaseAttach, ProjectIds
  <2>3. ASSUME TermbaseDetach
        PROVE \E p \in Projects :
                /\ Called /\ UNCHANGED <<index, copies, gone>>
                /\ ram' = [ram EXCEPT !.termMounts = ram.termMounts \ {p}]
                /\ Written([disk EXCEPT !.termMounts = disk.termMounts \ {p}]) \/ Refused
    BY <2>3 DEF TermbaseDetach, ProjectIds
  <2>4. CASE TermbaseAttach
    <3>1. PICK p \in Projects :
                /\ Called /\ UNCHANGED <<index, copies, gone>>
                /\ \/ /\ Written([disk EXCEPT !.termMounts = disk.termMounts \cup {p}])
                      /\ ram' = [ram EXCEPT !.termMounts = ram.termMounts \cup {p}]
                   \/ Refused /\ UNCHANGED ram
      BY <2>2, <2>4
    <3> (ram.termMounts \cup {p}) \in SUBSET Projects /\ (disk.termMounts \cup {p}) \in SUBSET Projects
      BY <2>1
    <3> WITNESS ram.termMounts \cup {p} \in SUBSET Projects, disk.termMounts \cup {p} \in SUBSET Projects
    <3> QED BY <3>1
  <2>5. CASE TermbaseDetach
    <3>1. PICK p \in Projects :
                /\ Called /\ UNCHANGED <<index, copies, gone>>
                /\ ram' = [ram EXCEPT !.termMounts = ram.termMounts \ {p}]
                /\ Written([disk EXCEPT !.termMounts = disk.termMounts \ {p}]) \/ Refused
      BY <2>3, <2>5
    <3> (ram.termMounts \ {p}) \in SUBSET Projects /\ (disk.termMounts \ {p}) \in SUBSET Projects
      BY <2>1
    <3> WITNESS ram.termMounts \ {p} \in SUBSET Projects, disk.termMounts \ {p} \in SUBSET Projects
    <3> QED BY <3>1
  <2> QED BY <2>4, <2>5
<1>2. PICK mts \in SUBSET Projects, dts \in SUBSET Projects :
        /\ Called /\ UNCHANGED <<index, copies, gone>>
        /\ ram.termMounts = disk.termMounts => mts = dts
        /\ \/ Written([disk EXCEPT !.termMounts = dts]) /\ ram' = [ram EXCEPT !.termMounts = mts]
           \/ Refused /\ (ram' = ram \/ ram' = [ram EXCEPT !.termMounts = mts])
  BY <1>1
<1>3. ASSUME Written([disk EXCEPT !.termMounts = dts])
      PROVE  Stored /\ Only(disk, disk', {"termMounts"}) /\ disk'.termMounts = dts
  BY <1>3, TableTypes, TableSorts DEF Only, TableNames, Written, Commit, Stored
<1>4. ASSUME ram' = [ram EXCEPT !.termMounts = mts]
      PROVE  ram' \in Rams /\ Only(ram, ram', {"termMounts", "tm", "terms"}) /\ ram'.termMounts = mts
  BY <1>4, TableTypes DEF Rams, Only, TableNames
<1>5. ASSUME ram' = ram
      PROVE  ram' \in Rams /\ Only(ram, ram', {"termMounts", "tm", "terms"})
  BY <1>5, TableTypes DEF Rams, Only, TableNames
<1> QED
  BY <1>2, <1>3, <1>4, <1>5, RefusedFails

\* What a handler of memory entries leaves in the index.
LEMMA TmImportWrites ==
  ASSUME TypeInv, TmImport
  PROVE  /\ Called /\ UNCHANGED <<ram, copies, gone>>
         /\ index' \in Indexes
         /\ \/ Failed
            \/ /\ Stored /\ Only(disk, disk', {"tm"})
               /\ Indexed(disk.tm, index) => Indexed(disk'.tm, index')
               /\ \A e \in Entries \cap gone.tm : disk.tm[e] = None => disk'.tm[e] = None
<1>1. PICK p \in ProjectIds, m \in MemoryIds, file \in TmFiles :
        /\ Cardinality(Fresh(disk.tm)) >= Len(file)
        /\ Called /\ UNCHANGED <<ram, copies, gone>>
        /\ index' = Batch(m, file).index
        /\ Written([disk EXCEPT !.tm = Batch(m, file).tm]) \/ Refused
  BY DEF TmImport
<1>2. m \in Projects /\ file \in Seq(Units)
  BY WorkspaceAssumption DEF MemoryIds, Units
<1>3. [tm |-> disk.tm, index |-> index] \in Batches
  BY TableTypes, TableSorts DEF TypeInv, Batches, Indexes
<1> DEFINE b == Batch(m, file)
<1>4. /\ b \in Batches
      /\ Indexed(disk.tm, index) => Indexed(b.tm, b.index)
      /\ \A f \in Entries \cap gone.tm : disk.tm[f] = None => b.tm[f] = None
  BY <1>1, <1>2, <1>3, BatchKeeps
<1>5. index' = b.index /\ (Written([disk EXCEPT !.tm = b.tm]) \/ Refused)
  BY <1>1
<1> HIDE DEF b
<1>6. b.tm \in EntryTables /\ b.index \in Indexes
  BY <1>4 DEF Batches, Indexes
<1>7. ASSUME Written([disk EXCEPT !.tm = b.tm])
      PROVE  Stored /\ Only(disk, disk', {"tm"}) /\ disk'.tm = b.tm
  BY <1>6, <1>7, TableTypes, TableSorts DEF Only, TableNames, Written, Commit, Stored
<1> QED
  BY <1>1, <1>4, <1>5, <1>6, <1>7, RefusedFails

LEMMA TmUpdateWrites ==
  ASSUME TypeInv, TmUpdate
  PROVE  /\ Called /\ UNCHANGED <<ram, copies, gone>>
         /\ index' \in Indexes
         /\ \/ Failed
            \/ /\ Stored /\ Only(disk, disk', {"tm"})
               /\ Indexed(disk.tm, index) => Indexed(disk'.tm, index')
               /\ \A e \in Entries : disk.tm[e] = None => disk'.tm[e] = None
<1>1. PICK e \in Entries, src \in Sources, target \in Targets :
        /\ RowOf(disk.tm, e)
        /\ Called /\ UNCHANGED <<ram, copies, gone>>
        /\ index' = Reindexed(e, src)
        /\ Written([disk EXCEPT !.tm[e].source = src, !.tm[e].target = target]) \/ Refused
  BY DEF TmUpdate
<1> DEFINE row == [[disk.tm[e] EXCEPT !.source = src] EXCEPT !.target = target]
           tm == [disk.tm EXCEPT ![e] = row]
<1>2. disk \in Tables /\ disk.tm \in EntryTables /\ disk.tm[e] \in EntryRows
  BY <1>1, TableTypes, TableSorts DEF EntryTables, RowOf
<1>3. row \in EntryRows /\ row.source = src /\ row.memory = disk.tm[e].memory
  BY <1>2 DEF EntryRows
<1>4. [disk EXCEPT !.tm[e].source = src, !.tm[e].target = target] = [disk EXCEPT !.tm = tm]
  <2>1. [disk EXCEPT !.tm[e].source = src, !.tm[e].target = target]
        = [[disk EXCEPT !.tm = [disk.tm EXCEPT ![e] = [disk.tm[e] EXCEPT !.source = src]]] EXCEPT !.tm[e].target = target]
    OBVIOUS
  <2> DEFINE half == [disk.tm[e] EXCEPT !.source = src]
             htm == [disk.tm EXCEPT ![e] = half]
             hdisk == [disk EXCEPT !.tm = htm]
  <2>2. half \in EntryRows
    BY <1>2 DEF EntryRows
  <2> HIDE DEF half
  <2>3. htm \in EntryTables /\ htm[e] = half
    BY <1>2, <2>2 DEF EntryTables
  <2>4. [htm EXCEPT ![e] = [half EXCEPT !.target = target]] = [disk.tm EXCEPT ![e] = [half EXCEPT !.target = target]]
    BY <1>2, <2>3 DEF EntryTables
  <2> HIDE DEF htm
  <2>5. hdisk \in Tables /\ hdisk.tm = htm
    BY <1>2, <2>3, TableSorts
  <2>6. ASSUME NEW x PROVE [hdisk EXCEPT !.tm = x] = [disk EXCEPT !.tm = x]
    BY <1>2
  <2> HIDE DEF hdisk
  <2>7. [hdisk EXCEPT !.tm[e].target = target] = [hdisk EXCEPT !.tm = [hdisk.tm EXCEPT ![e] = [hdisk.tm[e] EXCEPT !.target = target]]]
    OBVIOUS
  <2>8. [hdisk EXCEPT !.tm[e].target = target] = [disk EXCEPT !.tm = tm]
    BY <2>3, <2>4, <2>5, <2>6, <2>7 DEF half
  <2> QED BY <2>1, <2>8 DEF hdisk, htm, half
<1> HIDE DEF row
<1>5. /\ tm \in EntryTables /\ tm[e] = row /\ \A f \in Entries \ {e} : tm[f] = disk.tm[f]
  BY <1>2, <1>3 DEF EntryTables
<1>6. index \in Indexes
  BY DEF TypeInv
<1>7. index' \in Indexes
  <2>1. [memory |-> disk.tm[e].memory, source |-> src] \in IndexRows
    BY <1>2 DEF EntryRows, IndexRows
  <2> QED BY <1>1, <1>6, <2>1 DEF Reindexed, Indexes
<1> HIDE DEF tm
<1>8. ASSUME Written([disk EXCEPT !.tm = tm])
      PROVE  Stored /\ Only(disk, disk', {"tm"}) /\ disk'.tm = tm
  BY <1>2, <1>5, <1>8, TableTypes, TableSorts DEF Only, TableNames, Written, Commit, Stored
<1>9. ASSUME Indexed(disk.tm, index) PROVE Indexed(tm, index')
  <2>1. index[e] = [memory |-> disk.tm[e].memory, source |-> disk.tm[e].source]
    BY <1>1, <1>9 DEF Indexed, RowOf
  <2>2. \A f \in Entries \ {e} : index'[f] = index[f]
    BY <1>1, <1>6 DEF Reindexed, Indexes
  <2>3. index'[e] = [memory |-> disk.tm[e].memory, source |-> src]
    BY <1>1, <1>6, <2>1 DEF Reindexed, Indexes
  <2>4. tm[e] # None
    BY <1>3, <1>5, StoreAssumption
  <2>5. ASSUME NEW f \in Entries
        PROVE  index'[f] = IF tm[f] # None THEN [memory |-> tm[f].memory, source |-> tm[f].source] ELSE None
    <3>1. CASE f = e
      BY <1>3, <1>5, <2>3, <2>4, <3>1
    <3>2. CASE f # e
      BY <1>5, <1>9, <2>2, <3>2 DEF Indexed
    <3> QED BY <3>1, <3>2
  <2> QED BY <1>7, <2>5 DEF Indexed, Indexes
<1>10. \A f \in Entries : disk.tm[f] = None => tm[f] = None
  BY <1>1, <1>5 DEF RowOf
<1>11. Called /\ UNCHANGED <<ram, copies, gone>>
  BY <1>1
<1>12. Written([disk EXCEPT !.tm = tm]) \/ Refused
  BY <1>1, <1>4
<1> QED
  BY <1>7, <1>8, <1>9, <1>10, <1>11, <1>12, RefusedFails

LEMMA TmDeleteWrites ==
  ASSUME TypeInv, TmDelete
  PROVE  /\ Called /\ UNCHANGED <<ram, copies>>
         /\ index' \in Indexes
         /\ \/ Failed /\ UNCHANGED gone
            \/ \E e \in Entries :
                 /\ Stored /\ Only(disk, disk', {"tm"})
                 /\ disk'.tm = [disk.tm EXCEPT ![e] = None]
                 /\ Indexed(disk.tm, index) => Indexed(disk'.tm, index')
                 /\ gone' \in Removed /\ Only(gone, gone', {"tm", "projects", "termMounts"})
                 /\ gone'.tm = gone.tm \cup {e}
<1>1. PICK e \in Entries :
        /\ Called /\ UNCHANGED <<ram, copies>>
        /\ index' = [index EXCEPT ![e] = None]
        /\ \/ Written([disk EXCEPT !.tm[e] = None]) /\ gone' = [gone EXCEPT !.tm = @ \cup {e}]
           \/ Refused /\ UNCHANGED gone
  BY DEF TmDelete
<1> DEFINE tm == [disk.tm EXCEPT ![e] = None]
           gtm == gone.tm \cup {e}
<1>2. disk \in Tables /\ disk.tm \in EntryTables /\ gone \in Removed /\ index \in Indexes
  BY TableTypes, TableSorts DEF TypeInv
<1>3. tm \in EntryTables /\ gtm \in SUBSET Entries
  BY <1>2 DEF EntryTables, Removed
<1>4. Indexed(disk.tm, index) => Indexed(tm, index')
  BY <1>1, <1>2 DEF Indexed, EntryTables, Indexes
<1>5. index' \in Indexes
  BY <1>1, <1>2 DEF Indexes
<1>6. \/ Written([disk EXCEPT !.tm = tm]) /\ gone' = [gone EXCEPT !.tm = gtm]
      \/ Failed /\ UNCHANGED gone
  BY <1>1, RefusedFails
<1> HIDE DEF tm, gtm
<1>7. ASSUME Written([disk EXCEPT !.tm = tm])
      PROVE  Stored /\ Only(disk, disk', {"tm"}) /\ disk'.tm = tm
  BY <1>2, <1>3, <1>7, TableTypes, TableSorts DEF Only, TableNames, Written, Commit, Stored
<1>8. ASSUME gone' = [gone EXCEPT !.tm = gtm]
      PROVE  gone' \in Removed /\ Only(gone, gone', {"tm", "projects", "termMounts"}) /\ gone'.tm = gtm
  BY <1>2, <1>3, <1>8 DEF Removed, Only, TableNames
<1>9. Called /\ UNCHANGED <<ram, copies>>
  BY <1>1
<1>10. \/ Failed /\ UNCHANGED gone
       \/ /\ Stored /\ Only(disk, disk', {"tm"}) /\ disk'.tm = tm
          /\ Indexed(disk.tm, index) => Indexed(disk'.tm, index')
          /\ gone' \in Removed /\ Only(gone, gone', {"tm", "projects", "termMounts"})
          /\ gone'.tm = gtm
  BY <1>4, <1>6, <1>7, <1>8
<1> QED
  BY <1>5, <1>9, <1>10, Zenon DEF tm, gtm

\* A termbase call stores another table of terms or fails.
LEMMA TermSaved ==
  ASSUME TypeInv, NEW new \in TermTables, Saved([disk EXCEPT !.terms = new])
  PROVE  /\ Called
         /\ Failed \/ (Stored /\ Only(disk, disk', {"terms"}) /\ disk'.terms = new)
<1>1. ASSUME Written([disk EXCEPT !.terms = new])
      PROVE  Stored /\ Only(disk, disk', {"terms"}) /\ disk'.terms = new
  BY <1>1, TableTypes, TableSorts DEF Only, TableNames, Written, Commit, Stored
<1> QED
  BY <1>1, RefusedFails DEF Saved

TermsStored ==
  /\ Stored /\ Only(disk, disk', {"terms"}) /\ disk'.terms \in TermTables
  /\ SingleTerms(disk.terms) => SingleTerms(disk'.terms)
  /\ gone' \in Removed /\ Only(gone, gone', {"terms", "projects", "termMounts"})
  /\ (\A t \in Terms \cap gone.terms : disk.terms[t] = None)
       => \A t \in Terms \cap gone'.terms : disk'.terms[t] = None

LEMMA TermAddWrites ==
  ASSUME TypeInv, TermAdd, UNCHANGED gone
  PROVE  Called /\ (Failed \/ TermsStored)
<1>0. PICK src \in TermSources, tr \in Translations :
        \E t \in Places(disk.terms, src) : Saved([disk EXCEPT !.terms = Added(disk.terms, src, tr, t)])
  BY DEF TermAdd
<1>1. PICK t \in Places(disk.terms, src) : Saved([disk EXCEPT !.terms = Added(disk.terms, src, tr, t)])
  BY <1>0
<1> DEFINE new == Added(disk.terms, src, tr, t)
<1>2. disk.terms \in TermTables /\ gone \in Removed
  BY TableTypes, TableSorts DEF TypeInv
<1>3. t \in Terms /\ \/ t \in Homonyms(disk.terms, src)
                     \/ Homonyms(disk.terms, src) = {} /\ t \in Unused(disk.terms)
  BY DEF Places, Homonyms, Unused
<1>4. TermAt(disk.terms, new, src, t)
  BY <1>2, <1>3, AddedAt
<1>5. Saved([disk EXCEPT !.terms = new])
  BY <1>1
<1> HIDE DEF new
<1>6. new \in TermTables /\ \A u \in Terms \ {t} : new[u] = disk.terms[u]
  BY <1>4 DEF TermAt
<1>7. Called /\ (Failed \/ (Stored /\ Only(disk, disk', {"terms"}) /\ disk'.terms = new))
  BY <1>5, <1>6, TermSaved
<1>8. SingleTerms(disk.terms) => SingleTerms(new)
  BY <1>2, <1>3, <1>4, AddedKeepsSingle
<1>9. ASSUME \A u \in Terms \cap gone.terms : disk.terms[u] = None, NEW u \in Terms \cap gone.terms
      PROVE  new[u] = None
  <2>1. t \notin gone.terms
    BY <1>3, <1>9 DEF Homonyms, Unused, RowOf
  <2> QED BY <1>6, <1>9, <2>1
<1>10. Only(gone, gone', {"terms", "projects", "termMounts"}) /\ gone' \in Removed
  BY <1>2 DEF Only
<1> QED
  BY <1>6, <1>7, <1>8, <1>9, <1>10 DEF TermsStored

LEMMA TermUpdateWrites ==
  ASSUME TypeInv, TermUpdate, UNCHANGED gone
  PROVE  Called /\ (Failed \/ TermsStored)
<1>0. PICK t \in {u \in Terms : RowOf(disk.terms, u)} :
        \E src \in {s \in TermSources : s # disk.terms[t].source => Renamable(t, s)},
           list \in {disk.terms[t].translations} \cup Edited(disk.terms[t].translations) :
          Saved([disk EXCEPT !.terms[t] = [source |-> src, translations |-> list]])
  BY DEF TermUpdate
<1>1. PICK src \in {s \in TermSources : s # disk.terms[t].source => Renamable(t, s)},
           list \in {disk.terms[t].translations} \cup Edited(disk.terms[t].translations) :
        Saved([disk EXCEPT !.terms = [disk.terms EXCEPT ![t] = [source |-> src, translations |-> list]]])
  BY <1>0
<1> DEFINE old == disk.terms[t]
           row == [source |-> src, translations |-> list]
           new == [disk.terms EXCEPT ![t] = row]
<1>2. disk.terms \in TermTables /\ gone \in Removed
  BY TableTypes, TableSorts DEF TypeInv
<1>3. /\ t \in Terms /\ RowOf(disk.terms, t)
      /\ old \in TermRows /\ old.source \in TermSources /\ old.translations \in Seq(Translations)
  BY <1>2, TermFields
<1>4. list \in Seq(Translations) /\ (Distinct(old.translations) => Distinct(list))
  BY <1>3, EditedKeeps
<1>5. row \in TermRows /\ row.source = src /\ row.translations = list
  BY <1>4 DEF TermRows
<1> HIDE DEF row
<1>6. new \in TermTables /\ new[t] = row /\ \A u \in Terms \ {t} : new[u] = disk.terms[u]
  BY <1>2, <1>3, <1>5 DEF TermTables
<1>7. Saved([disk EXCEPT !.terms = new])
  BY <1>1 DEF row
<1> HIDE DEF new
<1>8. Called /\ (Failed \/ (Stored /\ Only(disk, disk', {"terms"}) /\ disk'.terms = new))
  BY <1>6, <1>7, TermSaved
<1>9. ASSUME SingleTerms(disk.terms)
      PROVE  SingleTerms(new)
  <2>1. Homonyms(disk.terms, old.source) = {t} /\ Distinct(old.translations)
    BY <1>3, <1>9 DEF SingleTerms
  <2>2. \A u \in Terms : RowOf(disk.terms, u) /\ u # t => ~Same(disk.terms[u].source, src)
    <3>1. CASE src = old.source
      BY <2>1, <3>1 DEF Homonyms
    <3>2. CASE src # old.source
      BY <3>2 DEF Renamable, Homonyms
    <3> QED BY <3>1, <3>2
  <2>3. RowOf(new, t) /\ new[t].source = src /\ Distinct(new[t].translations)
    BY <1>4, <1>5, <1>6, <2>1, StoreAssumption DEF RowOf
  <2>4. ASSUME NEW u \in Terms, RowOf(new, u)
        PROVE  Homonyms(new, new[u].source) = {u} /\ Distinct(new[u].translations)
    <3>1. ASSUME NEW v \in Terms, RowOf(new, v), v # u
          PROVE  ~Same(new[v].source, new[u].source)
      <4>1. CASE u = t
        BY <1>6, <2>2, <2>3, <3>1, <4>1 DEF RowOf
      <4>2. CASE v = t
        BY <1>6, <2>2, <2>3, <2>4, <3>1, <4>2 DEF RowOf, Same
      <4>3. CASE u # t /\ v # t
        BY <1>6, <1>9, <2>4, <3>1, <4>3 DEF RowOf, SingleTerms, Homonyms
      <4> QED BY <4>1, <4>2, <4>3
    <3>2. Homonyms(new, new[u].source) = {u}
      BY <2>4, <3>1 DEF Homonyms, Same
    <3>3. Distinct(new[u].translations)
      BY <1>6, <1>9, <2>3, <2>4 DEF RowOf, SingleTerms
    <3> QED BY <3>2, <3>3
  <2> QED BY <2>4 DEF SingleTerms
<1>10. ASSUME \A u \in Terms \cap gone.terms : disk.terms[u] = None, NEW u \in Terms \cap gone.terms
       PROVE  new[u] = None
  BY <1>3, <1>6, <1>10 DEF RowOf
<1>11. Only(gone, gone', {"terms", "projects", "termMounts"}) /\ gone' \in Removed
  BY <1>2 DEF Only
<1> QED
  BY <1>6, <1>8, <1>9, <1>10, <1>11 DEF TermsStored

LEMMA TermDeleteWrites ==
  ASSUME TypeInv, TermDelete
  PROVE  Called /\ ((Failed /\ UNCHANGED gone) \/ TermsStored)
<1>1. PICK t \in Terms :
        /\ RowOf(disk.terms, t)
        /\ \/ /\ \E i \in DOMAIN disk.terms[t].translations :
                   Saved([disk EXCEPT !.terms = [disk.terms EXCEPT ![t] =
                            [disk.terms[t] EXCEPT !.translations = RemoveAt(disk.terms[t].translations, i)]]])
              /\ UNCHANGED gone
           \/ /\ Saved([disk EXCEPT !.terms = [disk.terms EXCEPT ![t] = None]])
              /\ gone' = IF disk'.terms[t] = None THEN [gone EXCEPT !.terms = gone.terms \cup {t}] ELSE gone
  BY DEF TermDelete
<1>2. disk.terms \in TermTables /\ gone \in Removed
  BY TableTypes, TableSorts DEF TypeInv
<1> DEFINE old == disk.terms[t]
<1>3. /\ old \in TermRows /\ old.source \in TermSources /\ old.translations \in Seq(Translations)
  BY <1>1, <1>2, TermFields
<1>4. ASSUME NEW row \in TermRows \cup {None}, row # None => row.source = old.source,
             SingleTerms(disk.terms) /\ row # None => Distinct(row.translations)
      PROVE  LET new == [disk.terms EXCEPT ![t] = row]
             IN /\ new \in TermTables /\ (SingleTerms(disk.terms) => SingleTerms(new))
                /\ new[t] = row /\ \A u \in Terms \ {t} : new[u] = disk.terms[u]
  <2> DEFINE new == [disk.terms EXCEPT ![t] = row]
  <2>1. new \in TermTables /\ new[t] = row /\ \A u \in Terms \ {t} : new[u] = disk.terms[u]
    BY <1>1, <1>2 DEF TermTables
  <2> HIDE DEF new
  <2>2. ASSUME SingleTerms(disk.terms), NEW u \in Terms, RowOf(new, u)
        PROVE  Homonyms(new, new[u].source) = {u} /\ Distinct(new[u].translations)
    <3>1. \A v \in Terms : RowOf(new, v) => RowOf(disk.terms, v) /\ new[v].source = disk.terms[v].source
      BY <1>1, <1>4, <2>1 DEF RowOf
    <3>2. Homonyms(disk.terms, disk.terms[u].source) = {u} /\ Distinct(disk.terms[u].translations)
      BY <2>2, <3>1 DEF SingleTerms
    <3>3. Homonyms(new, new[u].source) = {u}
      BY <2>2, <3>1, <3>2 DEF Homonyms
    <3>4. Distinct(new[u].translations)
      BY <1>4, <2>1, <2>2, <3>2 DEF RowOf
    <3> QED BY <3>3, <3>4
  <2>3. SingleTerms(disk.terms) => SingleTerms(new)
    BY <2>2 DEF SingleTerms
  <2> QED BY <2>1, <2>3 DEF new
<1>5. ASSUME NEW i \in DOMAIN old.translations,
             Saved([disk EXCEPT !.terms = [disk.terms EXCEPT ![t] =
                      [old EXCEPT !.translations = RemoveAt(old.translations, i)]]]),
             UNCHANGED gone
      PROVE  Called /\ (Failed \/ TermsStored)
  <2> DEFINE list == RemoveAt(old.translations, i)
             row == [old EXCEPT !.translations = list]
             new == [disk.terms EXCEPT ![t] = row]
  <2>1. list \in Seq(Translations) /\ (Distinct(old.translations) => Distinct(list))
    BY <1>3, <1>5, RemoveAtKeeps
  <2> HIDE DEF list
  <2>2. row \in TermRows /\ row.source = old.source /\ row.translations = list
    BY <1>3, <2>1 DEF TermRows
  <2>3. SingleTerms(disk.terms) => Distinct(row.translations)
    BY <1>1, <2>1, <2>2 DEF SingleTerms
  <2>4. Saved([disk EXCEPT !.terms = new])
    BY <1>5 DEF list
  <2> HIDE DEF row
  <2>5. /\ new \in TermTables /\ (SingleTerms(disk.terms) => SingleTerms(new))
        /\ \A u \in Terms \ {t} : new[u] = disk.terms[u]
    BY <1>4, <2>2, <2>3
  <2> HIDE DEF new
  <2>6. Called /\ (Failed \/ (Stored /\ Only(disk, disk', {"terms"}) /\ disk'.terms = new))
    BY <2>4, <2>5, TermSaved
  <2>7. (\A u \in Terms \cap gone.terms : disk.terms[u] = None)
           => \A u \in Terms \cap gone.terms : new[u] = None
    BY <1>1, <2>5 DEF RowOf
  <2>8. Only(gone, gone', {"terms", "projects", "termMounts"}) /\ gone' \in Removed /\ gone' = gone
    BY <1>2, <1>5 DEF Only
  <2> QED BY <2>5, <2>6, <2>7, <2>8 DEF TermsStored
<1>6. ASSUME Saved([disk EXCEPT !.terms = [disk.terms EXCEPT ![t] = None]]),
             gone' = IF disk'.terms[t] = None THEN [gone EXCEPT !.terms = gone.terms \cup {t}] ELSE gone
      PROVE  Called /\ ((Failed /\ UNCHANGED gone) \/ TermsStored)
  <2> DEFINE new == [disk.terms EXCEPT ![t] = None]
             gts == gone.terms \cup {t}
  <2>1. /\ new \in TermTables /\ (SingleTerms(disk.terms) => SingleTerms(new))
        /\ new[t] = None /\ \A u \in Terms \ {t} : new[u] = disk.terms[u]
    BY <1>4
  <2>2. Saved([disk EXCEPT !.terms = new])
    BY <1>6
  <2> HIDE DEF new
  <2>3. Called /\ (Failed \/ (Stored /\ Only(disk, disk', {"terms"}) /\ disk'.terms = new))
    BY <2>1, <2>2, TermSaved
  <2>4. CASE Failed
    BY <1>1, <1>6, <2>3, <2>4 DEF Failed, RowOf
  <2>5. CASE Stored /\ Only(disk, disk', {"terms"}) /\ disk'.terms = new
    <3>1. gone' = [gone EXCEPT !.terms = gts]
      BY <1>6, <2>1, <2>5
    <3>2. gts \in SUBSET Terms
      BY <1>1, <1>2 DEF Removed
    <3> HIDE DEF gts
    <3>3. gone' \in Removed /\ Only(gone, gone', {"terms", "projects", "termMounts"}) /\ gone'.terms = gts
      BY <1>2, <3>1, <3>2 DEF Removed, Only, TableNames
    <3>4. (\A u \in Terms \cap gone.terms : disk.terms[u] = None)
             => \A u \in Terms \cap gts : new[u] = None
      BY <2>1 DEF gts
    <3> QED BY <2>1, <2>3, <2>5, <3>3, <3>4 DEF TermsStored
  <2> QED BY <2>3, <2>4, <2>5
<1> QED
  BY <1>1, <1>5, <1>6

LEMMA TermbaseImportWrites ==
  ASSUME TypeInv, TermbaseImport, UNCHANGED gone
  PROVE  Called /\ (Failed \/ TermsStored)
<1>1. PICK file \in TermFiles :
        /\ Cardinality(Unused(disk.terms)) >= Len(file)
        /\ Saved([disk EXCEPT !.terms = Merged(disk.terms, file)])
  BY DEF TermbaseImport
<1> DEFINE new == Merged(disk.terms, file)
<1>2. disk.terms \in TermTables /\ gone \in Removed /\ file \in Seq(Lines)
  BY TableTypes, TableSorts, TermbaseAssumption DEF TypeInv, Lines
<1>3. /\ new \in TermTables
      /\ SingleTerms(disk.terms) => SingleTerms(new)
      /\ \A u \in Terms \cap gone.terms : disk.terms[u] = None => new[u] = None
  BY <1>1, <1>2, MergedKeeps
<1>4. Saved([disk EXCEPT !.terms = new])
  BY <1>1
<1> HIDE DEF new
<1>5. Called /\ (Failed \/ (Stored /\ Only(disk, disk', {"terms"}) /\ disk'.terms = new))
  BY <1>3, <1>4, TermSaved
<1>6. Only(gone, gone', {"terms", "projects", "termMounts"}) /\ gone' \in Removed
  BY <1>2 DEF Only
<1> QED
  BY <1>3, <1>5, <1>6 DEF TermsStored

LEMMA TermWrites ==
  ASSUME TypeInv, TermNext
  PROVE  /\ Called /\ UNCHANGED <<header, ram, index, phase, legacyFile, copies, crashes>>
         /\ (Failed /\ UNCHANGED gone) \/ TermsStored
BY TermAddWrites, TermUpdateWrites, TermDeleteWrites, TermbaseImportWrites DEF TermNext

-----------------------------------------------------------------------------
(* Type correctness.                                                        *)

LEMMA CallTypes ==
  ASSUME TypeInv, Called, Failed \/ Stored, ram' \in Rams, index' \in Indexes, gone' \in Removed,
         copies' \subseteq Documents, phase' \in {"open", "closed"}, crashes' \in 0..MaxCrashes,
         UNCHANGED <<header, legacyFile>>
  PROVE  TypeInv'
<1>1. writes' \in 0..MaxWrites
  BY TermbaseAssumption DEF Called, TypeInv, TypeOK
<1>2. /\ disk' \in Tables /\ clean' \in BOOLEAN /\ failures' \in 0..MaxFailures
  <2>1. CASE Failed
    <3>1. clean' \in BOOLEAN
      BY <2>1, Zenon DEF Failed
    <3>2. disk' \in Tables /\ failures' \in 0..MaxFailures
      BY <2>1, StoreAssumption DEF Failed, TypeInv, TypeOK
    <3> QED BY <3>1, <3>2
  <2>2. CASE Stored
    <3>1. clean' \in BOOLEAN
      BY <2>2, Zenon DEF Stored, TypeInv, TypeOK
    <3>2. disk' \in Tables /\ failures' \in 0..MaxFailures
      BY <2>2 DEF Stored, TypeInv, TypeOK
    <3> QED BY <3>1, <3>2
  <2> QED BY <2>1, <2>2
<1>3. /\ header' \in Headers /\ legacyFile' \in {"none", "json", "torn", "backup"}
      /\ header'.version \in 0..Migrations + 1
  BY DEF TypeInv, TypeOK
<1>4. phase' \in Opening \cup {"closed", "open", "refused"}
  OBVIOUS
<1>5. TypeOK'
  BY <1>1, <1>2, <1>3, <1>4 DEF TypeOK
<1> QED
  BY <1>3, <1>5 DEF TypeInv

LEMMA DiesTypes ==
  ASSUME TypeInv, Dies
  PROVE  /\ phase' = "closed" /\ crashes' \in 0..MaxCrashes
         /\ ram' \in Rams /\ index' \in Indexes
         /\ ram' = Loaded(EmptyTables) /\ index' = IndexOf(EmptyTables)
<1>1. crashes' \in 0..MaxCrashes
  BY StoreAssumption DEF Dies, TypeInv, TypeOK
<1>2. ram' \in Rams /\ index' \in Indexes
  BY EmptyIsTables, LoadedFields, IndexType DEF Dies
<1> QED
  BY <1>1, <1>2 DEF Dies

LEMMA TypeInit == Init => TypeInv
<1> SUFFICES ASSUME Init PROVE TypeInv
  OBVIOUS
<1>1. disk \in Tables /\ header \in Headers /\ legacyFile \in {"none", "json", "torn", "backup"}
  <2>1. Migrations - 1 \in 0..Migrations + 1 /\ Migrations + 1 \in 0..Migrations + 1
        /\ 0 \in 0..Migrations + 1
    BY StoreAssumption
  <2>2. disk \in Tables /\ legacyFile \in {"none", "json", "torn", "backup"}
    BY EmptyIsTables, DedupedType DEF Init, StoreInit
  <2>3. CASE header = [version |-> 0, imported |-> "no", materialized |-> FALSE]
    BY <2>1, <2>2, <2>3 DEF Headers
  <2>4. CASE header \in [version : {Migrations - 1}, imported : {"fresh", "imported"}, materialized : {FALSE}]
    BY <2>1, <2>2, <2>4 DEF Headers
  <2>5. CASE header = [version |-> Migrations + 1, imported |-> "fresh", materialized |-> TRUE]
    BY <2>1, <2>2, <2>5 DEF Headers
  <2> QED BY <2>3, <2>4, <2>5 DEF Init, StoreInit
<1>2. ram \in Rams /\ index \in Indexes
  BY EmptyIsTables, LoadedFields, IndexType DEF Init, StoreInit
<1>3. gone \in Removed
  BY DEF Init, StoreInit, NothingGone, Removed, MountTables
<1>4. /\ copies \subseteq Documents /\ clean \in BOOLEAN /\ phase = "closed"
      /\ failures \in 0..MaxFailures /\ crashes \in 0..MaxCrashes /\ writes \in 0..MaxWrites
  BY StoreAssumption, TermbaseAssumption DEF Init, StoreInit
<1> QED
  BY <1>1, <1>2, <1>3, <1>4 DEF TypeInv, TypeOK, Headers

LEMMA StoreTypes ==
  ASSUME TypeInv, StoreNext, UNCHANGED writes
  PROVE  TypeInv'
<1> USE DEF TypeInv, TypeOK, Opening
<1>1. CASE Start
  BY <1>1 DEF Start
<1>2. CASE Migrate
  <2>1. CASE header.version < Migrations
    <3>1. header' = [header EXCEPT !.version = header.version + 1] /\ phase' = phase
      BY <1>2, <2>1 DEF Migrate
    <3>2. header.version + 1 \in 0..Migrations + 1
      BY <2>1, StoreAssumption
    <3>3. header' \in Headers
      BY <3>1, <3>2 DEF Headers
    <3>4. header'.version \in 0..Migrations + 1
      BY <3>3 DEF Headers
    <3> QED BY <1>2, <3>1, <3>3, <3>4 DEF Migrate
  <2>2. CASE ~(header.version < Migrations)
    BY <1>2, <2>2 DEF Migrate
  <2> QED BY <2>1, <2>2
<1>3. CASE ImportLegacy
  <2>1. disk' \in Tables
    BY <1>3, ImportWrites, TableTypes
  <2>2. header' \in Headers
    BY <1>3 DEF ImportLegacy, Headers
  <2>3. header'.version \in 0..Migrations + 1
    BY <2>2 DEF Headers
  <2>4. phase' \in {"materialize", "rename", "closed"} /\ UNCHANGED <<ram, index, legacyFile, copies, gone, clean, failures, crashes>>
    BY <1>3 DEF ImportLegacy
  <2> QED BY <2>1, <2>2, <2>3, <2>4
<1>4. CASE RenameLegacy
  BY <1>4 DEF RenameLegacy
<1>5. CASE Materialize
  <2>1. disk' \in Tables /\ phase' = "load"
    BY <1>5, MaterializeWrites, TableTypes
  <2>2. header' \in Headers
    BY <1>5, MaterializeWrites DEF Headers
  <2>3. header'.version \in 0..Migrations + 1
    BY <2>2 DEF Headers
  <2>4. UNCHANGED <<ram, index, legacyFile, copies, gone, clean, failures, crashes>>
    BY <1>5 DEF Materialize
  <2> QED BY <2>1, <2>2, <2>3, <2>4
<1>6. CASE Load
  BY <1>6, LoadedFields, IndexType DEF Load
<1>7. CASE OpenFails
  BY <1>7, StoreAssumption DEF OpenFails, Fail
<1>8. CASE Crash
  <2>1. Dies /\ UNCHANGED <<disk, header, legacyFile, copies, gone, clean, failures>>
    BY <1>8 DEF Crash
  <2> QED BY <2>1, DiesTypes
<1>9. CASE StaleFile
  BY <1>9 DEF StaleFile
<1> QED
  BY <1>1, <1>2, <1>3, <1>4, <1>5, <1>6, <1>7, <1>8, <1>9 DEF StoreNext, OpenStep

\* What a handler of projects, memories or entries leaves in the database, in RAM
\* and in the history.
LEMMA HandlerTypes ==
  ASSUME TypeInv, Handler
  PROVE  /\ Called /\ (Failed \/ Stored)
         /\ ram' \in Rams /\ index' \in Indexes /\ gone' \in Removed /\ UNCHANGED copies
<1>0. ram \in Rams /\ index \in Indexes /\ gone \in Removed
  BY DEF TypeInv
<1>1. CASE ProjectCreate
  BY <1>0, <1>1, ProjectCreateWrites
<1>2. ASSUME NEW p \in Projects, NEW row \in ProjectRows, SaveProject(p, row)
      PROVE  /\ Called /\ (Failed \/ Stored)
             /\ ram' \in Rams /\ index' \in Indexes /\ gone' \in Removed /\ UNCHANGED copies
  BY <1>0, <1>2, SaveProjectWrites
<1>3. CASE ProjectArchive \/ QaProfileUpdate
  <2>1. \E p \in Projects, row \in ProjectRows : SaveProject(p, row)
    BY <1>3, ProjectSaves DEF ProjectIds
  <2> QED BY <1>2, <2>1
<1>4. CASE ProjectUpdate
  BY <1>0, <1>4, ProjectUpdateWrites
<1>5. CASE MemoryAttach
  BY <1>0, <1>5, MemoryAttachWrites
<1>6. CASE MemoryDetach
  BY <1>0, <1>6, MemoryDetachWrites
<1>7. CASE MemoryDelete
  <2>1. Called /\ UNCHANGED copies
    BY <1>7, MemoryDeleteWrites
  <2>2. PICK m \in MemoryIds :
          \/ /\ Stored /\ ram' \in Rams /\ gone' \in Removed
             /\ index' = [e \in Entries |-> IF index[e] # None /\ index[e].memory = m
                                            THEN None ELSE index[e]]
          \/ Failed /\ UNCHANGED <<ram, index, gone>>
    BY <1>7, MemoryDeleteWrites
  <2>3. [e \in Entries |-> IF index[e] # None /\ index[e].memory = m THEN None ELSE index[e]] \in Indexes
    BY <1>0 DEF Indexes
  <2> QED BY <1>0, <2>1, <2>2, <2>3
<1>8. CASE TermbaseAttach \/ TermbaseDetach
  BY <1>0, <1>8, TermbaseMountWrites
<1>9. CASE TmImport
  BY <1>0, <1>9, TmImportWrites
<1>10. CASE TmUpdate
  BY <1>0, <1>10, TmUpdateWrites
<1>11. CASE TmDelete
  BY <1>0, <1>11, TmDeleteWrites
<1> QED
  BY <1>1, <1>3, <1>4, <1>5, <1>6, <1>7, <1>8, <1>9, <1>10, <1>11 DEF Handler

LEMMA TypeStep ==
  ASSUME TypeInv, [Next]_workspaceVars
  PROVE  TypeInv'
<1>1. CASE StoreNext /\ UNCHANGED writes
  BY <1>1, StoreTypes
<1>2. CASE TermNext
  <2>1. /\ Called /\ UNCHANGED <<header, ram, index, phase, legacyFile, copies, crashes>>
        /\ (Failed /\ UNCHANGED gone) \/ TermsStored
    BY <1>2, TermWrites
  <2>2. gone' \in Removed /\ (Failed \/ Stored)
    BY <2>1 DEF TermsStored, TypeInv
  <2>3. phase' = "open"
    BY <2>1 DEF Called
  <2> QED BY <2>1, <2>2, <2>3, CallTypes DEF TypeInv, TypeOK
<1>3. CASE Handler /\ UNCHANGED <<phase, crashes, header, legacyFile>>
  <2>1. /\ Called /\ (Failed \/ Stored)
        /\ ram' \in Rams /\ index' \in Indexes /\ gone' \in Removed /\ UNCHANGED copies
    BY <1>3, HandlerTypes
  <2>2. phase' = "open"
    BY <1>3, <2>1 DEF Called
  <2> QED BY <1>3, <2>1, <2>2, CallTypes DEF TypeInv, TypeOK
<1>4. CASE DocumentImport /\ UNCHANGED <<header, legacyFile>>
  <2>1. /\ Called /\ UNCHANGED gone /\ copies' \subseteq Documents
        /\ \/ Stored /\ ram' \in Rams /\ UNCHANGED <<index, phase, crashes>>
           \/ Failed /\ UNCHANGED <<ram, index, phase, crashes>>
           \/ Dies /\ UNCHANGED <<disk, clean, failures>>
    BY <1>4, DocumentImportWrites DEF TypeInv, TypeOK
  <2>2. CASE Dies /\ UNCHANGED <<disk, clean, failures>>
    BY <1>4, <2>1, <2>2, DiesTypes, CallTypes DEF TypeInv, TypeOK, Stored
  <2>3. CASE ~(Dies /\ UNCHANGED <<disk, clean, failures>>)
    BY <1>4, <2>1, <2>3, CallTypes DEF TypeInv, TypeOK, Called
  <2> QED BY <2>2, <2>3
<1>5. CASE DocumentRemove /\ UNCHANGED <<header, legacyFile>>
  <2>1. /\ Called /\ copies' \subseteq Documents
        /\ \/ /\ Stored /\ gone' \in Removed
              /\ \/ ram' \in Rams /\ UNCHANGED <<index, phase, crashes>>
                 \/ Dies
           \/ Failed /\ UNCHANGED <<ram, index, phase, crashes, gone>>
    BY <1>5, DocumentRemoveWrites DEF TypeInv, TypeOK
  <2>2. CASE Stored /\ gone' \in Removed /\ Dies
    BY <1>5, <2>1, <2>2, DiesTypes, CallTypes
  <2>3. CASE Stored /\ gone' \in Removed /\ ram' \in Rams /\ UNCHANGED <<index, phase, crashes>>
    BY <1>5, <2>1, <2>3, CallTypes DEF TypeInv, TypeOK, Called
  <2>4. CASE Failed /\ UNCHANGED <<ram, index, phase, crashes, gone>>
    BY <1>5, <2>1, <2>4, CallTypes DEF TypeInv, TypeOK, Called
  <2> QED BY <2>1, <2>2, <2>3, <2>4
<1>6. CASE UNCHANGED workspaceVars
  BY <1>6 DEF workspaceVars, storeVars, TypeInv, TypeOK
<1> QED
  BY <1>1, <1>2, <1>3, <1>4, <1>5, <1>6 DEF Next

(* In every reachable state the tables, what is loaded of them, the index,  *)
(* the header and the history hold what they may hold, within the bounds.   *)
THEOREM TypeCorrect == Spec => []TypeOK
<1>1. TypeInv => TypeOK
  BY DEF TypeInv
<1>2. TypeInv /\ [Next]_workspaceVars => TypeInv'
  BY TypeStep
<1> QED
  BY <1>1, <1>2, TypeInit, PTL DEF Spec

-----------------------------------------------------------------------------
(* How far the opening is, and what that says of the database.              *)

\* A call: the database is open, and its header and its legacy file are left alone.
LEMMA CallsAreOpen ==
  ASSUME TypeInv,
         \/ TermNext
         \/ Handler /\ UNCHANGED <<phase, crashes, header, legacyFile>>
         \/ (DocumentImport \/ DocumentRemove) /\ UNCHANGED <<header, legacyFile>>
  PROVE  /\ phase = "open" /\ phase' \in {"open", "closed"} /\ UNCHANGED <<header, legacyFile>>
         /\ Failed \/ Stored
<1>1. CASE TermNext
  BY <1>1, TermWrites DEF Called, TermsStored
<1>2. CASE Handler /\ UNCHANGED <<phase, crashes, header, legacyFile>>
  BY <1>2, HandlerTypes DEF Called
<1>3. CASE DocumentImport /\ UNCHANGED <<header, legacyFile>>
  <2>1. /\ Called
        /\ \/ Stored /\ UNCHANGED phase
           \/ Failed /\ UNCHANGED phase
           \/ Dies /\ UNCHANGED <<disk, clean, failures>>
    BY <1>3, DocumentImportWrites
  <2> QED BY <1>3, <2>1, TableTypes DEF Called, Dies, Stored
<1>4. CASE DocumentRemove /\ UNCHANGED <<header, legacyFile>>
  <2>1. Called /\ (Stored \/ Failed) /\ (UNCHANGED phase \/ Dies)
    BY <1>4, DocumentRemoveWrites
  <2> QED BY <1>4, <2>1 DEF Called, Dies
<1> QED
  BY <1>1, <1>2, <1>3, <1>4

\* The handlers of projects, memories and entries leave documents and terms alone.
LEMMA HandlerLeaves ==
  ASSUME TypeInv, Handler
  PROVE  /\ disk'.documents = disk.documents /\ disk'.terms = disk.terms
         /\ ram'.documents = ram.documents
         /\ gone'.documents = gone.documents /\ gone'.terms = gone.terms
<1>1. CASE ProjectCreate
  BY <1>1, ProjectCreateWrites DEF Failed, Only, TableNames
<1>2. ASSUME NEW p \in Projects, NEW row \in ProjectRows, SaveProject(p, row)
      PROVE  /\ disk'.documents = disk.documents /\ disk'.terms = disk.terms
             /\ ram'.documents = ram.documents
             /\ gone'.documents = gone.documents /\ gone'.terms = gone.terms
  BY <1>2, SaveProjectWrites DEF Failed, Only, TableNames
<1>3. CASE ProjectArchive \/ QaProfileUpdate
  <2>1. \E p \in Projects, row \in ProjectRows : SaveProject(p, row)
    BY <1>3, ProjectSaves DEF ProjectIds
  <2> QED BY <1>2, <2>1
<1>4. CASE ProjectUpdate
  BY <1>4, ProjectUpdateWrites DEF Failed, Only, TableNames
<1>5. CASE MemoryAttach
  BY <1>5, MemoryAttachWrites DEF Failed, Only, TableNames
<1>6. CASE MemoryDetach
  BY <1>6, MemoryDetachWrites DEF Failed, Only, TableNames
<1>7. CASE MemoryDelete
  <2>1. \/ /\ Only(disk, disk', {"memories", "tm"}) /\ Only(ram, ram', {"memories", "tm", "terms"})
           /\ Only(gone, gone', {"tm", "memories", "projects", "termMounts"})
        \/ Failed /\ UNCHANGED <<ram, gone>>
    BY <1>7, MemoryDeleteWrites
  <2> QED BY <2>1 DEF Failed, Only, TableNames
<1>8. CASE TermbaseAttach \/ TermbaseDetach
  BY <1>8, TermbaseMountWrites DEF Failed, Only, TableNames
<1>9. CASE TmImport
  BY <1>9, TmImportWrites DEF Failed, Only, TableNames
<1>10. CASE TmUpdate
  BY <1>10, TmUpdateWrites DEF Failed, Only, TableNames
<1>11. CASE TmDelete
  BY <1>11, TmDeleteWrites DEF Failed, Only, TableNames
<1> QED
  BY <1>1, <1>3, <1>4, <1>5, <1>6, <1>7, <1>8, <1>9, <1>10, <1>11 DEF Handler

ImportInv ==
  /\ phase \in {"rename", "materialize", "load", "open"} => Imported
  /\ ~Imported => disk = EmptyTables /\ gone = NothingGone
  /\ phase \in {"load", "open"} => Materialized
  /\ ~Materialized => gone = NothingGone

LEMMA ImportInit == Init => ImportInv
BY DEF Init, StoreInit, ImportInv, Imported, Materialized

LEMMA ImportStep ==
  ASSUME TypeInv, ImportInv, [Next]_workspaceVars
  PROVE  ImportInv'
<1>1. header \in Headers
  BY DEF TypeInv
<1> USE DEF ImportInv, Imported, Materialized
<1>2. CASE Start
  BY <1>2 DEF Start
<1>3. CASE Migrate
  <2>1. /\ header'.imported = header.imported /\ header'.materialized = header.materialized
        /\ phase' \in {"migrate", "import"} /\ UNCHANGED <<disk, gone>>
    BY <1>1, <1>3 DEF Migrate, Headers
  <2> QED BY <2>1
<1>4. CASE ImportLegacy
  <2>1. /\ header'.materialized = header.materialized /\ UNCHANGED gone
        /\ \/ /\ header'.imported # "no" /\ phase' \in {"materialize", "rename"}
           \/ /\ header' = header /\ disk' = disk /\ phase' = "closed"
    BY <1>1, <1>4 DEF ImportLegacy, Headers
  <2> QED BY <2>1
<1>5. CASE RenameLegacy
  BY <1>5 DEF RenameLegacy
<1>6. CASE Materialize
  <2>1. header'.imported = header.imported /\ header'.materialized = TRUE /\ phase' = "load" /\ UNCHANGED gone
    BY <1>1, <1>6 DEF Materialize, Headers
  <2>2. phase = "materialize"
    BY <1>6 DEF Materialize
  <2> QED BY <2>1, <2>2
<1>7. CASE Load
  BY <1>7 DEF Load
<1>8. CASE OpenFails
  BY <1>8 DEF OpenFails, Fail
<1>9. CASE Crash
  BY <1>9 DEF Crash, Dies
<1>10. CASE StaleFile
  BY <1>10 DEF StaleFile
<1>11. CASE \/ TermNext
            \/ Handler /\ UNCHANGED <<phase, crashes, header, legacyFile>>
            \/ (DocumentImport \/ DocumentRemove) /\ UNCHANGED <<header, legacyFile>>
  <2>1. phase = "open" /\ UNCHANGED header
    BY <1>11, CallsAreOpen
  <2> QED BY <2>1
<1>12. CASE UNCHANGED workspaceVars
  BY <1>12 DEF workspaceVars, storeVars
<1> QED
  BY <1>2, <1>3, <1>4, <1>5, <1>6, <1>7, <1>8, <1>9, <1>10, <1>11, <1>12
     DEF Next, StoreNext, OpenStep

-----------------------------------------------------------------------------
(* Managed copies.                                                          *)

CopyInv ==
  /\ \A d \in Documents : RowOf(disk.documents, d) => d \in copies
  /\ legacyFile = "json" /\ ~Imported => \A d \in Documents : RowOf(Legacy.documents, d) => d \in copies

LEMMA CopyInit == Init => CopyInv
<1> SUFFICES ASSUME Init PROVE CopyInv
  OBVIOUS
<1>1. copies = {d \in Documents : \/ RowOf(disk.documents, d)
                                  \/ legacyFile = "json" /\ RowOf(Legacy.documents, d)}
  BY DEF Init, StoreInit
<1> QED BY <1>1 DEF CopyInv

LEMMA CopyStep ==
  ASSUME TypeInv, ImportInv, ImportInv', CopyInv, [Next]_workspaceVars
  PROVE  CopyInv'
<1> USE DEF CopyInv
<1>0. disk.documents \in DocumentTables
  BY TableTypes, TableSorts
<1>1. CASE Start \/ RenameLegacy \/ Load \/ OpenFails \/ Crash \/ StaleFile
  <2>1. disk' = disk /\ copies' = copies /\ header' = header
    BY <1>1 DEF Start, RenameLegacy, Load, OpenFails, Fail, Crash, StaleFile
  <2>2. legacyFile' = legacyFile \/ Imported
    BY <1>1 DEF Start, RenameLegacy, Load, OpenFails, Crash, StaleFile, ImportInv
  <2> QED BY <2>1, <2>2 DEF Imported
<1>2. CASE Migrate
  <2>1. header'.imported = header.imported /\ UNCHANGED <<disk, copies, legacyFile>>
    BY <1>2 DEF Migrate, Headers, TypeInv
  <2> QED BY <2>1 DEF Imported
<1>3. CASE ImportLegacy
  <2>1. UNCHANGED <<legacyFile, copies>>
    BY <1>3 DEF ImportLegacy
  <2>2. CASE disk' = disk
    <3>1. legacyFile = "json" => header'.imported # "no" \/ header' = header
      BY <1>3 DEF ImportLegacy, Headers, TypeInv
    <3>2. legacyFile # "json" \/ header'.imported # "no" \/ header' = header
      BY <3>1
    <3> QED BY <2>1, <2>2, <3>2 DEF Imported
  <2>3. CASE disk' # disk
    <3>1. ~Imported /\ legacyFile = "json" /\ header'.imported = "imported"
      BY <1>3, <2>3, ImportWrites DEF Headers, TypeInv
    <3>2. PICK x \in Deduped(Legacy) : disk'.documents = Upserted(disk.documents, x.documents)
      BY <1>3, <2>3, ImportWrites
    <3>3. x.documents = Legacy.documents
      BY DedupedType DEF Only, TableNames
    <3>4. \A d \in Documents : RowOf(disk'.documents, d) => RowOf(disk.documents, d) \/ RowOf(Legacy.documents, d)
      BY <1>0, <3>2, <3>3 DEF Upserted, RowOf, DocumentTables
    <3> QED BY <2>1, <3>1, <3>4 DEF Imported
  <2> QED BY <2>2, <2>3
<1>4. CASE Materialize
  <2>1. disk'.documents = disk.documents
    BY <1>4, MaterializeWrites DEF Only, TableNames
  <2>2. header'.imported = header.imported /\ UNCHANGED <<legacyFile, copies>>
    BY <1>4 DEF Materialize, Headers, TypeInv
  <2> QED BY <2>1, <2>2 DEF Imported
<1>5. ASSUME \/ TermNext
             \/ Handler /\ UNCHANGED <<phase, crashes, header, legacyFile>>
             \/ (DocumentImport \/ DocumentRemove) /\ UNCHANGED <<header, legacyFile>>,
             \A d \in Documents : RowOf(disk'.documents, d) => d \in copies'
      PROVE  CopyInv'
  <2>1. phase = "open" /\ UNCHANGED header
    BY <1>5, CallsAreOpen
  <2> QED BY <1>5, <2>1 DEF ImportInv, Imported
<1>6. CASE TermNext
  <2>1. copies' = copies /\ disk'.documents = disk.documents
    BY <1>6, TermWrites DEF Failed, TermsStored, Only, TableNames
  <2> QED BY <1>5, <1>6, <2>1
<1>7. CASE Handler /\ UNCHANGED <<phase, crashes, header, legacyFile>>
  <2>1. copies' = copies /\ disk'.documents = disk.documents
    BY <1>7, HandlerTypes, HandlerLeaves
  <2> QED BY <1>5, <1>7, <2>1
<1>8. CASE DocumentImport /\ UNCHANGED <<header, legacyFile>>
  <2>1. PICK d \in Documents, row \in DocumentRows :
          /\ copies' = copies \cup {d}
          /\ \/ disk'.documents = [disk.documents EXCEPT ![d] = row]
             \/ disk' = disk
    BY <1>8, DocumentImportWrites DEF Failed
  <2>2. \A e \in Documents \ {d} : disk'.documents[e] = disk.documents[e]
    BY <1>0, <2>1 DEF DocumentTables
  <2>3. \A e \in Documents : RowOf(disk'.documents, e) => e \in copies'
    BY <2>1, <2>2 DEF RowOf
  <2> QED BY <1>5, <1>8, <2>3
<1>9. CASE DocumentRemove /\ UNCHANGED <<header, legacyFile>>
  <2>1. PICK d \in Documents :
          /\ copies' \in {copies \ {d}, copies} /\ (RowOf(disk'.documents, d) => copies' = copies)
          /\ \/ disk'.documents = [disk.documents EXCEPT ![d] = None]
             \/ disk' = disk
    BY <1>9, DocumentRemoveWrites DEF Failed
  <2>2. \A e \in Documents \ {d} : disk'.documents[e] = disk.documents[e]
    BY <1>0, <2>1 DEF DocumentTables
  <2>3. RowOf(disk'.documents, d) => RowOf(disk.documents, d)
    BY <1>0, <2>1 DEF DocumentTables, RowOf
  <2>4. \A e \in Documents : RowOf(disk'.documents, e) => e \in copies'
    BY <2>1, <2>2, <2>3 DEF RowOf
  <2> QED BY <1>5, <1>9, <2>4
<1>10. CASE UNCHANGED workspaceVars
  BY <1>10 DEF workspaceVars, storeVars, Imported
<1> QED
  BY <1>1, <1>2, <1>3, <1>4, <1>6, <1>7, <1>8, <1>9, <1>10 DEF Next, StoreNext, OpenStep

(* A document the database lists has its managed copy, through imports and  *)
(* removals that fail or die half way and through the import of a           *)
(* state.json, whose documents an earlier build copied.                     *)
THEOREM CopiesStay == Spec => []EveryDocumentHasItsCopy
<1>1. Init => TypeInv /\ ImportInv /\ CopyInv
  BY TypeInit, ImportInit, CopyInit
<1>2. TypeInv /\ ImportInv /\ CopyInv /\ [Next]_workspaceVars => TypeInv' /\ ImportInv' /\ CopyInv'
  BY TypeStep, ImportStep, CopyStep
<1>3. CopyInv => EveryDocumentHasItsCopy
  BY DEF CopyInv, EveryDocumentHasItsCopy
<1> QED
  BY <1>1, <1>2, <1>3, PTL DEF Spec

-----------------------------------------------------------------------------
(* RAM and the index.                                                       *)

RamInv ==
  /\ failures = 0 => clean
  /\ phase = "open" /\ clean => ram = Loaded(disk) /\ Indexed(disk.tm, index)

LEMMA IndexIsIndexed ==
  ASSUME NEW x \in Tables, NEW idx
  PROVE  Indexed(x.tm, idx) <=> idx = IndexOf(x)
BY DEF Indexed, IndexOf, RowOf

LEMMA RamInit == Init => RamInv
BY DEF Init, StoreInit, RamInv

\* A call that failed leaves nothing to show; one that was stored changed RAM and
\* the index as it changed the database.
LEMMA CallKeepsRam ==
  ASSUME TypeInv, RamInv, phase = "open", Failed \/ Stored,
         ram = Loaded(disk) /\ Indexed(disk.tm, index) /\ Stored /\ phase' = "open" =>
           ram' = Loaded(disk') /\ Indexed(disk'.tm, index')
  PROVE  RamInv'
<1>1. CASE Failed
  <2>1. clean' = FALSE /\ failures' # 0
    BY <1>1 DEF Failed, TypeInv, TypeOK
  <2> QED BY <2>1 DEF RamInv
<1>2. CASE Stored
  <2>1. clean' = clean /\ failures' = failures
    BY <1>2 DEF Stored
  <2>2. failures' = 0 => clean'
    BY <2>1, Zenon DEF RamInv
  <2>3. phase' = "open" /\ clean' => ram' = Loaded(disk') /\ Indexed(disk'.tm, index')
    BY <1>2, <2>1, Zenon DEF RamInv
  <2> QED BY <2>2, <2>3, Zenon DEF RamInv
<1> QED BY <1>1, <1>2

LEMMA HandlerKeepsRam ==
  ASSUME TypeInv, Handler, Stored, ram = Loaded(disk), Indexed(disk.tm, index)
  PROVE  ram' = Loaded(disk') /\ Indexed(disk'.tm, index')
<1>0. disk' \in Tables /\ ram \in Rams /\ disk \in Tables /\ index \in Indexes
  BY TableTypes DEF Stored, TypeInv
<1>1. /\ ram.projects = disk.projects /\ ram.documents = disk.documents
      /\ ram.memories = disk.memories /\ ram.mounts = disk.mounts /\ ram.termMounts = disk.termMounts
  BY <1>0, LoadedFields
<1>2. failures \in Nat /\ ~Failed
  BY DEF Stored, Failed, TypeInv, TypeOK
<1>3. SUFFICES /\ ram' \in Rams
               /\ ram'.projects = disk'.projects /\ ram'.documents = disk'.documents
               /\ ram'.memories = disk'.memories /\ ram'.mounts = disk'.mounts
               /\ ram'.termMounts = disk'.termMounts /\ Indexed(disk'.tm, index')
  BY <1>0, LoadedFields
<1> USE DEF Only, TableNames
<1>4. CASE ProjectCreate
  BY <1>1, <1>2, <1>4, ProjectCreateWrites
<1>5. ASSUME NEW p \in Projects, NEW row \in ProjectRows, SaveProject(p, row)
      PROVE  /\ ram' \in Rams
             /\ ram'.projects = disk'.projects /\ ram'.documents = disk'.documents
             /\ ram'.memories = disk'.memories /\ ram'.mounts = disk'.mounts
             /\ ram'.termMounts = disk'.termMounts /\ Indexed(disk'.tm, index')
  <2>1. /\ ram' \in Rams /\ Only(ram, ram', {"projects", "tm", "terms"}) /\ UNCHANGED index
        /\ ram'.projects = [ram.projects EXCEPT ![p] = row]
        /\ Only(disk, disk', {"projects"})
        /\ disk'.projects = [disk.projects EXCEPT ![p] = row]
    BY <1>2, <1>5, SaveProjectWrites
  <2> QED BY <1>1, <2>1
<1>6. CASE ProjectArchive \/ QaProfileUpdate
  <2>1. \E p \in Projects, row \in ProjectRows : SaveProject(p, row)
    BY <1>6, ProjectSaves DEF ProjectIds
  <2> QED BY <1>5, <2>1
<1>7. CASE ProjectUpdate
  <2>1. PICK p \in ProjectIds, row \in ProjectRows :
              /\ ram' \in Rams /\ Only(ram, ram', {"projects", "memories", "tm", "terms"})
              /\ ram'.projects = [ram.projects EXCEPT ![p] = row]
              /\ Only(disk, disk', {"projects", "memories"})
              /\ disk'.projects = [disk.projects EXCEPT ![p] = row]
              /\ \A m \in Projects : disk.memories[m] = ram.memories[m] => disk'.memories[m] = ram'.memories[m]
    BY <1>2, <1>7, ProjectUpdateWrites
  <2>2. ram'.memories = disk'.memories
    <3>1. ram'.memories \in MemoryTables /\ disk'.memories \in MemoryTables
      BY <1>0, <2>1, TableSorts DEF Rams
    <3> QED BY <1>1, <2>1, <3>1 DEF MemoryTables
  <2> QED BY <1>1, <1>7, <2>1, <2>2, ProjectUpdateWrites
<1>8. CASE MemoryAttach
  BY <1>1, <1>2, <1>8, MemoryAttachWrites
<1>9. CASE MemoryDetach
  BY <1>1, <1>2, <1>9, MemoryDetachWrites
<1>10. CASE MemoryDelete
  <2>1. PICK m \in MemoryIds :
              /\ Only(disk, disk', {"memories", "tm"})
              /\ disk'.memories = [disk.memories EXCEPT ![m] = None]
              /\ disk'.tm = [e \in Entries |-> IF e \in EntriesOf(m) THEN None ELSE disk.tm[e]]
              /\ ram' \in Rams /\ Only(ram, ram', {"memories", "tm", "terms"})
              /\ ram'.memories = [ram.memories EXCEPT ![m] = None]
              /\ index' = [e \in Entries |->
                             IF index[e] # None /\ index[e].memory = m THEN None ELSE index[e]]
    BY <1>2, <1>10, MemoryDeleteWrites
  <2>2. ASSUME NEW e \in Entries
        PROVE  index'[e] = IF disk'.tm[e] # None
                           THEN [memory |-> disk'.tm[e].memory, source |-> disk'.tm[e].source] ELSE None
    <3>1. index[e] = IF disk.tm[e] # None
                     THEN [memory |-> disk.tm[e].memory, source |-> disk.tm[e].source] ELSE None
      BY DEF Indexed
    <3>2. index[e] # None /\ index[e].memory = m <=> e \in EntriesOf(m)
      <4>1. CASE disk.tm[e] = None
        BY <3>1, <4>1 DEF EntriesOf, RowOf
      <4>2. CASE disk.tm[e] # None
        <5>1. disk.tm[e] \in EntryRows
          BY <1>0, <4>2, TableSorts DEF EntryTables
        <5>2. index[e] \in IndexRows /\ index[e].memory = disk.tm[e].memory
          BY <3>1, <4>2, <5>1 DEF EntryRows, IndexRows
        <5>3. index[e] # None
          BY <5>2, StoreAssumption
        <5> QED BY <4>2, <5>2, <5>3 DEF EntriesOf, RowOf
      <4> QED BY <4>1, <4>2
    <3>3. CASE e \in EntriesOf(m)
      BY <2>1, <3>2, <3>3
    <3>4. CASE e \notin EntriesOf(m)
      BY <2>1, <3>1, <3>2, <3>4
    <3> QED BY <3>3, <3>4
  <2>3. Indexed(disk'.tm, index')
    BY <2>1, <2>2 DEF Indexed
  <2> QED BY <1>1, <2>1, <2>3
<1>11. CASE TermbaseAttach \/ TermbaseDetach
  BY <1>1, <1>2, <1>11, TermbaseMountWrites
<1>12. CASE TmImport
  BY <1>0, <1>1, <1>2, <1>12, TmImportWrites
<1>13. CASE TmUpdate
  BY <1>0, <1>1, <1>2, <1>13, TmUpdateWrites
<1>14. CASE TmDelete
  BY <1>0, <1>1, <1>2, <1>14, TmDeleteWrites
<1> QED
  BY <1>4, <1>6, <1>7, <1>8, <1>9, <1>10, <1>11, <1>12, <1>13, <1>14 DEF Handler

LEMMA RamStep ==
  ASSUME TypeInv, RamInv, [Next]_workspaceVars
  PROVE  RamInv'
<1>0. disk \in Tables /\ ram \in Rams
  BY TableTypes
<1>1. CASE StoreNext /\ UNCHANGED writes
  <2>1. CASE Load
    <3>1. clean' = TRUE /\ ram' = Loaded(disk) /\ index' = IndexOf(disk) /\ disk' = disk
      BY <2>1 DEF Load
    <3> QED BY <1>0, <3>1, IndexIsIndexed DEF RamInv
  <2>2. CASE StaleFile
    BY <2>2 DEF StaleFile, RamInv
  <2>3. CASE OpenFails
    BY <2>3 DEF OpenFails, Fail, RamInv, TypeInv, TypeOK
  <2>4. CASE Crash
    BY <2>4 DEF Crash, Dies, RamInv
  <2>5. CASE Start \/ Migrate \/ ImportLegacy \/ RenameLegacy \/ Materialize
    BY <2>5 DEF Start, Migrate, ImportLegacy, RenameLegacy, Materialize, RamInv
  <2> QED BY <1>1, <2>1, <2>2, <2>3, <2>4, <2>5 DEF StoreNext, OpenStep
<1>2. CASE TermNext
  <2>1. UNCHANGED <<ram, index>> /\ (Failed \/ (Stored /\ Only(disk, disk', {"terms"}))) /\ phase = "open"
    BY <1>2, TermWrites DEF TermsStored, Called
  <2>2. ASSUME Stored, Only(disk, disk', {"terms"}), ram = Loaded(disk), Indexed(disk.tm, index)
        PROVE  ram' = Loaded(disk') /\ Indexed(disk'.tm, index')
    BY <1>0, <2>1, <2>2, LoadedFields DEF Stored, Only, TableNames
  <2>3. Stored /\ ram = Loaded(disk) /\ Indexed(disk.tm, index) => ram' = Loaded(disk') /\ Indexed(disk'.tm, index')
    <3>1. Stored => ~Failed
      BY DEF Stored, Failed, TypeInv, TypeOK
    <3> QED BY <2>1, <2>2, <3>1
  <2> QED BY <2>1, <2>3, CallKeepsRam
<1>3. CASE Handler /\ UNCHANGED <<phase, crashes, header, legacyFile>>
  <2>1. phase = "open" /\ (Failed \/ Stored)
    BY <1>3, HandlerTypes DEF Called
  <2> QED BY <1>3, <2>1, HandlerKeepsRam, CallKeepsRam
<1>4. CASE DocumentImport /\ UNCHANGED <<header, legacyFile>>
  <2>1. phase = "open" /\ (Failed \/ Stored)
    BY <1>4, CallsAreOpen
  <2>2. ASSUME Stored, phase' = "open", ram = Loaded(disk), Indexed(disk.tm, index)
        PROVE  ram' = Loaded(disk') /\ Indexed(disk'.tm, index')
    <3>1. \E d, row : /\ Only(disk, disk', {"documents"})
                      /\ disk'.documents = [disk.documents EXCEPT ![d] = row]
                      /\ ram' \in Rams /\ Only(ram, ram', {"documents", "tm", "terms"})
                      /\ ram'.documents = [ram.documents EXCEPT ![d] = row]
                      /\ UNCHANGED index
      <4>1. ~Failed /\ ~Dies
        BY <2>2 DEF Stored, Failed, TypeInv, TypeOK, Dies
      <4> QED BY <1>4, <4>1, DocumentImportWrites
    <3> QED BY <1>0, <2>2, <3>1, LoadedFields DEF Stored, Only, TableNames
  <2> QED BY <2>1, <2>2, CallKeepsRam
<1>5. CASE DocumentRemove /\ UNCHANGED <<header, legacyFile>>
  <2>1. phase = "open" /\ (Failed \/ Stored)
    BY <1>5, CallsAreOpen
  <2>2. ASSUME Stored, phase' = "open", ram = Loaded(disk), Indexed(disk.tm, index)
        PROVE  ram' = Loaded(disk') /\ Indexed(disk'.tm, index')
    <3>1. \E d : /\ Only(disk, disk', {"documents"})
                 /\ disk'.documents = [disk.documents EXCEPT ![d] = None]
                 /\ ram' \in Rams /\ Only(ram, ram', {"documents", "tm", "terms"})
                 /\ ram'.documents = [ram.documents EXCEPT ![d] = None]
                 /\ UNCHANGED index
      <4>1. ~Failed /\ ~Dies
        BY <2>2 DEF Stored, Failed, TypeInv, TypeOK, Dies
      <4> QED BY <1>5, <4>1, DocumentRemoveWrites
    <3> QED BY <1>0, <2>2, <3>1, LoadedFields DEF Stored, Only, TableNames
  <2> QED BY <2>1, <2>2, CallKeepsRam
<1>6. CASE UNCHANGED workspaceVars
  BY <1>6 DEF workspaceVars, storeVars, RamInv
<1> QED
  BY <1>1, <1>2, <1>3, <1>4, <1>5, <1>6 DEF Next

(* While no write has failed since the tables were loaded, what the engine  *)
(* decides on and the fuzzy index it recalls by are what a restart would    *)
(* load from the database, after any sequence of calls.                     *)
THEOREM RamFollows == Spec => []RamIsStored
<1>1. Init => TypeInv /\ RamInv
  BY TypeInit, RamInit
<1>2. TypeInv /\ RamInv /\ [Next]_workspaceVars => TypeInv' /\ RamInv'
  BY TypeStep, RamStep
<1>3. TypeInv /\ RamInv => RamIsStored
  BY TableTypes, IndexIsIndexed DEF RamInv, RamIsStored
<1> QED
  BY <1>1, <1>2, <1>3, PTL DEF Spec

-----------------------------------------------------------------------------
(* What was removed.                                                        *)

\* Documents, entries and terms: a row that was removed is nowhere written again.
GoneRows ==
  /\ \A d \in Documents \cap gone.documents : disk.documents[d] = None
  /\ \A e \in Entries \cap gone.tm : disk.tm[e] = None
  /\ \A t \in Terms \cap gone.terms : disk.terms[t] = None

\* Memories and mounts: only a project the engine knows nothing of gets a memory
\* and a mount it did not ask for, and of such a project nothing was removed.
OwnInv ==
  /\ \A m \in Projects \cap gone.memories : disk.memories[m] = None
  /\ gone.mounts \cap disk.mounts = {}
  /\ \A m \in Projects : RowOf(disk.memories, m) \/ m \in gone.memories => RowOf(disk.projects, m)
  /\ \A p, m \in Projects : <<p, m>> \in disk.mounts \/ <<p, m>> \in gone.mounts => RowOf(disk.projects, p)
  /\ phase = "open" =>
       /\ \A p \in Projects : RowOf(ram.projects, p) <=> RowOf(disk.projects, p)
       /\ \A m \in Projects : RowOf(ram.memories, m) => m \notin gone.memories /\ RowOf(disk.projects, m)

LEMMA GoneInit == Init => GoneRows /\ OwnInv
<1> SUFFICES ASSUME Init PROVE GoneRows /\ OwnInv
  OBVIOUS
<1>1. gone = NothingGone /\ phase = "closed"
  BY DEF Init, StoreInit
<1>2. disk.memories = EmptyTables.memories /\ disk.mounts = {}
  BY EmptyIsTables, DedupedType DEF Init, StoreInit
<1> QED
  BY <1>1, <1>2, EmptyIsTables DEF NothingGone, GoneRows, OwnInv, RowOf

LEMMA GoneOpening ==
  ASSUME TypeInv, ImportInv, GoneRows, OwnInv, StoreNext
  PROVE  GoneRows' /\ OwnInv'
<1>1. gone' = gone
  BY DEF StoreNext, OpenStep, Start, Migrate, ImportLegacy, RenameLegacy, Materialize, Load,
         OpenFails, Crash, StaleFile
<1>2. ASSUME disk' = disk, phase' # "open" \/ UNCHANGED <<phase, ram>>
      PROVE  GoneRows' /\ OwnInv'
  BY <1>1, <1>2 DEF GoneRows, OwnInv
<1>3. CASE Start \/ Migrate \/ RenameLegacy \/ OpenFails \/ Crash \/ StaleFile
  <2>1. disk' = disk /\ (phase' # "open" \/ UNCHANGED <<phase, ram>>)
    BY <1>3 DEF Start, Migrate, RenameLegacy, OpenFails, Fail, Crash, Dies, StaleFile
  <2> QED BY <1>2, <2>1
<1>4. CASE Load
  <2>1. disk' = disk /\ ram' = Loaded(disk)
    BY <1>4 DEF Load
  <2>2. ram'.projects = disk.projects /\ ram'.memories = disk.memories
    BY <2>1 DEF Loaded
  <2> QED BY <1>1, <2>1, <2>2 DEF GoneRows, OwnInv, RowOf
<1>5. CASE ImportLegacy
  <2>1. CASE disk' = disk
    BY <1>2, <1>5, <2>1 DEF ImportLegacy
  <2>2. CASE disk' # disk
    <3>1. gone = NothingGone /\ disk = EmptyTables /\ phase' = "rename"
      BY <1>5, <2>2, ImportWrites DEF ImportInv
    <3>2. disk'.memories = disk.memories /\ disk'.mounts = disk.mounts
      BY <1>5, <2>2, ImportWrites DEF Only, TableNames
    <3> QED BY <1>1, <3>1, <3>2, EmptyIsTables DEF NothingGone, GoneRows, OwnInv, RowOf
  <2> QED BY <2>1, <2>2
<1>6. CASE Materialize
  <2>1. CASE disk' = disk
    BY <1>2, <1>6, <2>1, MaterializeWrites
  <2>2. CASE disk' # disk
    <3>1. /\ gone = NothingGone /\ phase' = "load" /\ disk'.projects = disk.projects
          /\ \A p \in Projects : disk'.memories[p] = disk.memories[p] \/ RowOf(disk.projects, p)
          /\ \A m \in disk'.mounts : m \in disk.mounts \/ \E p \in Projects : m = <<p, p>> /\ RowOf(disk.projects, p)
      BY <1>6, <2>2, MaterializeWrites DEF ImportInv, Only, TableNames
    <3> QED BY <1>1, <3>1 DEF NothingGone, GoneRows, OwnInv, RowOf
  <2> QED BY <2>1, <2>2
<1> QED
  BY <1>3, <1>4, <1>5, <1>6 DEF StoreNext, OpenStep

LEMMA GoneRowsCall ==
  ASSUME TypeInv, GoneRows, Handler
  PROVE  GoneRows'
<1>1. /\ disk'.documents = disk.documents /\ disk'.terms = disk.terms
      /\ gone'.documents = gone.documents /\ gone'.terms = gone.terms
  BY HandlerLeaves
<1>2. SUFFICES \A e \in Entries \cap gone'.tm : disk'.tm[e] = None
  BY <1>1 DEF GoneRows
<1>0. disk.tm \in EntryTables
  BY TableTypes, TableSorts
<1>13. ASSUME disk' = disk \/ \E names : "tm" \notin names /\ Only(disk, disk', names),
              gone' = gone \/ \E names : "tm" \notin names /\ Only(gone, gone', names)
       PROVE  \A e \in Entries \cap gone'.tm : disk'.tm[e] = None
  BY <1>13 DEF Only, TableNames, GoneRows
<1>3. CASE ProjectCreate
  <2>1. gone' = gone /\ (disk' = disk \/ Only(disk, disk', {"projects", "memories", "mounts"}))
    BY <1>3, ProjectCreateWrites DEF Failed
  <2> QED BY <1>13, <2>1
<1>4. CASE ProjectArchive \/ QaProfileUpdate
  <2>1. PICK p \in Projects, row \in ProjectRows : SaveProject(p, row)
    BY <1>4, ProjectSaves DEF ProjectIds
  <2>2. gone' = gone /\ (disk' = disk \/ Only(disk, disk', {"projects"}))
    BY <2>1, SaveProjectWrites DEF Failed
  <2> QED BY <1>13, <2>2
<1>5. CASE ProjectUpdate
  <2>1. gone' = gone /\ (disk' = disk \/ Only(disk, disk', {"projects", "memories"}))
    BY <1>5, ProjectUpdateWrites DEF Failed
  <2> QED BY <1>13, <2>1
<1>6. CASE MemoryAttach
  <2>1. \/ Only(gone, gone', {"mounts", "projects", "termMounts"}) /\ Only(disk, disk', {"mounts"})
        \/ disk' = disk /\ gone' = gone
    BY <1>6, MemoryAttachWrites DEF Failed
  <2> QED BY <1>13, <2>1
<1>7. CASE MemoryDetach
  <2>1. \/ Only(gone, gone', {"mounts", "projects", "termMounts"}) /\ Only(disk, disk', {"mounts"})
        \/ disk' = disk /\ gone' = gone
    BY <1>7, MemoryDetachWrites DEF Failed
  <2> QED BY <1>13, <2>1
<1>8. CASE MemoryDelete
  <2>1. PICK m \in MemoryIds :
          \/ /\ disk'.tm = [e \in Entries |-> IF e \in EntriesOf(m) THEN None ELSE disk.tm[e]]
             /\ gone'.tm = gone.tm \cup EntriesOf(m)
          \/ disk' = disk /\ gone' = gone
    BY <1>8, MemoryDeleteWrites DEF Failed
  <2> QED BY <2>1 DEF GoneRows
<1>9. CASE TermbaseAttach \/ TermbaseDetach
  <2>1. gone' = gone /\ (disk' = disk \/ Only(disk, disk', {"termMounts"}))
    BY <1>9, TermbaseMountWrites DEF Failed
  <2> QED BY <1>13, <2>1
<1>10. CASE TmImport
  BY <1>10, TmImportWrites DEF Failed, GoneRows
<1>11. CASE TmUpdate
  BY <1>11, TmUpdateWrites DEF Failed, GoneRows
<1>12. CASE TmDelete
  <2>1. CASE disk' = disk /\ gone' = gone
    BY <2>1 DEF GoneRows
  <2>2. CASE ~(disk' = disk /\ gone' = gone)
    <3>1. PICK e \in Entries : disk'.tm = [disk.tm EXCEPT ![e] = None] /\ gone'.tm = gone.tm \cup {e}
      BY <1>12, <2>2, TmDeleteWrites DEF Failed
    <3> QED BY <1>0, <3>1 DEF EntryTables, GoneRows
  <2> QED BY <2>1, <2>2
<1> QED
  BY <1>3, <1>4, <1>5, <1>6, <1>7, <1>8, <1>9, <1>10, <1>11, <1>12 DEF Handler

LEMMA OwnCall ==
  ASSUME TypeInv, OwnInv, Handler, UNCHANGED phase
  PROVE  OwnInv'
<1>0. /\ phase = "open"
      /\ disk.projects \in ProjectTables /\ ram.projects \in ProjectTables
      /\ disk.memories \in MemoryTables /\ ram.memories \in MemoryTables
      /\ disk.mounts \in MountTables /\ gone.mounts \in MountTables
  BY HandlerTypes, TableTypes, TableSorts DEF Called, TypeInv, Rams, Removed
<1>1. ASSUME NEW p \in Projects, NEW row \in ProjectRows
      PROVE  row # None
  BY StoreAssumption
<1>2. CASE ProjectCreate
  <2>1. CASE disk' = disk /\ ram' = ram
    BY <1>2, <2>1, ProjectCreateWrites DEF OwnInv
  <2>2. CASE ~(disk' = disk /\ ram' = ram)
    <3>1. PICK p \in Projects, row \in ProjectRows :
                 /\ ram.projects[p] = None
                 /\ disk'.projects = [disk.projects EXCEPT ![p] = row]
                 /\ disk'.memories = [disk.memories EXCEPT ![p] = row.pair]
                 /\ disk'.mounts = disk.mounts \cup {<<p, p>>}
                 /\ ram'.projects = [ram.projects EXCEPT ![p] = row]
                 /\ ram'.memories = [ram.memories EXCEPT ![p] = row.pair]
                 /\ gone' = gone
      BY <1>2, <2>2, ProjectCreateWrites DEF Failed
    <3>2. disk.projects[p] = None /\ p \notin gone.memories /\ <<p, p>> \notin gone.mounts
      BY <1>0, <3>1 DEF OwnInv, RowOf
    <3>3. \A q \in Projects :
            /\ RowOf(disk'.projects, q) <=> RowOf(disk.projects, q) \/ q = p
            /\ RowOf(ram'.projects, q) <=> RowOf(ram.projects, q) \/ q = p
            /\ RowOf(disk'.memories, q) => RowOf(disk.memories, q) \/ q = p
            /\ RowOf(ram'.memories, q) => RowOf(ram.memories, q) \/ q = p
            /\ q # p => disk'.memories[q] = disk.memories[q]
      BY <1>0, <1>1, <3>1 DEF RowOf, ProjectTables, MemoryTables
    <3>4. /\ \A m \in Projects \cap gone'.memories : disk'.memories[m] = None
          /\ gone'.mounts \cap disk'.mounts = {}
      BY <3>1, <3>2, <3>3 DEF OwnInv
    <3>5. /\ \A m \in Projects : RowOf(disk'.memories, m) \/ m \in gone'.memories => RowOf(disk'.projects, m)
          /\ \A q, m \in Projects : <<q, m>> \in disk'.mounts \/ <<q, m>> \in gone'.mounts => RowOf(disk'.projects, q)
      BY <3>1, <3>2, <3>3 DEF OwnInv
    <3>6. /\ \A q \in Projects : RowOf(ram'.projects, q) <=> RowOf(disk'.projects, q)
          /\ \A m \in Projects : RowOf(ram'.memories, m) => m \notin gone'.memories /\ RowOf(disk'.projects, m)
      BY <1>0, <3>1, <3>2, <3>3 DEF OwnInv
    <3> QED BY <3>4, <3>5, <3>6 DEF OwnInv
  <2> QED BY <2>1, <2>2
\* The other handlers write rows where there are rows.
<1>3. ASSUME gone' = gone, disk'.mounts = disk.mounts,
             \A q \in Projects :
               /\ RowOf(disk'.projects, q) <=> RowOf(disk.projects, q)
               /\ RowOf(ram'.projects, q) <=> RowOf(ram.projects, q)
               /\ disk'.memories[q] = disk.memories[q] \/ RowOf(ram.memories, q)
               /\ RowOf(ram'.memories, q) => RowOf(ram.memories, q)
      PROVE  OwnInv'
  <2>1. \A m \in Projects \cap gone'.memories : disk'.memories[m] = None
    BY <1>0, <1>3 DEF OwnInv
  <2>2. gone'.mounts \cap disk'.mounts = {}
    BY <1>3 DEF OwnInv
  <2>3. \A m \in Projects : RowOf(disk'.memories, m) \/ m \in gone'.memories => RowOf(disk'.projects, m)
    BY <1>0, <1>3 DEF OwnInv, RowOf
  <2>4. \A q, m \in Projects : <<q, m>> \in disk'.mounts \/ <<q, m>> \in gone'.mounts => RowOf(disk'.projects, q)
    BY <1>3 DEF OwnInv
  <2>5. /\ \A q \in Projects : RowOf(ram'.projects, q) <=> RowOf(disk'.projects, q)
        /\ \A m \in Projects : RowOf(ram'.memories, m) => m \notin gone'.memories /\ RowOf(disk'.projects, m)
    BY <1>0, <1>3 DEF OwnInv
  <2> QED BY <2>1, <2>2, <2>3, <2>4, <2>5 DEF OwnInv
<1>4. ASSUME NEW p \in ProjectIds, NEW row \in ProjectRows,
             disk'.projects = disk.projects \/ disk'.projects = [disk.projects EXCEPT ![p] = row],
             ram'.projects = [ram.projects EXCEPT ![p] = row]
      PROVE  \A q \in Projects :
               /\ RowOf(disk'.projects, q) <=> RowOf(disk.projects, q)
               /\ RowOf(ram'.projects, q) <=> RowOf(ram.projects, q)
  <2>1. p \in Projects /\ RowOf(ram.projects, p) /\ RowOf(disk.projects, p)
    BY <1>0, <1>4 DEF ProjectIds, OwnInv
  <2> QED BY <1>0, <1>1, <1>4, <2>1 DEF RowOf, ProjectTables
<1>5. CASE ProjectArchive \/ QaProfileUpdate
  <2>1. PICK p \in ProjectIds, row \in ProjectRows : SaveProject(p, row)
    BY <1>5, ProjectSaves
  <2>2. /\ gone' = gone /\ Only(ram, ram', {"projects", "tm", "terms"})
        /\ ram'.projects = [ram.projects EXCEPT ![p] = row]
        /\ \/ disk' = disk
           \/ /\ Only(disk, disk', {"projects"})
              /\ disk'.projects = [disk.projects EXCEPT ![p] = row]
    BY <2>1, SaveProjectWrites DEF Failed, ProjectIds
  <2>3. /\ disk'.memories = disk.memories /\ disk'.mounts = disk.mounts /\ ram'.memories = ram.memories
        /\ disk'.projects = disk.projects \/ disk'.projects = [disk.projects EXCEPT ![p] = row]
    BY <2>2 DEF Only, TableNames
  <2>4. \A q \in Projects :
               /\ RowOf(disk'.projects, q) <=> RowOf(disk.projects, q)
               /\ RowOf(ram'.projects, q) <=> RowOf(ram.projects, q)
    BY <1>4, <2>2, <2>3
  <2> QED BY <1>3, <2>2, <2>3, <2>4
<1>6. CASE ProjectUpdate
  <2>1. gone' = gone
    BY <1>6, ProjectUpdateWrites
  <2>2. PICK p \in ProjectIds, row \in ProjectRows :
              /\ Only(ram, ram', {"projects", "memories", "tm", "terms"})
              /\ ram'.projects = [ram.projects EXCEPT ![p] = row]
              /\ \A m \in Projects : RowOf(ram'.memories, m) => RowOf(ram.memories, m)
              /\ \/ disk' = disk
                 \/ /\ Only(disk, disk', {"projects", "memories"})
                    /\ disk'.projects = [disk.projects EXCEPT ![p] = row]
                    /\ \A m \in Projects : disk'.memories[m] = disk.memories[m] \/ RowOf(ram.memories, m)
    BY <1>6, ProjectUpdateWrites DEF Failed
  <2>3. /\ disk'.mounts = disk.mounts
        /\ disk'.projects = disk.projects \/ disk'.projects = [disk.projects EXCEPT ![p] = row]
        /\ \A m \in Projects : disk'.memories[m] = disk.memories[m] \/ RowOf(ram.memories, m)
    BY <2>2 DEF Only, TableNames
  <2>4. \A q \in Projects :
               /\ RowOf(disk'.projects, q) <=> RowOf(disk.projects, q)
               /\ RowOf(ram'.projects, q) <=> RowOf(ram.projects, q)
    BY <1>4, <2>2, <2>3
  <2> QED BY <1>3, <2>1, <2>2, <2>3, <2>4
<1>7. CASE MemoryAttach
  <2>1. PICK p \in ProjectIds, m \in MemoryIds :
              \/ /\ Only(disk, disk', {"mounts"}) /\ disk'.mounts = disk.mounts \cup {<<p, m>>}
                 /\ Only(ram, ram', {"mounts", "tm", "terms"})
                 /\ Only(gone, gone', {"mounts", "projects", "termMounts"})
                 /\ gone'.mounts = gone.mounts \ {<<p, m>>}
              \/ disk' = disk /\ ram' = ram /\ gone' = gone
    BY <1>7, MemoryAttachWrites DEF Failed
  <2>2. /\ disk'.projects = disk.projects /\ disk'.memories = disk.memories
        /\ ram'.projects = ram.projects /\ ram'.memories = ram.memories
        /\ gone'.memories = gone.memories
        /\ disk'.mounts \subseteq disk.mounts \cup {<<p, m>>} /\ gone'.mounts \subseteq gone.mounts
        /\ gone'.mounts \cap disk'.mounts \subseteq gone.mounts \cap disk.mounts
    BY <2>1 DEF Only, TableNames
  <2>3. p \in Projects /\ RowOf(disk.projects, p)
    BY <1>0 DEF ProjectIds, OwnInv
  <2> QED BY <1>0, <2>2, <2>3 DEF OwnInv, RowOf
<1>8. CASE MemoryDetach
  <2>1. PICK p \in ProjectIds, m \in MemoryIds :
              /\ Only(ram, ram', {"mounts", "tm", "terms"})
              /\ \/ /\ Only(disk, disk', {"mounts"}) /\ disk'.mounts = disk.mounts \ {<<p, m>>}
                    /\ Only(gone, gone', {"mounts", "projects", "termMounts"})
                    /\ gone'.mounts = gone.mounts \cup {<<p, m>>}
                 \/ disk' = disk /\ gone' = gone
    BY <1>8, MemoryDetachWrites DEF Failed
  <2>2. /\ disk'.projects = disk.projects /\ disk'.memories = disk.memories
        /\ ram'.projects = ram.projects /\ ram'.memories = ram.memories
        /\ gone'.memories = gone.memories
        /\ disk'.mounts \subseteq disk.mounts /\ gone'.mounts \subseteq gone.mounts \cup {<<p, m>>}
        /\ gone'.mounts \cap disk'.mounts \subseteq gone.mounts \cap disk.mounts
    BY <2>1 DEF Only, TableNames
  <2>3. p \in Projects /\ RowOf(disk.projects, p)
    BY <1>0 DEF ProjectIds, OwnInv
  <2> QED BY <1>0, <2>2, <2>3 DEF OwnInv, RowOf
<1>9. CASE MemoryDelete
  <2>1. PICK m \in MemoryIds :
              \/ /\ Only(disk, disk', {"memories", "tm"})
                 /\ disk'.memories = [disk.memories EXCEPT ![m] = None]
                 /\ Only(ram, ram', {"memories", "tm", "terms"})
                 /\ ram'.memories = [ram.memories EXCEPT ![m] = None]
                 /\ Only(gone, gone', {"tm", "memories", "projects", "termMounts"})
                 /\ gone'.memories = gone.memories \cup {m}
              \/ disk' = disk /\ ram' = ram /\ gone' = gone
    BY <1>9, MemoryDeleteWrites DEF Failed
  <2>2. CASE disk' = disk /\ ram' = ram /\ gone' = gone
    BY <2>2 DEF OwnInv
  <2>3. CASE /\ Only(disk, disk', {"memories", "tm"})
             /\ disk'.memories = [disk.memories EXCEPT ![m] = None]
             /\ Only(ram, ram', {"memories", "tm", "terms"})
             /\ ram'.memories = [ram.memories EXCEPT ![m] = None]
             /\ Only(gone, gone', {"tm", "memories", "projects", "termMounts"})
             /\ gone'.memories = gone.memories \cup {m}
    <3>1. /\ disk'.projects = disk.projects /\ disk'.mounts = disk.mounts
          /\ ram'.projects = ram.projects /\ gone'.mounts = gone.mounts
      BY <2>3 DEF Only, TableNames
    <3>2. m \in Projects /\ RowOf(disk.projects, m)
      BY <1>0 DEF MemoryIds, OwnInv
    <3>3. \A q \in Projects : /\ disk'.memories[q] = IF q = m THEN None ELSE disk.memories[q]
                              /\ ram'.memories[q] = IF q = m THEN None ELSE ram.memories[q]
      BY <1>0, <2>3 DEF MemoryTables
    <3> QED BY <1>0, <2>3, <3>1, <3>2, <3>3 DEF OwnInv, RowOf
  <2> QED BY <2>1, <2>2, <2>3
<1>10. CASE TermbaseAttach \/ TermbaseDetach
  <2>1. /\ Only(ram, ram', {"termMounts", "tm", "terms"}) /\ gone' = gone
        /\ disk' = disk \/ Only(disk, disk', {"termMounts"})
    BY <1>10, TermbaseMountWrites DEF Failed
  <2> QED BY <1>3, <2>1 DEF Only, TableNames
<1>11. CASE TmImport \/ TmUpdate
  <2>1. ram' = ram /\ gone' = gone /\ (disk' = disk \/ Only(disk, disk', {"tm"}))
    BY <1>11, TmImportWrites, TmUpdateWrites DEF Failed
  <2> QED BY <1>3, <2>1 DEF Only, TableNames
<1>12. CASE TmDelete
  <2>1. /\ ram' = ram
        /\ \/ disk' = disk /\ gone' = gone
           \/ Only(disk, disk', {"tm"}) /\ Only(gone, gone', {"tm", "projects", "termMounts"})
    BY <1>12, TmDeleteWrites DEF Failed
  <2>2. /\ disk'.projects = disk.projects /\ disk'.memories = disk.memories /\ disk'.mounts = disk.mounts
        /\ gone'.memories = gone.memories /\ gone'.mounts = gone.mounts
    BY <2>1 DEF Only, TableNames
  <2> QED BY <1>0, <2>1, <2>2 DEF OwnInv, RowOf
<1> QED
  BY <1>2, <1>5, <1>6, <1>7, <1>8, <1>9, <1>10, <1>11, <1>12 DEF Handler

LEMMA GoneStep ==
  ASSUME TypeInv, ImportInv, GoneRows, OwnInv, [Next]_workspaceVars
  PROVE  GoneRows' /\ OwnInv'
<1>0. disk.documents \in DocumentTables
  BY TableTypes, TableSorts
<1>1. CASE StoreNext /\ UNCHANGED writes
  BY <1>1, GoneOpening
<1>2. CASE TermNext
  <2>1. /\ UNCHANGED <<ram, phase>>
        /\ (disk' = disk /\ gone' = gone) \/ TermsStored
    BY <1>2, TermWrites DEF Failed
  <2>2. CASE disk' = disk /\ gone' = gone
    BY <2>1, <2>2 DEF GoneRows, OwnInv
  <2>3. CASE TermsStored
    <3>1. /\ Only(disk, disk', {"terms"}) /\ Only(gone, gone', {"terms", "projects", "termMounts"})
          /\ (\A t \in Terms \cap gone.terms : disk.terms[t] = None)
                => \A t \in Terms \cap gone'.terms : disk'.terms[t] = None
      BY <2>3 DEF TermsStored
    <3>2. /\ disk'.documents = disk.documents /\ disk'.tm = disk.tm /\ disk'.projects = disk.projects
          /\ disk'.memories = disk.memories /\ disk'.mounts = disk.mounts
          /\ gone'.documents = gone.documents /\ gone'.tm = gone.tm
          /\ gone'.memories = gone.memories /\ gone'.mounts = gone.mounts
      BY <3>1 DEF Only, TableNames
    <3>3. GoneRows'
      BY <3>1, <3>2 DEF GoneRows
    <3>4. OwnInv'
      BY <2>1, <3>2 DEF OwnInv, RowOf
    <3> QED BY <3>3, <3>4
  <2> QED BY <2>1, <2>2, <2>3
<1>3. CASE Handler /\ UNCHANGED <<phase, crashes, header, legacyFile>>
  BY <1>3, GoneRowsCall, OwnCall
\* A document that comes or goes changes one row of one table.
<1>4. ASSUME \/ disk' = disk /\ gone' = gone
             \/ /\ Only(disk, disk', {"documents"}) /\ Only(gone, gone', {"documents", "projects", "termMounts"})
                /\ \A d \in Documents \cap gone'.documents : disk'.documents[d] = None,
             phase' # "open" \/ (UNCHANGED phase /\ (ram' = ram \/ Only(ram, ram', {"documents", "tm", "terms"})))
      PROVE  GoneRows' /\ OwnInv'
  <2>1. CASE disk' = disk /\ gone' = gone
    BY <1>4, <2>1 DEF GoneRows, OwnInv, Only, TableNames, RowOf
  <2>2. CASE /\ Only(disk, disk', {"documents"}) /\ Only(gone, gone', {"documents", "projects", "termMounts"})
             /\ \A d \in Documents \cap gone'.documents : disk'.documents[d] = None
    <3>1. /\ disk'.terms = disk.terms /\ disk'.tm = disk.tm /\ disk'.projects = disk.projects
          /\ disk'.memories = disk.memories /\ disk'.mounts = disk.mounts
          /\ gone'.terms = gone.terms /\ gone'.tm = gone.tm
          /\ gone'.memories = gone.memories /\ gone'.mounts = gone.mounts
      BY <2>2 DEF Only, TableNames
    <3>2. GoneRows'
      BY <2>2, <3>1 DEF GoneRows
    <3>3. phase' = "open" => UNCHANGED phase /\ ram'.projects = ram.projects /\ ram'.memories = ram.memories
      BY <1>4 DEF Only, TableNames
    <3>4. OwnInv'
      BY <3>1, <3>3 DEF OwnInv, RowOf
    <3> QED BY <3>2, <3>4
  <2> QED BY <1>4, <2>1, <2>2
<1>5. CASE DocumentImport /\ UNCHANGED <<header, legacyFile>>
  <2>1. gone' = gone /\ Only(gone, gone', {"documents", "projects", "termMounts"})
    BY <1>5, DocumentImportWrites DEF Only
  <2>2. PICK d \in Documents, row \in DocumentRows :
          /\ d \notin gone.documents
          /\ \/ /\ Only(disk, disk', {"documents"}) /\ disk'.documents = [disk.documents EXCEPT ![d] = row]
                /\ Only(ram, ram', {"documents", "tm", "terms"}) /\ UNCHANGED phase
             \/ disk' = disk /\ UNCHANGED <<ram, phase>>
             \/ disk' = disk /\ phase' = "closed"
    BY <1>5, DocumentImportWrites DEF Failed, Dies
  <2>3. disk'.documents = [disk.documents EXCEPT ![d] = row]
          => \A e \in Documents \cap gone'.documents : disk'.documents[e] = None
    BY <1>0, <2>1, <2>2 DEF GoneRows, DocumentTables
  <2> QED BY <1>4, <2>1, <2>2, <2>3
<1>6. CASE DocumentRemove /\ UNCHANGED <<header, legacyFile>>
  <2>1. PICK d \in Documents :
              \/ /\ Only(disk, disk', {"documents"})
                 /\ disk'.documents = [disk.documents EXCEPT ![d] = None]
                 /\ Only(gone, gone', {"documents", "projects", "termMounts"})
                 /\ gone'.documents = gone.documents \cup {d}
                 /\ \/ Only(ram, ram', {"documents", "tm", "terms"}) /\ UNCHANGED phase
                    \/ phase' = "closed"
              \/ disk' = disk /\ UNCHANGED <<ram, phase, gone>>
    BY <1>6, DocumentRemoveWrites DEF Failed, Dies
  <2>2. disk'.documents = [disk.documents EXCEPT ![d] = None] /\ gone'.documents = gone.documents \cup {d}
          => \A e \in Documents \cap gone'.documents : disk'.documents[e] = None
    BY <1>0 DEF GoneRows, DocumentTables
  <2> QED BY <1>4, <2>1, <2>2
<1>7. CASE UNCHANGED workspaceVars
  BY <1>7 DEF workspaceVars, storeVars, GoneRows, OwnInv
<1> QED
  BY <1>1, <1>2, <1>3, <1>5, <1>6, <1>7 DEF Next

(* Documents, memories, entries, terms and mounts somebody removed stay     *)
(* removed: a call never takes their ids again, a restart reads a           *)
(* state.json at most once, and the backfill of own memories runs before    *)
(* anything was removed.                                                    *)
THEOREM RemovedStays == Spec => []NothingComesBack
<1>1. Init => TypeInv /\ ImportInv /\ GoneRows /\ OwnInv
  BY TypeInit, ImportInit, GoneInit
<1>2. TypeInv /\ ImportInv /\ GoneRows /\ OwnInv /\ [Next]_workspaceVars
        => TypeInv' /\ ImportInv' /\ GoneRows' /\ OwnInv'
  BY TypeStep, ImportStep, GoneStep
<1>3. TypeInv /\ GoneRows /\ OwnInv => NothingComesBack
  BY DEF TypeInv, Removed, GoneRows, OwnInv, NothingComesBack, RowOf
<1> QED
  BY <1>1, <1>2, <1>3, PTL DEF Spec

-----------------------------------------------------------------------------
(* Language pairs.                                                          *)

\* A document of these tables was cut for the pair of its project.
PairsIn(documents, projects) ==
  \A d \in Documents : RowOf(documents, d) =>
    /\ RowOf(projects, documents[d].project)
    /\ documents[d].pair = projects[documents[d].project].pair

PairInv == failures = 0 => PairsIn(disk.documents, disk.projects)

\* What the engine of an earlier build wrote down belongs together.
LegacyFits == PairsIn(Legacy.documents, Legacy.projects)

LEMMA FailureShows == TypeInv => failures \in Nat /\ (failures' = failures + 1 => failures' # 0)
<1> SUFFICES ASSUME TypeInv PROVE failures \in Nat
  OBVIOUS
<1>1. failures \in 0..MaxFailures
  BY DEF TypeInv, TypeOK
<1> QED BY <1>1, StoreAssumption

LEMMA PairInit == LegacyFits /\ Init => PairInv
<1> SUFFICES ASSUME LegacyFits, Init PROVE PairInv
  OBVIOUS
<1>1. CASE disk = EmptyTables
  BY <1>1, EmptyIsTables DEF PairInv, PairsIn, RowOf
<1>2. CASE disk \in Deduped(Legacy)
  BY <1>2, DedupedType DEF PairInv, LegacyFits, Only, TableNames
<1> QED BY <1>1, <1>2 DEF Init, StoreInit

LEMMA PairOpening ==
  ASSUME LegacyFits, TypeInv, ImportInv, PairInv, StoreNext
  PROVE  PairInv'
<1>1. failures' = failures \/ failures' # 0
  BY FailureShows DEF StoreNext, OpenStep, Start, Migrate, ImportLegacy, RenameLegacy, Materialize,
     Load, OpenFails, Fail, Crash, StaleFile
<1>2. CASE disk' = disk
  BY <1>1, <1>2 DEF PairInv
<1>3. CASE disk' # disk
  <2>1. CASE Materialize
    BY <1>1, <1>3, <2>1, MaterializeWrites DEF PairInv, Only, TableNames
  <2>2. CASE ImportLegacy
    <3>1. disk = EmptyTables
      BY <1>3, <2>2, ImportWrites DEF ImportInv
    <3>2. PICK x \in Deduped(Legacy) :
            /\ disk'.projects = Upserted(disk.projects, x.projects)
            /\ disk'.documents = Upserted(disk.documents, x.documents)
      BY <1>3, <2>2, ImportWrites
    <3>3. x.projects = Legacy.projects /\ x.documents = Legacy.documents
      BY DedupedType DEF Only, TableNames
    <3>4. /\ disk.projects \in ProjectTables /\ disk.documents \in DocumentTables
          /\ Legacy.projects \in ProjectTables /\ Legacy.documents \in DocumentTables
      BY TableTypes, TableSorts, StoreAssumption
    <3>5. disk'.projects = Legacy.projects
      BY <3>1, <3>2, <3>3, <3>4, EmptyIsTables DEF Upserted, ProjectTables
    <3>6. disk'.documents = Legacy.documents
      BY <3>1, <3>2, <3>3, <3>4, EmptyIsTables DEF Upserted, DocumentTables
    <3> QED BY <3>5, <3>6 DEF PairInv, LegacyFits
  <2> QED BY <1>3, <2>1, <2>2 DEF StoreNext, OpenStep, Start, Migrate, RenameLegacy, Load,
                                   OpenFails, Fail, Crash, StaleFile
<1> QED BY <1>2, <1>3

LEMMA PairCall ==
  ASSUME TypeInv, RamInv, PairInv, Handler, failures' = 0
  PROVE  PairsIn(disk'.documents, disk'.projects)
<1>0. /\ disk.projects \in ProjectTables /\ disk.documents \in DocumentTables
      /\ disk \in Tables /\ ram \in Rams
  BY TableTypes, TableSorts
<1>1. ~Failed /\ Called
  BY HandlerTypes, FailureShows DEF Failed
<1>2. failures = 0 /\ clean
  BY <1>1, HandlerTypes DEF Stored, RamInv
<1>3. /\ ram.projects = disk.projects /\ ram.documents = disk.documents
      /\ PairsIn(disk.documents, disk.projects)
  BY <1>0, <1>1, <1>2, LoadedFields DEF RamInv, Called, PairInv
<1>4. disk'.documents = disk.documents
  BY HandlerLeaves
<1>5. \A d \in Documents : RowOf(disk.documents, d) => disk.documents[d].project \in Projects
  BY <1>0 DEF RowOf, DocumentTables, DocumentRows
<1>6. ASSUME NEW p \in Projects, NEW row \in ProjectRows,
             disk'.projects = [disk.projects EXCEPT ![p] = row],
             \A d \in Documents : RowOf(disk.documents, d) /\ disk.documents[d].project = p
                => row.pair = disk.documents[d].pair
      PROVE  PairsIn(disk'.documents, disk'.projects)
  <2>1. row # None
    BY StoreAssumption
  <2>2. ASSUME NEW d \in Documents, RowOf(disk.documents, d)
        PROVE  LET q == disk.documents[d].project
               IN RowOf(disk'.projects, q) /\ disk.documents[d].pair = disk'.projects[q].pair
    <3>1. disk.documents[d].project \in Projects
      BY <1>5, <2>2
    <3>2. CASE disk.documents[d].project = p
      BY <1>0, <1>6, <2>1, <2>2, <3>1, <3>2 DEF RowOf, ProjectTables
    <3>3. CASE disk.documents[d].project # p
      BY <1>0, <1>3, <1>6, <2>2, <3>1, <3>3 DEF RowOf, ProjectTables, PairsIn
    <3> QED BY <3>2, <3>3
  <2> QED BY <1>4, <2>2 DEF PairsIn
<1>7. CASE disk'.projects = disk.projects
  BY <1>3, <1>4, <1>7
<1>8. CASE ProjectCreate
  <2>1. PICK p \in Projects, row \in ProjectRows :
          ram.projects[p] = None /\ disk'.projects = [disk.projects EXCEPT ![p] = row]
    BY <1>1, <1>8, ProjectCreateWrites
  <2>2. \A d \in Documents : RowOf(disk.documents, d) => disk.documents[d].project # p
    BY <1>3, <2>1 DEF PairsIn, RowOf
  <2> QED BY <1>6, <2>1, <2>2
<1>9. CASE ProjectArchive \/ QaProfileUpdate
  <2>1. PICK p \in ProjectIds, row \in ProjectRows :
           SaveProject(p, row) /\ row.pair = ram.projects[p].pair
    BY <1>9, ProjectSaves
  <2>2. p \in Projects
    BY DEF ProjectIds
  <2>3. disk'.projects = [disk.projects EXCEPT ![p] = row]
    BY <1>1, <2>1, <2>2, SaveProjectWrites
  <2>4. \A d \in Documents : RowOf(disk.documents, d) /\ disk.documents[d].project = p
                => row.pair = disk.documents[d].pair
    BY <1>3, <2>1 DEF PairsIn
  <2> QED BY <1>6, <2>2, <2>3, <2>4
<1>10. CASE ProjectUpdate
  <2>1. PICK p \in ProjectIds, row \in ProjectRows :
          PairIsFree(p) /\ disk'.projects = [disk.projects EXCEPT ![p] = row]
    BY <1>1, <1>10, ProjectUpdateWrites
  <2>2. p \in Projects
    BY DEF ProjectIds
  <2>3. \A d \in Documents : RowOf(disk.documents, d) => disk.documents[d].project # p
    BY <1>3, <2>1 DEF PairIsFree
  <2> QED BY <1>6, <2>1, <2>2, <2>3
<1>11. CASE MemoryAttach \/ MemoryDetach
  <2>1. Only(disk, disk', {"mounts"})
    BY <1>1, <1>11, MemoryAttachWrites, MemoryDetachWrites
  <2> QED BY <1>7, <2>1 DEF Only, TableNames
<1>12. CASE MemoryDelete
  <2>1. Only(disk, disk', {"memories", "tm"})
    BY <1>1, <1>12, MemoryDeleteWrites
  <2> QED BY <1>7, <2>1 DEF Only, TableNames
<1>13. CASE TermbaseAttach \/ TermbaseDetach
  <2>1. Only(disk, disk', {"termMounts"})
    BY <1>1, <1>13, TermbaseMountWrites
  <2> QED BY <1>7, <2>1 DEF Only, TableNames
<1>14. CASE TmImport \/ TmUpdate \/ TmDelete
  <2>1. Only(disk, disk', {"tm"})
    BY <1>1, <1>14, TmImportWrites, TmUpdateWrites, TmDeleteWrites
  <2> QED BY <1>7, <2>1 DEF Only, TableNames
<1> QED
  BY <1>8, <1>9, <1>10, <1>11, <1>12, <1>13, <1>14 DEF Handler

LEMMA PairStep ==
  ASSUME LegacyFits, TypeInv, ImportInv, RamInv, PairInv, [Next]_workspaceVars
  PROVE  PairInv'
<1>0. /\ disk.documents \in DocumentTables /\ disk \in Tables /\ ram \in Rams
      /\ failures \in Nat
  BY TableTypes, TableSorts DEF TypeInv, TypeOK
<1>1. CASE StoreNext /\ UNCHANGED writes
  BY <1>1, PairOpening
<1>2. CASE TermNext
  <2>1. failures' # 0 \/ (Stored /\ Only(disk, disk', {"terms"}))
    BY <1>2, TermWrites, FailureShows DEF Failed, TermsStored
  <2> QED BY <2>1 DEF Stored, PairInv, Only, TableNames
<1>3. CASE Handler /\ UNCHANGED <<phase, crashes, header, legacyFile>>
  BY <1>3, PairCall DEF PairInv
<1>4. CASE DocumentImport /\ UNCHANGED <<header, legacyFile>>
  <2>1. CASE failures' # 0 \/ UNCHANGED <<disk, failures>>
    BY <2>1 DEF PairInv
  <2>2. CASE failures' = 0 /\ ~UNCHANGED <<disk, failures>>
    <3>1. ~Failed /\ phase = "open"
      BY <1>0, <1>4, <2>2, DocumentImportWrites DEF Failed, Called
    <3>2. PICK d \in Documents, row \in DocumentRows :
            /\ RowOf(ram.projects, row.project) /\ row.pair = ram.projects[row.project].pair
            /\ Stored /\ Only(disk, disk', {"documents"})
            /\ disk'.documents = [disk.documents EXCEPT ![d] = row]
      BY <1>4, <2>2, <3>1, DocumentImportWrites
    <3>3. failures = 0 /\ clean
      BY <2>2, <3>2 DEF Stored, RamInv
    <3>4. ram.projects = disk.projects /\ PairsIn(disk.documents, disk.projects)
      BY <1>0, <3>1, <3>3, LoadedFields DEF RamInv, PairInv
    <3>5. disk'.projects = disk.projects
      BY <3>2 DEF Only, TableNames
    <3>6. PairsIn(disk'.documents, disk'.projects)
      BY <1>0, <3>2, <3>4, <3>5 DEF PairsIn, RowOf, DocumentTables
    <3> QED BY <3>6 DEF PairInv
  <2> QED BY <2>1, <2>2
<1>5. CASE DocumentRemove /\ UNCHANGED <<header, legacyFile>>
  <2>1. \/ failures' # 0
        \/ /\ Stored /\ Only(disk, disk', {"documents"})
           /\ \E d \in Documents : disk'.documents = [disk.documents EXCEPT ![d] = None]
    BY <1>5, DocumentRemoveWrites, FailureShows DEF Failed
  <2>2. CASE failures' # 0
    BY <2>2 DEF PairInv
  <2>3. CASE failures' = 0
    <3>1. /\ failures = 0 /\ disk'.projects = disk.projects
          /\ PairsIn(disk.documents, disk.projects)
      BY <2>1, <2>3 DEF Stored, Only, TableNames, PairInv
    <3>2. \A d \in Documents : disk'.documents[d] = disk.documents[d] \/ disk'.documents[d] = None
      BY <1>0, <2>1, <2>3 DEF DocumentTables
    <3>3. PairsIn(disk'.documents, disk'.projects)
      BY <3>1, <3>2 DEF PairsIn, RowOf
    <3> QED BY <3>3 DEF PairInv
  <2> QED BY <2>2, <2>3
<1>6. CASE UNCHANGED workspaceVars
  BY <1>6 DEF workspaceVars, storeVars, PairInv
<1> QED
  BY <1>1, <1>2, <1>3, <1>4, <1>5, <1>6 DEF Next

(* As long as no write failed, every document of the database was cut and   *)
(* translated for the pair its project has, if that was so of the documents *)
(* a state.json lists: a project moves to another pair only while it has no *)
(* document.                                                                *)
THEOREM PairsStay == ASSUME LegacyFits PROVE Spec => []PairsFit
<1>1. Init => TypeInv /\ ImportInv /\ RamInv /\ PairInv
  BY TypeInit, ImportInit, RamInit, PairInit
<1>2. TypeInv /\ ImportInv /\ RamInv /\ PairInv /\ [Next]_workspaceVars
        => TypeInv' /\ ImportInv' /\ RamInv' /\ PairInv'
  BY TypeStep, ImportStep, RamStep, PairStep
<1>3. PairInv => PairsFit
  BY DEF PairInv, PairsIn, PairsFit
<1> QED
  BY <1>1, <1>2, <1>3, PTL DEF Spec

-----------------------------------------------------------------------------
(* Terms.                                                                   *)

\* The termbase of an earlier build had one entry per term.
LegacySingle == SingleTerms(Legacy.terms)

TermInv == SingleTerms(disk.terms)

LEMMA TermInit == LegacySingle /\ Init => TermInv
<1> SUFFICES ASSUME LegacySingle, Init PROVE TermInv
  OBVIOUS
<1>1. CASE disk = EmptyTables
  BY <1>1, EmptyIsTables DEF TermInv, SingleTerms, RowOf
<1>2. CASE disk \in Deduped(Legacy)
  BY <1>2, DedupedType DEF TermInv, LegacySingle, Only, TableNames
<1> QED BY <1>1, <1>2 DEF Init, StoreInit

LEMMA TermStep ==
  ASSUME LegacySingle, TypeInv, ImportInv, TermInv, [Next]_workspaceVars
  PROVE  TermInv'
<1>1. CASE disk'.terms = disk.terms
  BY <1>1 DEF TermInv
<1>2. CASE ImportLegacy
  <2>1. CASE disk' = disk
    BY <1>1, <2>1
  <2>2. CASE disk' # disk
    <3>1. disk = EmptyTables
      BY <1>2, <2>2, ImportWrites DEF ImportInv
    <3>2. PICK x \in Deduped(Legacy) : disk'.terms = Upserted(disk.terms, x.terms)
      BY <1>2, <2>2, ImportWrites
    <3>3. x.terms = Legacy.terms
      BY DedupedType DEF Only, TableNames
    <3>4. disk.terms \in TermTables /\ Legacy.terms \in TermTables
      BY TableTypes, TableSorts, StoreAssumption
    <3>5. disk'.terms = Legacy.terms
      BY <3>1, <3>2, <3>3, <3>4, EmptyIsTables DEF Upserted, TermTables
    <3> QED BY <3>5 DEF TermInv, LegacySingle
  <2> QED BY <2>1, <2>2
<1>3. CASE Materialize
  BY <1>1, <1>3, MaterializeWrites DEF Only, TableNames
<1>4. CASE Start \/ Migrate \/ RenameLegacy \/ Load \/ OpenFails \/ Crash \/ StaleFile
  BY <1>1, <1>4 DEF Start, Migrate, RenameLegacy, Load, OpenFails, Fail, Crash, StaleFile
<1>5. CASE TermNext
  <2>1. disk' = disk \/ TermsStored
    BY <1>5, TermWrites DEF Failed
  <2> QED BY <1>1, <2>1 DEF TermsStored, TermInv
<1>6. CASE Handler
  BY <1>1, <1>6, HandlerLeaves
<1>7. CASE DocumentImport \/ DocumentRemove
  <2>1. disk' = disk \/ Only(disk, disk', {"documents"})
    BY <1>7, DocumentImportWrites, DocumentRemoveWrites DEF Failed
  <2> QED BY <1>1, <2>1 DEF Only, TableNames
<1>8. CASE UNCHANGED workspaceVars
  BY <1>1, <1>8 DEF workspaceVars, storeVars
<1> QED
  BY <1>2, <1>3, <1>4, <1>5, <1>6, <1>7, <1>8 DEF Next, StoreNext, OpenStep

(* However adding, renaming, editing, deleting and importing alternate and  *)
(* whatever fails between them, two entries of a termbase never have the    *)
(* same source term and two translations of an entry never the same term,   *)
(* if that was so of the terms a state.json lists.                          *)
THEOREM TermsStaySingle == ASSUME LegacySingle PROVE Spec => []OneEntryPerTerm
<1>1. Init => TypeInv /\ ImportInv /\ TermInv
  BY TypeInit, ImportInit, TermInit
<1>2. TypeInv /\ ImportInv /\ TermInv /\ [Next]_workspaceVars => TypeInv' /\ ImportInv' /\ TermInv'
  BY TypeStep, ImportStep, TermStep
<1>3. TermInv => OneEntryPerTerm
  BY SingleIsOneEntry DEF TermInv
<1> QED
  BY <1>1, <1>2, <1>3, PTL DEF Spec
=============================================================================
