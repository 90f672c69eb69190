------------------------ MODULE MemoryMounts_proofs ------------------------
(***************************************************************************)
(* Proofs about MemoryMounts, for any projects, any finite set of memories *)
(* and any number of failed transactions, with restarts at any time.  What *)
(* is claimed of a project with two parting copies is claimed unless it is *)
(* torn; what no handler may do is claimed of every project.               *)
(***************************************************************************)
EXTENDS MemoryMounts, FiniteSetTheorems, FunctionTheorems, TLAPS

-----------------------------------------------------------------------------
(* Tables *)

LEMMA TableSize ==
  ASSUME NEW table, IsTable(table)
  PROVE  /\ Cardinality(DOMAIN table) \in Nat
         /\ \A m \in DOMAIN table : Cardinality(DOMAIN table) > 0
  <1>1. IsFiniteSet(DOMAIN table)
    BY MountsAssumption, FS_Subset DEF IsTable
  <1>2. Cardinality(DOMAIN table) \in Nat
    BY <1>1, FS_CardinalityType
  <1>3. DOMAIN table # {} => Cardinality(DOMAIN table) # 0
    BY <1>1, FS_EmptySet
  <1> QED BY <1>2, <1>3

\* What renumbering and moving keep: the memories mounted and their flags.
SameMounts(old, new) ==
  /\ DOMAIN new = DOMAIN old
  /\ \A m \in DOMAIN old : new[m].writable = old[m].writable

LEMMA RenumberType ==
  ASSUME NEW table, IsTable(table), NEW pos \in [DOMAIN table -> Nat]
  PROVE  IsTable(Renumber(table, pos)) /\ SameMounts(table, Renumber(table, pos))
  BY DEF IsTable, Renumber, SameMounts, Mount

LEMMA PositionsType ==
  ASSUME NEW table, IsTable(table), NEW pos \in Positions(table)
  PROVE  pos \in [DOMAIN table -> Nat]
  <1>1. Cardinality(DOMAIN table) \in Nat
    BY TableSize
  <1>2. IsFiniteSet(DOMAIN table)
    BY MountsAssumption, FS_Subset DEF IsTable
  <1>3. ASSUME NEW m \in DOMAIN table
        PROVE  Cardinality({n \in DOMAIN table : table[n].priority < table[m].priority}) \in Nat
    <2> DEFINE S == {n \in DOMAIN table : table[n].priority < table[m].priority}
    <2>1. S \subseteq DOMAIN table
      OBVIOUS
    <2> HIDE DEF S
    <2>2. Cardinality(S) \in Nat
      BY <1>2, <2>1, FS_Subset, FS_CardinalityType
    <2> QED BY <2>2 DEF S
  <1> DEFINE before(m) == Cardinality({n \in DOMAIN table : table[n].priority < table[m].priority})
  <1>4. \/ pos = [m \in DOMAIN table |-> before(m)]
        \/ pos \in [DOMAIN table -> 0..Cardinality(DOMAIN table) - 1]
    BY Zenon DEF Positions
  <1>5. \A m \in DOMAIN table : before(m) \in Nat
    BY <1>3
  <1> HIDE DEF before
  <1> QED BY <1>1, <1>4, <1>5

LEMMA MovedType ==
  ASSUME NEW table, IsTable(table), NEW pos \in [DOMAIN table -> Nat],
         NEW m \in DOMAIN table, NEW slot \in Nat
  PROVE  Moved(pos, m, Clamp(slot, table)) \in [DOMAIN table -> Nat]
  <1>1. Cardinality(DOMAIN table) \in Nat /\ Cardinality(DOMAIN table) > 0
    BY TableSize
  <1>2. Clamp(slot, table) \in Nat
    BY <1>1 DEF Clamp
  <1>3. pos[m] \in Nat /\ \A n \in DOMAIN table : pos[n] \in Nat
    OBVIOUS
  <1>4. ASSUME NEW to \in Nat
        PROVE  Moved(pos, m, to) \in [DOMAIN table -> Nat]
    BY <1>3 DEF Moved
  <1> QED BY <1>2, <1>4

\* The table a detach leaves: no new mount, no new writable one.
DetachLeaves(table, m, new) ==
  /\ IsTable(new)
  /\ DOMAIN new = DOMAIN table \ {m}
  /\ \A n \in DOMAIN new : new[n].writable = table[n].writable

LEMMA DetachTable ==
  ASSUME NEW table, IsTable(table), NEW m \in DOMAIN table,
         NEW new \in Recompacted(Without(table, m))
  PROVE  DetachLeaves(table, m, new)
  <1> DEFINE rest == Without(table, m)
  <1>1. IsTable(rest) /\ DOMAIN rest = DOMAIN table \ {m}
    BY DEF IsTable, Without
  <1>2. \A n \in DOMAIN rest : rest[n] = table[n]
    BY DEF Without
  <1>3. PICK pos \in Positions(rest) : new = Renumber(rest, pos)
    BY DEF Recompacted
  <1> HIDE DEF rest
  <1>4. IsTable(new) /\ SameMounts(rest, new)
    BY <1>1, <1>3, PositionsType, RenumberType
  <1> QED BY <1>1, <1>2, <1>4 DEF SameMounts, DetachLeaves

-----------------------------------------------------------------------------
(* A numbering gives each mount a place of its own.                       *)

Numberings(table) ==
  {pos \in [DOMAIN table -> 0..Cardinality(DOMAIN table) - 1] :
     \A m, n \in DOMAIN table : pos[m] = pos[n] => m = n}

\* No place is left free: there are as many places as mounts.
LEMMA NumberingFills ==
  ASSUME NEW table, IsTable(table), NEW pos \in Numberings(table)
  PROVE  Numbered(Renumber(table, pos))
  <1> DEFINE D == DOMAIN table
             P == 0..Cardinality(D) - 1
  <1>1. IsFiniteSet(D) /\ Cardinality(D) \in Nat
    BY MountsAssumption, FS_Subset, TableSize DEF IsTable
  <1>2. IsFiniteSet(P) /\ Cardinality(P) = Cardinality(D)
    BY <1>1, FS_Interval
  <1>3. pos \in Injection(D, P)
    BY Fun_IsInj DEF Numberings
  <1>4. pos \in Surjection(D, P)
    BY <1>2, <1>3, FS_Injection
  <1>5. \A i \in P : \E m \in D : pos[m] = i
    BY <1>4 DEF Surjection
  <1>6. \A m \in D : pos[m] \in P
    BY DEF Numberings
  <1>7. DOMAIN Renumber(table, pos) = D /\ \A m \in D : Renumber(table, pos)[m].priority = pos[m]
    BY DEF Renumber, IsTable, Mount
  <1> HIDE DEF D
  <1> QED BY <1>5, <1>6, <1>7 DEF Numbered

\* Sorting by priority gives each mount a place of its own, with or without ties.
LEMMA PositionsNumber ==
  ASSUME NEW table, IsTable(table)
  PROVE  Positions(table) \subseteq Numberings(table)
  <1> DEFINE D == DOMAIN table
             below(m) == {n \in D : table[n].priority < table[m].priority}
             upTo(m) == {n \in D : table[n].priority <= table[m].priority}
             slots == [m \in D |-> Cardinality(below(m))..Cardinality(upTo(m)) - 1]
  <1>1. IsFiniteSet(D) /\ Cardinality(D) \in Nat
    BY MountsAssumption, FS_Subset, TableSize DEF IsTable
  <1>2. \A m \in D : table[m].priority \in Nat
    BY DEF IsTable, Mount
  <1>3. ASSUME NEW S \in SUBSET D
        PROVE  /\ IsFiniteSet(S) /\ Cardinality(S) \in Nat
               /\ \A T \in SUBSET S : Cardinality(T) <= Cardinality(S)
               /\ \A T \in SUBSET S : T # S => Cardinality(T) < Cardinality(S)
    <2>1. IsFiniteSet(S) /\ Cardinality(S) \in Nat
      BY <1>1, FS_Subset, FS_CardinalityType
    <2>2. ASSUME NEW T \in SUBSET S
          PROVE  Cardinality(T) \in Nat /\ Cardinality(T) <= Cardinality(S)
                 /\ (T # S => Cardinality(T) < Cardinality(S))
      <3>1. /\ IsFiniteSet(T) /\ Cardinality(T) <= Cardinality(S)
            /\ Cardinality(S) = Cardinality(T) => S = T
        BY <2>1, FS_Subset
      <3>2. Cardinality(T) \in Nat
        BY <3>1, FS_CardinalityType
      <3> QED BY <2>1, <3>1, <3>2
    <2> QED BY <2>1, <2>2
  <1>4. ASSUME NEW m \in D
        PROVE  /\ below(m) \in SUBSET upTo(m) /\ upTo(m) \in SUBSET D
               /\ m \in upTo(m) /\ m \notin below(m)
    BY <1>2
  <1>5. ASSUME \A m \in D : Cardinality(slots[m]) = 1
        PROVE  [m \in D |-> Cardinality(below(m))] \in Numberings(table)
    <2>1. ASSUME NEW m \in D
          PROVE  Cardinality(below(m)) \in 0..Cardinality(D) - 1
      <3>1. below(m) \in SUBSET D /\ below(m) # D
        BY <1>4
      <3> HIDE DEF below
      <3>2. Cardinality(below(m)) \in Nat /\ Cardinality(below(m)) < Cardinality(D)
        BY <1>3, <3>1
      <3> QED BY <1>1, <3>2
    <2>2. ASSUME NEW m \in D, NEW n \in D, m # n
          PROVE  table[m].priority # table[n].priority
      <3> SUFFICES ASSUME table[m].priority = table[n].priority PROVE FALSE
        OBVIOUS
      <3> DEFINE one == below(m) \cup {m}
      <3>1. /\ below(m) \in SUBSET one /\ below(m) # one
            /\ one \in SUBSET upTo(m) /\ one # upTo(m) /\ upTo(m) \in SUBSET D /\ one \in SUBSET D
        BY <1>2, <2>2, <1>4
      <3> HIDE DEF one, below, upTo
      <3>2. /\ Cardinality(below(m)) < Cardinality(one) /\ Cardinality(one) < Cardinality(upTo(m))
            /\ Cardinality(one) \in Nat /\ Cardinality(upTo(m)) \in Nat
            /\ Cardinality(below(m)) \in Nat
        BY <1>3, <2>1, <3>1
      <3> DEFINE a == Cardinality(below(m))
                 b == Cardinality(upTo(m)) - 1
      <3>3. a \in Nat /\ b \in Nat /\ b > a
        BY <3>2
      <3>4. Cardinality(a..b) = 1
        BY <1>5
      <3> HIDE DEF a, b
      <3> QED BY <3>3, <3>4, FS_Interval
    <2>3. ASSUME NEW m \in D, NEW n \in D, table[m].priority < table[n].priority
          PROVE  Cardinality(below(m)) < Cardinality(below(n))
      <3>1. /\ below(m) \in SUBSET below(n) /\ below(m) # below(n) /\ below(n) \in SUBSET D
        BY <1>2, <2>3
      <3> HIDE DEF below
      <3> QED BY <1>3, <3>1
    <2>4. ASSUME NEW m \in D, NEW n \in D, Cardinality(below(m)) = Cardinality(below(n))
          PROVE  m = n
      <3> HIDE DEF below
      <3>1. Cardinality(below(m)) \in Nat
        BY <2>1
      <3>2. ~(table[m].priority < table[n].priority) /\ ~(table[n].priority < table[m].priority)
        BY <2>3, <2>4, <3>1
      <3> QED BY <1>2, <2>2, <3>2
    <2> HIDE DEF below, slots
    <2> QED BY <2>1, <2>4 DEF Numberings
  <1> SUFFICES ASSUME NEW pos \in Positions(table) PROVE pos \in Numberings(table)
    OBVIOUS
  <1>6. CASE \A m \in D : Cardinality(slots[m]) = 1
    <2>1. pos = [m \in D |-> Cardinality(below(m))]
      BY <1>6, Zenon DEF Positions
    <2> HIDE DEF below, slots
    <2> QED BY <1>5, <1>6, <2>1
  <1>7. CASE ~ \A m \in D : Cardinality(slots[m]) = 1
    <2>1. pos \in [D -> 0..Cardinality(D) - 1]
          /\ \A m, n \in D : pos[m] \in slots[m] /\ (m # n => pos[m] # pos[n])
      BY <1>7, Zenon DEF Positions
    <2> HIDE DEF below, slots
    <2> QED BY <2>1 DEF Numberings
  <1> QED BY <1>6, <1>7

\* Moving one mount to another place is a numbering again.
LEMMA MovedNumbers ==
  ASSUME NEW table, IsTable(table), NEW pos \in Numberings(table),
         NEW m \in DOMAIN table, NEW slot \in Nat
  PROVE  Moved(pos, m, Clamp(slot, table)) \in Numberings(table)
  <1> DEFINE D == DOMAIN table
             N == Cardinality(D)
             to == Clamp(slot, table)
             new == Moved(pos, m, to)
  <1>1. N \in Nat /\ N > 0
    BY TableSize
  <1>2. to \in 0..N - 1
    BY <1>1 DEF Clamp
  <1>3. /\ \A n \in D : pos[n] \in 0..N - 1
        /\ \A n, k \in D : pos[n] = pos[k] => n = k
        /\ DOMAIN pos = D
    BY DEF Numberings
  <1> HIDE DEF N, to, D
  <1>4. /\ new = [n \in D |-> new[n]] /\ new[m] = to
        /\ \A n \in D \ {m} : new[n] = LET w == IF pos[n] > pos[m] THEN pos[n] - 1 ELSE pos[n]
                                        IN IF w >= to THEN w + 1 ELSE w
    BY <1>3 DEF Moved, D
  <1> HIDE DEF new
  <1>5. m \in D
    BY DEF D
  <1>6. \A n \in D : new[n] \in 0..N - 1
    BY <1>1, <1>2, <1>3, <1>4, <1>5
  <1>7. ASSUME NEW n \in D, NEW k \in D, new[n] = new[k]
        PROVE  n = k
    <2>1. pos[n] \in Nat /\ pos[k] \in Nat /\ pos[m] \in Nat /\ to \in Nat
      BY <1>1, <1>2, <1>3, <1>5
    <2>2. pos[n] = pos[k] => n = k
      BY <1>3
    <2>3. (n # m => pos[n] # pos[m]) /\ (k # m => pos[k] # pos[m])
      BY <1>3, <1>5
    <2> QED BY <1>4, <1>7, <2>1, <2>2, <2>3
  <1>8. new \in [D -> 0..N - 1]
    BY <1>4, <1>6
  <1> QED BY <1>7, <1>8 DEF Numberings, D, N, new, to

-----------------------------------------------------------------------------
(* Transactions *)

\* The rows the store holds for project p after a transaction.
Rows(p, old, new) ==
  [m \in (DOMAIN stored[p] \ (DOMAIN old \ DOMAIN new)) \cup Changed(old, new) |->
     IF m \in Changed(old, new) THEN new[m] ELSE stored[p][m]]

\* A transaction over a table the store agrees with leaves the new table there;
\* one that leaves anything else tears a late project.
LEMMA ApplyEffect ==
  ASSUME NEW p \in Projects, NEW old, NEW new, IsTable(new),
         DOMAIN stored = Projects, \A q \in Projects : IsTable(stored[q]),
         p \notin late \cup torn => stored[p] = old,
         Apply(p, old, new)
  PROVE  /\ DOMAIN stored' = Projects /\ \A q \in Projects : IsTable(stored'[q])
         /\ stored' = [stored EXCEPT ![p] = Rows(p, old, new)]
         /\ torn' \in {torn, torn \cup {p}}
         /\ p \notin torn' => stored'[p] = new
         /\ UNCHANGED <<failures, late>>
  <1> DEFINE row == Rows(p, old, new)
  <1>1. stored' = [stored EXCEPT ![p] = row] /\ UNCHANGED <<failures, late>>
        /\ torn' = IF p \in late /\ row # new THEN torn \cup {p} ELSE torn
    BY DEF Apply, Rows
  <1>2. IsTable(row)
    <2>1. Changed(old, new) \subseteq DOMAIN new
      BY DEF Changed
    <2> QED BY <2>1 DEF IsTable, Rows
  <1>3. ASSUME stored[p] = old
        PROVE  row = new
    <2>1. DOMAIN row = DOMAIN new
      BY <1>3 DEF Changed, Rows
    <2>2. \A m \in DOMAIN new : row[m] = new[m]
      BY <1>3, <2>1 DEF Changed, Rows
    <2>3. new = [m \in DOMAIN new |-> new[m]]
      BY DEF IsTable
    <2>4. row = [m \in DOMAIN row |-> row[m]]
      BY DEF Rows
    <2> HIDE DEF row
    <2> QED BY <2>1, <2>2, <2>3, <2>4
  <1> HIDE DEF row
  <1>4. stored'[p] = row
    BY <1>1
  <1>5. p \notin torn' => row = new
    BY <1>1, <1>3
  <1> QED BY <1>1, <1>2, <1>4, <1>5 DEF row

-----------------------------------------------------------------------------
(* The invariant *)

States == {"unused", "live", "deleted"}

\* A project that was not created mounts nothing, and the copies of one that is
\* not torn are sound, both of them.
MInv ==
  /\ TypeOK
  /\ \A p \in Projects \ projects : DOMAIN mounts[p] = {} /\ DOMAIN stored[p] = {}
  /\ RestartLosesNothing
  /\ SoundUnlessTorn
  /\ NoOrphanEntry

USE DEF SoundUnlessTorn

\* No memory that exists is deleted.
Lasting == \A m \in Memories : memories[m] = "live" => memories'[m] = "live"

\* Project p gets a new table, in either order of engine state and transaction:
\* a sound one if it had one, and at most one memory gets or loses the role, and
\* gets it only when no other has it.
Remount(p, new) ==
  /\ IsTable(new)
  /\ ChangeFirst(p, new) \/ PersistFirst(p, new)
  /\ projects' = projects \cup {p}
  /\ memories' \in [Memories -> States] /\ Lasting
  /\ filled' = filled
  /\ Sound(mounts[p], memories) => Sound(new, memories')
  /\ \/ Writables(new) = Writables(mounts[p])
     \/ \E m \in Writables(mounts[p]) : Writables(new) = Writables(mounts[p]) \ {m}
     \/ \E m \in Memories : Writables(mounts[p]) = {} /\ Writables(new) = {m}

LEMMA SoundLasts ==
  ASSUME Lasting, NEW table, IsTable(table), Sound(table, memories)
  PROVE  Sound(table, memories')
  BY DEF Lasting, Sound, IsTable

LEMMA RemountMInv ==
  ASSUME MInv, NEW p \in Projects, NEW new, Remount(p, new)
  PROVE  MInv'
  <1>1. /\ TypeOK /\ DOMAIN stored = Projects /\ DOMAIN mounts = Projects
        /\ \A q \in Projects : IsTable(stored[q]) /\ IsTable(mounts[q])
    BY DEF MInv, TypeOK
  <1>2. /\ mounts' = [mounts EXCEPT ![p] = new] /\ IsTable(new)
        /\ Apply(p, mounts[p], new) \/ Fail(p)
    BY DEF Remount, ChangeFirst, PersistFirst
  <1>3. /\ DOMAIN mounts' = Projects /\ mounts'[p] = new
        /\ \A q \in Projects \ {p} : mounts'[q] = mounts[q]
    BY <1>1, <1>2
  <1>4. p \notin late \cup torn => stored[p] = mounts[p]
    BY DEF MInv, RestartLosesNothing
  <1>5. /\ DOMAIN stored' = Projects /\ \A q \in Projects : IsTable(stored'[q])
        /\ \A q \in Projects \ {p} : stored'[q] = stored[q]
        /\ torn \subseteq torn' /\ torn' \subseteq Projects
        /\ late \subseteq late' /\ late' \subseteq Projects
        /\ failures' \in 0..MaxFailures
        /\ p \notin torn' => stored'[p] = new \/ (stored'[p] = stored[p] /\ p \in late')
    <2>1. CASE Apply(p, mounts[p], new)
      <3>1. /\ DOMAIN stored' = Projects /\ \A q \in Projects : IsTable(stored'[q])
            /\ stored' = [stored EXCEPT ![p] = Rows(p, mounts[p], new)]
            /\ torn' \in {torn, torn \cup {p}}
            /\ p \notin torn' => stored'[p] = new
            /\ UNCHANGED <<failures, late>>
        BY <1>1, <1>2, <1>4, <2>1, ApplyEffect
      <3>2. \A q \in Projects \ {p} : stored'[q] = stored[q]
        BY <1>1, <3>1
      <3> QED BY <1>1, <3>1, <3>2 DEF TypeOK
    <2>2. CASE Fail(p)
      BY <1>1, <2>2, MountsAssumption DEF Fail, TypeOK
    <2> QED BY <1>2, <2>1, <2>2
  <1>6. TypeOK'
    <2>1. projects' \in SUBSET Projects /\ filled' \in SUBSET Memories
          /\ memories' \in [Memories -> {"unused", "live", "deleted"}]
      BY <1>1 DEF Remount, TypeOK, States
    <2>2. \A q \in Projects : IsTable(mounts'[q])
      BY <1>1, <1>2, <1>3
    <2> QED BY <1>3, <1>5, <2>1, <2>2 DEF TypeOK
  <1>7. ASSUME NEW q \in Projects \ projects'
        PROVE  DOMAIN mounts'[q] = {} /\ DOMAIN stored'[q] = {}
    <2>1. q # p /\ q \in Projects \ projects
      BY <1>7 DEF Remount
    <2> QED BY <1>3, <1>5, <2>1 DEF MInv
  <1>8. ASSUME NEW q \in Projects \ (late' \cup torn')
        PROVE  stored'[q] = mounts'[q]
    <2>1. CASE q = p
      BY <1>3, <1>5, <2>1
    <2>2. CASE q # p
      <3>1. stored[q] = mounts[q]
        BY <1>5 DEF MInv, RestartLosesNothing
      <3> QED BY <1>3, <1>5, <2>2, <3>1
    <2> QED BY <2>1, <2>2
  <1>9. ASSUME NEW q \in Projects \ torn'
        PROVE  Sound(mounts'[q], memories') /\ Sound(stored'[q], memories')
    <2>1. Sound(mounts[q], memories) /\ Sound(stored[q], memories)
      BY <1>5 DEF MInv
    <2>2. Sound(mounts[q], memories') /\ Sound(stored[q], memories')
      BY <1>1, <2>1, SoundLasts DEF Remount
    <2>3. CASE q # p
      BY <1>3, <1>5, <2>2, <2>3
    <2>4. CASE q = p
      <3>1. Sound(new, memories')
        BY <2>1, <2>4 DEF Remount
      <3> QED BY <1>3, <1>5, <2>2, <2>4, <3>1
    <2> QED BY <2>3, <2>4
  <1>10. NoOrphanEntry'
    <2>1. torn' = {} => torn = {}
      BY <1>5
    <2>2. filled' = filled /\ filled \subseteq Memories /\ Lasting
      BY <1>1 DEF Remount, TypeOK
    <2> QED BY <2>1, <2>2 DEF MInv, NoOrphanEntry, Lasting
  <1> QED BY <1>6, <1>7, <1>8, <1>9, <1>10 DEF MInv, RestartLosesNothing

-----------------------------------------------------------------------------
(* The handlers of mounts give a project a new table.                       *)

LEMMA CreateRemounts ==
  ASSUME MInv, NEW p \in Projects, ProjectCreate(p)
  PROVE  \E new : Remount(p, new)
  <1> DEFINE m == OwnMemory[p]
             new == [n \in {m} |-> [priority |-> 0, enabled |-> TRUE, writable |-> TRUE]]
  <1>1. m \in Memories
    BY MountsAssumption
  <1>2. IsTable(new) /\ OneWritable(new)
    BY <1>1 DEF IsTable, OneWritable, Mount
  <1>3. Numbered(new)
    <2>1. DOMAIN new = {m} /\ new[m].priority = 0
      OBVIOUS
    <2>2. Cardinality({m}) = 1
      BY FS_Singleton
    <2>3. 0..1 - 1 = {0}
      OBVIOUS
    <2>4. {new[n].priority : n \in DOMAIN new} = {0}
      BY <2>1
    <2> QED BY <2>1, <2>2, <2>3, <2>4 DEF Numbered
  <1>4. /\ memories \in [Memories -> States]
        /\ memories' = [memories EXCEPT ![m] = "live"]
        /\ p \in Projects \ projects /\ projects' = projects \cup {p} /\ filled' = filled
    BY DEF ProjectCreate, MInv, TypeOK, States
  <1>5. memories' \in [Memories -> States] /\ memories'[m] = "live" /\ Lasting
    BY <1>1, <1>4 DEF Lasting, States
  <1>6. Sound(new, memories')
    BY <1>2, <1>3, <1>5 DEF Sound
  <1>7. Writables(mounts[p]) = {} /\ Writables(new) = {m}
    BY <1>4 DEF Writables, MInv
  <1>8. PersistFirst(p, new)
    BY DEF ProjectCreate
  <1> HIDE DEF new, m
  <1> QED BY <1>1, <1>2, <1>4, <1>5, <1>6, <1>7, <1>8 DEF Remount

\* Attach, detach and update leave projects and memories alone.
LEMMA QuietRemount ==
  ASSUME MInv, NEW p \in projects, NEW new, IsTable(new),
         ChangeFirst(p, new) \/ PersistFirst(p, new),
         UNCHANGED <<projects, memories, filled>>,
         Sound(mounts[p], memories) => Sound(new, memories),
         \/ Writables(new) = Writables(mounts[p])
         \/ \E m \in Writables(mounts[p]) : Writables(new) = Writables(mounts[p]) \ {m}
         \/ \E m \in Memories : Writables(mounts[p]) = {} /\ Writables(new) = {m}
  PROVE  Remount(p, new)
  <1>1. memories' \in [Memories -> States] /\ Lasting /\ projects' = projects \cup {p}
    BY DEF MInv, TypeOK, States, Lasting
  <1> QED BY <1>1 DEF Remount

LEMMA AttachRemounts ==
  ASSUME MInv, NEW p \in Projects, NEW m \in Memories, MemoryAttach(p, m)
  PROVE  \E new : Remount(p, new)
  <1> DEFINE D == DOMAIN mounts[p]
             new == [n \in D \cup {m} |->
                       IF n = m THEN [priority |-> Cardinality(D), enabled |-> TRUE,
                                      writable |-> FALSE]
                       ELSE mounts[p][n]]
  <1>1. /\ IsTable(mounts[p]) /\ m \notin D /\ p \in projects /\ memories[m] = "live"
        /\ UNCHANGED <<projects, memories, filled>> /\ PersistFirst(p, new)
    BY DEF MInv, TypeOK, MemoryAttach
  <1>2. Cardinality(D) \in Nat /\ IsFiniteSet(D)
    BY <1>1, TableSize, MountsAssumption, FS_Subset DEF IsTable
  <1>3. IsTable(new)
    BY <1>1, <1>2 DEF IsTable, Mount
  <1>4. /\ DOMAIN new = D \cup {m} /\ new[m].priority = Cardinality(D) /\ ~new[m].writable
        /\ \A n \in D : new[n] = mounts[p][n]
    BY <1>1
  <1> HIDE DEF new
  <1>5. ASSUME Sound(mounts[p], memories)
        PROVE  Sound(new, memories)
    <2>1. Cardinality(DOMAIN new) = Cardinality(D) + 1
      <3> HIDE DEF D
      <3> QED BY <1>1, <1>2, <1>4, FS_AddElement
    <2>2. {mounts[p][n].priority : n \in D} = 0..Cardinality(D) - 1
      BY <1>5 DEF Sound, Numbered
    <2>3. {new[n].priority : n \in DOMAIN new}
            = {mounts[p][n].priority : n \in D} \cup {Cardinality(D)}
      BY <1>1, <1>4
    <2> DEFINE N == Cardinality(D)
    <2>4. 0..(N + 1) - 1 = (0..N - 1) \cup {N}
      BY <1>2
    <2>5. Numbered(new)
      BY <2>1, <2>2, <2>3, <2>4 DEF Numbered
    <2>6. OneWritable(new) /\ \A n \in DOMAIN new : memories[n] = "live"
      BY <1>1, <1>4, <1>5 DEF Sound, OneWritable
    <2> QED BY <2>5, <2>6 DEF Sound
  <1>6. Writables(new) = Writables(mounts[p])
    BY <1>1, <1>4 DEF Writables
  <1>7. Remount(p, new)
    BY <1>1, <1>3, <1>5, <1>6, QuietRemount
  <1> QED BY <1>7

LEMMA DetachRemounts ==
  ASSUME MInv, NEW p \in Projects, NEW m \in Memories, MemoryDetach(p, m)
  PROVE  \E new : Remount(p, new)
  <1>1. /\ IsTable(mounts[p]) /\ m \in DOMAIN mounts[p] /\ p \in projects
        /\ UNCHANGED <<projects, memories, filled>>
    BY DEF MInv, TypeOK, MemoryDetach
  <1>2. PICK new \in Recompacted(Without(mounts[p], m)) : ChangeFirst(p, new)
    BY DEF MemoryDetach
  <1>3. /\ IsTable(new) /\ DOMAIN new = DOMAIN mounts[p] \ {m}
        /\ \A n \in DOMAIN new : new[n].writable = mounts[p][n].writable
    <2> DEFINE table == mounts[p]
    <2>1. IsTable(table) /\ m \in DOMAIN table /\ new \in Recompacted(Without(table, m))
      BY <1>1, <1>2
    <2> HIDE DEF table
    <2>2. DetachLeaves(table, m, new)
      BY <2>1, DetachTable
    <2> QED BY <2>2 DEF table, DetachLeaves
  <1>4. Numbered(new)
    <2> DEFINE rest == Without(mounts[p], m)
    <2>1. IsTable(rest)
      BY <1>1 DEF IsTable, Without
    <2>2. PICK pos \in Positions(rest) : new = Renumber(rest, pos)
      BY DEF Recompacted
    <2> HIDE DEF rest
    <2> QED BY <2>1, <2>2, PositionsNumber, NumberingFills
  <1>5. Sound(mounts[p], memories) => Sound(new, memories)
    BY <1>3, <1>4 DEF Sound, OneWritable
  <1>6. Writables(new) = Writables(mounts[p]) \ {m}
    BY <1>3 DEF Writables
  <1>7. \/ Writables(new) = Writables(mounts[p])
        \/ \E n \in Writables(mounts[p]) : Writables(new) = Writables(mounts[p]) \ {n}
    BY <1>6
  <1>8. Remount(p, new)
    BY <1>1, <1>2, <1>3, <1>5, <1>7, QuietRemount
  <1> QED BY <1>8

LEMMA UpdateRemounts ==
  ASSUME MInv, NEW p \in Projects, NEW m \in Memories, NEW on \in BOOLEAN,
         NEW role \in {"keep", "promote", "demote"}, NEW to \in {"keep", "move"},
         MemoryUpdate(p, m, on, role, to)
  PROVE  \E new : Remount(p, new)
  <1> DEFINE table == mounts[p]
             edited == [table EXCEPT ![m].enabled = on,
                          ![m].writable = IF role = "keep" THEN @ ELSE role = "promote"]
  <1>1. /\ IsTable(table) /\ m \in DOMAIN table /\ p \in projects
        /\ UNCHANGED <<projects, memories, filled>>
    BY DEF MInv, TypeOK, MemoryUpdate
  <1>2. /\ DOMAIN edited = DOMAIN table
        /\ \A n \in DOMAIN table \ {m} : edited[n] = table[n]
        /\ edited[m].priority = table[m].priority
        /\ edited[m].writable = IF role = "keep" THEN table[m].writable ELSE role = "promote"
    BY <1>1 DEF IsTable, Mount
  <1>3. IsTable(edited)
    <2>1. \A n \in DOMAIN table : table[n] \in Mount
      BY <1>1 DEF IsTable
    <2>2. edited[m] = [table[m] EXCEPT !.enabled = on,
                         !.writable = IF role = "keep" THEN @ ELSE role = "promote"]
      BY <1>1
    <2>3. edited[m] \in Mount
      BY <1>1, <2>1, <2>2 DEF Mount
    <2>4. \A n \in DOMAIN edited : edited[n] \in Mount
      BY <1>2, <2>1, <2>3
    <2> QED BY <1>1, <1>2, <2>4 DEF IsTable
  <1>4. Numbered(table) => Numbered(edited)
    <2>1. \A n \in DOMAIN table : edited[n].priority = table[n].priority
      BY <1>2
    <2> HIDE DEF edited, table
    <2> QED BY <1>2, <2>1 DEF Numbered
  <1>5. PICK new : /\ ChangeFirst(p, new) /\ IsTable(new) /\ SameMounts(edited, new)
                   /\ Numbered(table) => Numbered(new)
    <2>1. CASE ChangeFirst(p, edited)
      BY <1>3, <1>4, <2>1 DEF SameMounts
    <2>2. CASE \E pos \in Positions(edited), slot \in 0..Cardinality(DOMAIN edited) :
                 ChangeFirst(p, Renumber(edited, Moved(pos, m, Clamp(slot, edited))))
      <3>1. PICK pos \in Positions(edited), slot \in 0..Cardinality(DOMAIN edited) :
              ChangeFirst(p, Renumber(edited, Moved(pos, m, Clamp(slot, edited))))
        BY <2>2
      <3>2. slot \in Nat /\ m \in DOMAIN edited
        BY <1>1, <1>2
      <3> HIDE DEF edited
      <3> DEFINE moved == Moved(pos, m, Clamp(slot, edited))
      <3>3. pos \in [DOMAIN edited -> Nat] /\ pos \in Numberings(edited)
        BY <1>3, PositionsType, PositionsNumber
      <3>4. moved \in [DOMAIN edited -> Nat] /\ moved \in Numberings(edited)
        BY <1>3, <3>2, <3>3, MovedType, MovedNumbers
      <3> HIDE DEF moved
      <3>5. ChangeFirst(p, Renumber(edited, moved))
        BY <3>1 DEF moved
      <3> QED BY <1>3, <3>4, <3>5, RenumberType, NumberingFills
    <2> QED BY <2>1, <2>2 DEF MemoryUpdate
  <1>6. role = "promote" => Writables(table) \subseteq {m}
    BY DEF MemoryUpdate, Promotable, Writables
  <1>7. /\ DOMAIN new = DOMAIN table
        /\ Writables(new) = IF role = "keep" THEN Writables(table)
                            ELSE IF role = "promote" THEN Writables(table) \cup {m}
                            ELSE Writables(table) \ {m}
    <2> HIDE DEF edited, table
    <2>1. DOMAIN new = DOMAIN table /\ \A n \in DOMAIN table : new[n].writable = edited[n].writable
      BY <1>2, <1>5 DEF SameMounts
    <2> QED BY <1>1, <1>2, <2>1 DEF Writables
  <1> HIDE DEF edited, table
  <1>8. Sound(table, memories) => Sound(new, memories)
    <2> SUFFICES ASSUME Sound(table, memories) PROVE Sound(new, memories)
      OBVIOUS
    <2>1. \A k, n \in Writables(new) : k = n
      <3>1. \A k, n \in Writables(table) : k = n
        BY DEF Sound, OneWritable, Writables
      <3> QED BY <1>6, <1>7, <3>1
    <2>2. OneWritable(new)
      BY <2>1 DEF OneWritable, Writables
    <2> QED BY <1>5, <1>7, <2>2 DEF Sound
  <1>9. \/ Writables(new) = Writables(table)
        \/ \E n \in Writables(table) : Writables(new) = Writables(table) \ {n}
        \/ \E n \in Memories : Writables(table) = {} /\ Writables(new) = {n}
    BY <1>6, <1>7
  <1>10. Remount(p, new)
    BY <1>1, <1>5, <1>8, <1>9, QuietRemount DEF table
  <1> QED BY <1>10

\* Every step is a new table for some project, a memory that comes or goes, an
\* entry that is learned, a restart, or nothing.
LEMMA StepCases ==
  ASSUME MInv, [Next]_vars
  PROVE  \/ \E p \in Projects : \E new : Remount(p, new)
         \/ \E m \in Memories : MemoryCreate(m) \/ \E entries \in BOOLEAN : MemoryDelete(m, entries)
         \/ \E p \in Projects : Confirm(p)
         \/ Restart
         \/ UNCHANGED vars
  <1>1. CASE \E p \in Projects : ProjectCreate(p)
    BY <1>1, CreateRemounts
  <1>2. CASE \E p \in Projects, m \in Memories : MemoryAttach(p, m) \/ MemoryDetach(p, m)
    BY <1>2, AttachRemounts, DetachRemounts
  <1>3. CASE \E p \in Projects, m \in Memories, on \in BOOLEAN,
                 role \in {"keep", "promote", "demote"}, to \in {"keep", "move"} :
               MemoryUpdate(p, m, on, role, to)
    BY <1>3, UpdateRemounts
  <1> QED BY <1>1, <1>2, <1>3 DEF Next

-----------------------------------------------------------------------------
LEMMA InitMInv == Init => MInv
  <1> SUFFICES ASSUME Init PROVE MInv
    OBVIOUS
  <1>1. DOMAIN NoMounts = {} /\ IsTable(NoMounts)
    BY DEF NoMounts, IsTable
  <1>2. mounts = [p \in Projects |-> NoMounts] /\ stored = mounts
    BY DEF Init
  <1>3. TypeOK
    BY <1>1, <1>2, MountsAssumption DEF Init, TypeOK
  <1>4. Sound(NoMounts, memories)
    <2>1. 0..0 - 1 = {}
      OBVIOUS
    <2> QED BY <1>1, <2>1, FS_EmptySet DEF Sound, OneWritable, Numbered
  <1>5. NoOrphanEntry
    BY DEF Init, NoOrphanEntry
  <1> QED BY <1>1, <1>2, <1>3, <1>4, <1>5 DEF MInv, RestartLosesNothing

LEMMA MemoryCreateMInv ==
  ASSUME MInv, NEW m \in Memories, MemoryCreate(m)
  PROVE  MInv'
  <1>1. UNCHANGED <<projects, mounts, stored, filled, failures, late, torn>>
        /\ memories' = [memories EXCEPT ![m] = "live"]
    BY DEF MemoryCreate
  <1>2. Lasting /\ TypeOK'
    BY <1>1 DEF MInv, TypeOK, Lasting
  <1>3. \A p \in Projects \ torn : Sound(mounts[p], memories') /\ Sound(stored[p], memories')
    BY <1>2, SoundLasts DEF MInv, TypeOK
  <1>4. NoOrphanEntry'
    BY <1>1, <1>2 DEF MInv, TypeOK, NoOrphanEntry, Lasting
  <1> QED BY <1>1, <1>2, <1>3, <1>4 DEF MInv, RestartLosesNothing

LEMMA MemoryDeleteMInv ==
  ASSUME MInv, NEW m \in Memories, NEW entries \in BOOLEAN, MemoryDelete(m, entries)
  PROVE  MInv'
  <1>1. /\ UNCHANGED <<projects, mounts, stored, failures, late>>
        /\ memories' = [memories EXCEPT ![m] = "deleted"]
        /\ filled' = filled \ {m}
        /\ torn' = torn \cup {p \in late : m \in DOMAIN stored[p]}
        /\ \A p \in Projects : m \notin DOMAIN mounts[p]
    BY DEF MemoryDelete, Unmounted
  <1>2. \A n \in Memories \ {m} : memories'[n] = memories[n]
    BY <1>1 DEF MInv, TypeOK
  <1>3. TypeOK'
    BY <1>1 DEF MInv, TypeOK
  <1>4. ASSUME NEW p \in Projects \ torn'
        PROVE  Sound(mounts[p], memories') /\ Sound(stored[p], memories')
    <2>1. p \notin torn /\ (p \in late => m \notin DOMAIN stored[p])
      BY <1>1
    <2>2. m \notin DOMAIN mounts[p] /\ m \notin DOMAIN stored[p]
      BY <1>1, <2>1 DEF MInv, RestartLosesNothing
    <2>3. IsTable(mounts[p]) /\ IsTable(stored[p])
          /\ Sound(mounts[p], memories) /\ Sound(stored[p], memories)
      BY <2>1 DEF MInv, TypeOK
    <2> QED BY <1>2, <2>2, <2>3 DEF Sound, IsTable
  <1>5. NoOrphanEntry'
    BY <1>1, <1>2 DEF MInv, TypeOK, NoOrphanEntry
  <1> QED BY <1>1, <1>3, <1>4, <1>5 DEF MInv, RestartLosesNothing

LEMMA ConfirmMInv ==
  ASSUME MInv, NEW p \in Projects, Confirm(p)
  PROVE  MInv'
  <1>1. PICK m \in DOMAIN mounts[p] : filled' = filled \cup {m}
    BY DEF Confirm
  <1>2. UNCHANGED <<projects, memories, mounts, stored, failures, late, torn>>
    BY DEF Confirm
  <1>3. m \in Memories
    BY DEF MInv, TypeOK, IsTable
  <1>4. TypeOK'
    BY <1>1, <1>2, <1>3 DEF MInv, TypeOK
  <1>5. torn = {} => memories[m] = "live"
    BY DEF MInv, Sound
  <1>6. NoOrphanEntry'
    BY <1>1, <1>2, <1>5 DEF MInv, NoOrphanEntry
  <1> QED BY <1>2, <1>4, <1>6 DEF MInv, RestartLosesNothing

\* A restart brings back tables that are sound where no transaction tore them.
LEMMA RestartMInv == MInv /\ Restart => MInv'
  BY DEF Restart, MInv, TypeOK, RestartLosesNothing, NoOrphanEntry

LEMMA NextMInv == MInv /\ [Next]_vars => MInv'
  <1> SUFFICES ASSUME MInv, [Next]_vars PROVE MInv'
    OBVIOUS
  <1>1. CASE UNCHANGED vars
    BY <1>1 DEF vars, MInv, TypeOK, NoOrphanEntry, RestartLosesNothing
  <1> QED BY <1>1, StepCases, RemountMInv, ConfirmMInv, MemoryCreateMInv, MemoryDeleteMInv,
             RestartMInv

-----------------------------------------------------------------------------
\* The inductive invariant: types, and two sound copies of every project that is
\* not torn.
THEOREM MountsSafety == Spec => []MInv
  BY InitMInv, NextMInv, PTL DEF Spec

\* The rows each memory handler persists are the ones it changed: the store is
\* what the engine decides on for every project without a failed transaction
\* since the last start, failures of other projects and restarts included.
THEOREM RestartIsTransparent == Spec => []RestartLosesNothing
  <1>1. MInv => RestartLosesNothing
    BY DEF MInv
  <1> QED BY <1>1, MountsSafety, PTL

\* One working memory, contiguous priorities and no orphan, in the engine and in
\* what a restart would load, until a transaction of the project goes through on
\* top of one that failed.
THEOREM MountsStaySound == Spec => []SoundUnlessTorn
  <1>1. MInv => SoundUnlessTorn
    BY DEF MInv
  <1> QED BY <1>1, MountsSafety, PTL

\* No handler spoils the mounts of a project it finds sound, torn or not, also
\* when its transaction fails: what goes wrong goes wrong in a restart.
THEOREM HandlersKeepSound == Spec => OnlyRestartsSpoil
  <1>1. ASSUME MInv, [Next]_vars, NEW q \in Projects, Sound(mounts[q], memories), ~Restart
        PROVE  Sound(mounts'[q], memories')
    <2>1. IsTable(mounts[q]) /\ DOMAIN mounts = Projects
      BY <1>1 DEF MInv, TypeOK
    <2>2. CASE \E p \in Projects : \E new : Remount(p, new)
      <3>1. PICK p \in Projects : \E new : Remount(p, new)
        BY <2>2
      <3>2. PICK new : Remount(p, new)
        BY <3>1
      <3>3. mounts' = [mounts EXCEPT ![p] = new] /\ Lasting
        BY <3>2 DEF Remount, ChangeFirst, PersistFirst
      <3>4. CASE q = p
        BY <1>1, <2>1, <3>2, <3>3, <3>4 DEF Remount
      <3>5. CASE q # p
        BY <1>1, <2>1, <3>3, <3>5, SoundLasts
      <3> QED BY <3>4, <3>5
    <2>3. CASE \E m \in Memories : MemoryCreate(m)
      <3>1. mounts' = mounts /\ Lasting
        BY <1>1, <2>3 DEF MemoryCreate, Lasting, MInv, TypeOK
      <3> QED BY <1>1, <2>1, <3>1, SoundLasts
    <2>4. ASSUME NEW m \in Memories, NEW entries \in BOOLEAN, MemoryDelete(m, entries)
          PROVE  Sound(mounts'[q], memories')
      <3>1. mounts' = mounts /\ m \notin DOMAIN mounts[q]
            /\ memories' = [memories EXCEPT ![m] = "deleted"]
        BY <2>4 DEF MemoryDelete, Unmounted
      <3>2. \A n \in DOMAIN mounts[q] : memories'[n] = memories[n]
        BY <1>1, <2>1, <3>1 DEF MInv, TypeOK, IsTable
      <3> QED BY <1>1, <3>1, <3>2 DEF Sound
    <2>5. CASE \/ \E p \in Projects : Confirm(p)
               \/ UNCHANGED vars
      BY <1>1, <2>5 DEF Confirm, vars
    <2> QED BY <1>1, <2>2, <2>3, <2>4, <2>5, StepCases
  <1>2. MInv /\ [Next]_vars =>
          [\A p \in Projects :
             Sound(mounts[p], memories) => Sound(mounts'[p], memories') \/ Restart]_vars
    BY <1>1
  <1> QED BY <1>2, MountsSafety, PTL DEF Spec, OnlyRestartsSpoil

-----------------------------------------------------------------------------
(* The abstract working memory.                                             *)

\* A transaction writes the role of every memory it changes, and may write those
\* of others; a failed one writes none.
LEMMA RemountPersists ==
  ASSUME MInv, NEW p \in Projects, NEW new, Remount(p, new), NEW S \in SUBSET Memories,
         S \subseteq (Writables(mounts[p]) \ Writables(new))
                       \cup (Writables(new) \ Writables(mounts[p]))
  PROVE  Abstract!Persist(p, S)
  <1> DEFINE old == mounts[p]
             rows == (DOMAIN old \ DOMAIN new) \cup Changed(old, new)
             row == Rows(p, old, new)
  <1>1. /\ DOMAIN stored = Projects /\ DOMAIN mounts = Projects
        /\ IsTable(old) /\ IsTable(new) /\ \A q \in Projects : IsTable(stored[q])
    BY DEF MInv, TypeOK, Remount
  <1>2. /\ mounts' = [mounts EXCEPT ![p] = new]
        /\ Apply(p, old, new) \/ Fail(p)
    BY DEF Remount, ChangeFirst, PersistFirst
  <1>3. CASE Fail(p)
    <2>1. Kept' = Kept
      BY <1>3 DEF Fail, Kept
    <2> QED BY <2>1 DEF Abstract!Persist
  <1>4. CASE Apply(p, old, new)
    <2>1. rows \in SUBSET Memories /\ S \subseteq rows
      BY <1>1 DEF Changed, Writables, IsTable
    <2>2. stored' = [stored EXCEPT ![p] = row]
      BY <1>4 DEF Apply, Rows
    <2>3. Writables(row) = (Writables(stored[p]) \ rows) \cup (Writables(new) \cap rows)
      BY <1>1 DEF Rows, Changed, Writables
    <2>4. Working'[p] = Writables(new)
      BY <1>1, <1>2 DEF Working
    <2>5. Kept' = [Kept EXCEPT ![p] = Writables(row)]
      <3> HIDE DEF row
      <3> QED BY <1>1, <2>2 DEF Kept
    <2>6. Kept[p] = Writables(stored[p])
      BY DEF Kept
    <2> HIDE DEF rows, row
    <2>7. Abstract!Written(p, rows)
      BY <2>3, <2>4, <2>5, <2>6 DEF Abstract!Written
    <2> QED BY <2>1, <2>7 DEF Abstract!Persist
  <1> QED BY <1>2, <1>3, <1>4

LEMMA RemountImplements ==
  ASSUME MInv, NEW p \in Projects, NEW new, Remount(p, new)
  PROVE  [Abstract!Next]_(Abstract!vars)
  <1>1. /\ mounts' = [mounts EXCEPT ![p] = new] /\ DOMAIN mounts = Projects
        /\ filled' = filled /\ IsTable(mounts[p])
    BY DEF MInv, TypeOK, Remount, ChangeFirst, PersistFirst
  <1>2. Working' = [Working EXCEPT ![p] = Writables(new)] /\ Working[p] = Writables(mounts[p])
    BY <1>1 DEF Working
  <1>3. CASE Writables(new) = Writables(mounts[p])
    <2>1. Working' = Working
      BY <1>2, <1>3 DEF Working
    <2>2. Abstract!Persist(p, {})
      BY RemountPersists
    <2>3. Abstract!Rewrite(p)
      BY <1>1, <2>1, <2>2 DEF Abstract!Rewrite
    <2> QED BY <2>3 DEF Abstract!Next
  <1>4. ASSUME NEW m \in Writables(mounts[p]), Writables(new) = Writables(mounts[p]) \ {m}
        PROVE  Abstract!Next
    <2>1. m \in Memories
      BY <1>1 DEF Writables, IsTable
    <2>2. Abstract!Persist(p, {m})
      BY <1>4, <2>1, RemountPersists
    <2>3. Abstract!Demote(p, m)
      BY <1>1, <1>2, <1>4, <2>2 DEF Abstract!Demote
    <2> QED BY <2>1, <2>3 DEF Abstract!Next
  <1>5. ASSUME NEW m \in Memories, Writables(mounts[p]) = {}, Writables(new) = {m}
        PROVE  Abstract!Next
    <2>1. Abstract!Persist(p, {m})
      BY <1>5, RemountPersists
    <2>2. Abstract!Promote(p, m)
      BY <1>1, <1>2, <1>5, <2>1 DEF Abstract!Promote
    <2> QED BY <2>2 DEF Abstract!Next
  <1> QED BY <1>3, <1>4, <1>5 DEF Remount

LEMMA ConfirmImplements ==
  ASSUME MInv, NEW p \in Projects, Confirm(p)
  PROVE  [Abstract!Next]_(Abstract!vars)
  <1>1. PICK m \in DOMAIN mounts[p] : mounts[p][m].writable /\ filled' = filled \cup {m}
    BY DEF Confirm
  <1>2. m \in Working[p] /\ Working' = Working /\ Kept' = Kept
    BY <1>1 DEF Confirm, Working, Kept, Writables
  <1>3. Abstract!Learn(p)
    BY <1>1, <1>2 DEF Abstract!Learn
  <1> QED BY <1>3 DEF Abstract!Next

LEMMA DeleteImplements ==
  ASSUME NEW m \in Memories, NEW entries \in BOOLEAN, MemoryDelete(m, entries)
  PROVE  [Abstract!Next]_(Abstract!vars)
  <1>1. /\ filled' = filled \ {m} /\ UNCHANGED <<mounts, stored>>
        /\ \A p \in Projects : m \notin DOMAIN mounts[p]
    BY DEF MemoryDelete, Unmounted
  <1>2. Abstract!Forget(m)
    BY <1>1 DEF Abstract!Forget, Working, Kept, Writables
  <1> QED BY <1>2 DEF Abstract!Next

LEMMA InitImplements == Init => Abstract!Init
  <1> SUFFICES ASSUME Init PROVE Abstract!Init
    OBVIOUS
  <1>1. \A p \in Projects : DOMAIN mounts[p] = {} /\ DOMAIN stored[p] = {}
    BY DEF Init, NoMounts
  <1>2. Working = [p \in Projects |-> {}] /\ Kept = [p \in Projects |-> {}]
    BY <1>1 DEF Working, Kept, Writables
  <1> QED BY <1>2 DEF Init, Abstract!Init

LEMMA NextImplements ==
  ASSUME MInv, [Next]_vars
  PROVE  [Abstract!Next]_(Abstract!vars)
  <1>1. CASE Restart
    <2>1. Working' = Kept /\ Kept' = Kept /\ filled' = filled
      BY <1>1 DEF Restart, Working, Kept
    <2>2. Abstract!Restart
      BY <2>1 DEF Abstract!Restart
    <2> QED BY <2>2 DEF Abstract!Next
  <1>2. CASE UNCHANGED <<mounts, stored, filled>>
    <2>1. Working' = Working /\ Kept' = Kept
      BY <1>2 DEF Working, Kept
    <2> QED BY <1>2, <2>1 DEF Abstract!vars
  <1>3. CASE \E m \in Memories : MemoryCreate(m)
    BY <1>2, <1>3 DEF MemoryCreate
  <1>4. CASE UNCHANGED vars
    BY <1>2, <1>4 DEF vars
  <1> QED BY <1>1, <1>3, <1>4, StepCases, RemountImplements, ConfirmImplements, DeleteImplements

\* The mounts implement the abstract working memory with failures and restarts in
\* any order: every handler, failed or not, and every restart is one of its steps
\* or shows nothing of it.
THEOREM MountsImplement == Spec => ImplementsWorkingMemory
  <1>1. MInv /\ [Next]_vars => [Abstract!Next]_(Abstract!vars)
    BY NextImplements
  <1> QED BY <1>1, InitImplements, MountsSafety, PTL
          DEF Spec, ImplementsWorkingMemory, Abstract!Spec
=============================================================================
