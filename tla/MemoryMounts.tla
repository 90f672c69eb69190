---------------------------- MODULE MemoryMounts ----------------------------
(***************************************************************************)
(* The memories and their mounts on projects, kept twice: in the engine    *)
(* state, which every handler decides on, and in the store, which a        *)
(* restart loads.  A handler is atomic for other requests, but its         *)
(* transaction can fail (a locked or full database), and then the two      *)
(* copies part: detach and update change the engine state before they      *)
(* apply the transaction, every other handler after it.  The engine goes   *)
(* on with its own copy, later transactions write to the other one, and it *)
(* may restart at any time.                                                *)
(*                                                                         *)
(* Memories and projects are written to the store first, so one variable   *)
(* stands for both copies of them.                                         *)
(***************************************************************************)
EXTENDS Integers, FiniteSets

CONSTANTS
  Projects,
  Memories,
  OwnMemory,     \* the memory project.create makes for each project
  MaxFailures    \* bound: transactions that fail

ASSUME MountsAssumption ==
  /\ OwnMemory \in [Projects -> Memories]
  /\ \A p, q \in Projects : p # q => OwnMemory[p] # OwnMemory[q]
  /\ IsFiniteSet(Memories)
  /\ MaxFailures \in Nat

VARIABLES
  projects,   \* the projects created so far
  memories,   \* memories[m]: "unused", "live" or "deleted"; ids are never reused
  mounts,     \* mounts[p]: the engine's mounts of p, a function from memories
  stored,     \* stored[p]: the rows of memory_mounts
  filled,     \* the memories with rows in tm_entries
  failures,   \* transactions that failed so far
  late,       \* history: the projects with a failed transaction since the last start
  torn        \* history: the late projects for which a transaction then went through
              \* and left store and engine state different (or deleted a memory that
              \* the store still mounts)

vars == <<projects, memories, mounts, stored, filled, failures, late, torn>>

Mount == [priority : Nat, enabled : BOOLEAN, writable : BOOLEAN]

\* The mounts a project may have: a function on the memories mounted.
IsTable(table) == DOMAIN table \subseteq Memories /\ table \in [DOMAIN table -> Mount]

NoMounts == [m \in {} |-> [priority |-> 0, enabled |-> TRUE, writable |-> TRUE]]

-----------------------------------------------------------------------------
(* Tables of mounts *)

\* The positions the mounts take when sorted by priority: one for each mount,
\* those of equal priority side by side in either order.
Positions(table) ==
  LET before(m) == Cardinality({n \in DOMAIN table : table[n].priority < table[m].priority})
      upTo(m)   == Cardinality({n \in DOMAIN table : table[n].priority <= table[m].priority})
      slots     == [m \in DOMAIN table |-> before(m)..upTo(m) - 1]
  IN IF \A m \in DOMAIN table : Cardinality(slots[m]) = 1
     THEN {[m \in DOMAIN table |-> before(m)]}
     ELSE {pos \in [DOMAIN table -> 0..Cardinality(DOMAIN table) - 1] :
             \A m, n \in DOMAIN table : pos[m] \in slots[m] /\ (m # n => pos[m] # pos[n])}

Renumber(table, pos) == [m \in DOMAIN table |-> [table[m] EXCEPT !.priority = pos[m]]]

\* Variant: every mount before the new slot moves up, also those above m.
MovedPastEnd(pos, m, to) ==
  [n \in DOMAIN pos |-> IF n = m THEN to ELSE IF pos[n] <= to THEN pos[n] - 1 ELSE pos[n]]

\* The positions after mount m moved to slot "to", the others keeping their order.
Moved(pos, m, to) ==
  LET without(n) == IF pos[n] > pos[m] THEN pos[n] - 1 ELSE pos[n]
  IN [n \in DOMAIN pos |->
        IF n = m THEN to ELSE IF without(n) >= to THEN without(n) + 1 ELSE without(n)]

Clamp(to, table) == IF to < Cardinality(DOMAIN table) THEN to ELSE Cardinality(DOMAIN table) - 1

Without(table, m) == [n \in DOMAIN table \ {m} |-> table[n]]

\* What is left after a removal, numbered contiguously again.
Recompacted(table) == {Renumber(table, pos) : pos \in Positions(table)}

\* Variant: only the edited mount is persisted, not the siblings that moved.
ChangedNew(old, new) == DOMAIN new \ DOMAIN old

\* The rows a handler persists: those it changed in the engine state.
Changed(old, new) == {m \in DOMAIN new : m \notin DOMAIN old \/ new[m] # old[m]}

\* Variant: a second mount may be promoted.
PromotableAlways(table, m) == TRUE

\* Promoting m is a conflict while another mount is writable.
Promotable(table, m) == \A n \in DOMAIN table : table[n].writable => n = m

\* No project mounts m: the condition of a delete.
Unmounted(m) == \A p \in Projects : m \notin DOMAIN mounts[p]

-----------------------------------------------------------------------------
(* Transactions *)

\* The transaction that takes project p from table old to table new: deleted
\* rows go, changed rows are upserted, no other row is touched.
Apply(p, old, new) ==
  LET kept    == DOMAIN stored[p] \ (DOMAIN old \ DOMAIN new)
      changed == Changed(old, new)
      rows    == [m \in kept \cup changed |->
                    IF m \in changed THEN new[m] ELSE stored[p][m]]
  IN /\ stored' = [stored EXCEPT ![p] = rows]
     /\ torn' = IF p \in late /\ rows # new THEN torn \cup {p} ELSE torn
     /\ UNCHANGED <<failures, late>>

\* A failed transaction changes nothing in the store.
Fail(p) ==
  /\ failures < MaxFailures
  /\ failures' = failures + 1
  /\ late' = late \cup {p}
  /\ UNCHANGED <<stored, torn>>

\* Detach and update: the engine state first, then the transaction.  A delta
\* without rows is not sent to the store and cannot fail.
ChangeFirst(p, new) ==
  /\ mounts' = [mounts EXCEPT ![p] = new]
  /\ \/ Apply(p, mounts[p], new)
     \/ mounts[p] # new /\ Fail(p)

\* Create and attach: the transaction first, then the engine state.
PersistFirst(p, new) ==
  /\ Apply(p, mounts[p], new)
  /\ mounts' = [mounts EXCEPT ![p] = new]

-----------------------------------------------------------------------------
ProjectCreate(p) ==
  LET m == OwnMemory[p]
  IN /\ p \notin projects
     /\ memories[m] = "unused"
     /\ projects' = projects \cup {p}
     /\ memories' = [memories EXCEPT ![m] = "live"]
     /\ PersistFirst(p, [n \in {m} |-> [priority |-> 0, enabled |-> TRUE, writable |-> TRUE]])
     /\ UNCHANGED filled

MemoryCreate(m) ==
  /\ memories[m] = "unused"
  /\ \A p \in Projects : OwnMemory[p] # m
  /\ memories' = [memories EXCEPT ![m] = "live"]
  /\ UNCHANGED <<projects, mounts, stored, filled, failures, late, torn>>

\* Attaching a mounted memory again answers the existing mount.
MemoryAttach(p, m) ==
  /\ p \in projects /\ memories[m] = "live"
  /\ m \notin DOMAIN mounts[p]
  /\ PersistFirst(p, [n \in DOMAIN mounts[p] \cup {m} |->
       IF n = m THEN [priority |-> Cardinality(DOMAIN mounts[p]), enabled |-> TRUE,
                      writable |-> FALSE]
       ELSE mounts[p][n]])
  /\ UNCHANGED <<projects, memories, filled>>

MemoryDetach(p, m) ==
  /\ p \in projects /\ memories[m] = "live"
  /\ m \in DOMAIN mounts[p]
  /\ \E new \in Recompacted(Without(mounts[p], m)) : ChangeFirst(p, new)
  /\ UNCHANGED <<projects, memories, filled>>

\* Enable or disable, promote or demote, and move to slot "to", all optional.
MemoryUpdate(p, m, on, role, to) ==
  /\ p \in projects /\ memories[m] = "live"
  /\ m \in DOMAIN mounts[p]
  /\ role = "promote" => Promotable(mounts[p], m)
  /\ LET edited == [mounts[p] EXCEPT ![m].enabled = on,
                      ![m].writable = IF role = "keep" THEN @ ELSE role = "promote"]
     IN \/ to = "keep" /\ ChangeFirst(p, edited)
        \/ /\ to # "keep"
           /\ \E pos \in Positions(edited), slot \in 0..Cardinality(DOMAIN edited) :
                ChangeFirst(p, Renumber(edited, Moved(pos, m, Clamp(slot, edited))))
  /\ UNCHANGED <<projects, memories, filled>>

\* Entries are deleted with their memory when the request says so, and refuse
\* the delete otherwise.  Rows of memory_mounts that a failed detach left behind
\* stay where they are.
MemoryDelete(m, deleteEntries) ==
  /\ memories[m] = "live"
  /\ Unmounted(m)
  /\ m \in filled => deleteEntries
  /\ memories' = [memories EXCEPT ![m] = "deleted"]
  /\ filled' = filled \ {m}
  /\ torn' = torn \cup {p \in late : m \in DOMAIN stored[p]}
  /\ UNCHANGED <<projects, mounts, stored, failures, late>>

\* The write of segment.confirm goes to the writable mount of the engine state.
Confirm(p) ==
  /\ p \in projects
  /\ \E m \in DOMAIN mounts[p] :
       /\ mounts[p][m].writable
       /\ filled' = filled \cup {m}
  /\ UNCHANGED <<projects, memories, mounts, stored, failures, late, torn>>

\* The engine starts from what is stored, whatever has failed before.
Restart ==
  /\ mounts' = stored
  /\ late' = {}
  /\ UNCHANGED <<projects, memories, stored, filled, failures, torn>>

-----------------------------------------------------------------------------
Init ==
  /\ projects = {}
  /\ memories = [m \in Memories |-> "unused"]
  /\ mounts = [p \in Projects |-> NoMounts]
  /\ stored = mounts
  /\ filled = {}
  /\ failures = 0
  /\ late = {} /\ torn = {}

Next ==
  \/ \E p \in Projects : ProjectCreate(p) \/ Confirm(p)
  \/ \E m \in Memories : MemoryCreate(m) \/ \E entries \in BOOLEAN : MemoryDelete(m, entries)
  \/ \E p \in Projects, m \in Memories :
       \/ MemoryAttach(p, m)
       \/ MemoryDetach(p, m)
       \/ \E on \in BOOLEAN, role \in {"keep", "promote", "demote"}, to \in {"keep", "move"} :
            MemoryUpdate(p, m, on, role, to)
  \/ Restart

Spec == Init /\ [][Next]_vars

-----------------------------------------------------------------------------
(* Properties *)

TypeOK ==
  /\ projects \in SUBSET Projects
  /\ memories \in [Memories -> {"unused", "live", "deleted"}]
  /\ DOMAIN mounts = Projects /\ DOMAIN stored = Projects
  /\ \A p \in Projects : IsTable(mounts[p]) /\ IsTable(stored[p])
  /\ filled \in SUBSET Memories
  /\ failures \in 0..MaxFailures
  /\ late \in SUBSET Projects /\ torn \in SUBSET Projects

\* The memories a table lets confirms write to.
Writables(table) == {m \in DOMAIN table : table[m].writable}

OneWritable(table) ==
  \A m, n \in DOMAIN table : table[m].writable /\ table[n].writable => m = n

\* Priorities 0 to n - 1, without a tie or a gap.
Numbered(table) ==
  {table[m].priority : m \in DOMAIN table} = 0..Cardinality(DOMAIN table) - 1

\* A sound table: one working memory, contiguous priorities, and no orphan among
\* memories of the given states.
Sound(table, states) ==
  /\ OneWritable(table) /\ Numbered(table)
  /\ \A m \in DOMAIN table : states[m] = "live"

\* "At most one mount per project is writable", "priorities are contiguous per
\* project", "never a silent orphan": so it is in the engine state and in the store
\* that a restart comes back to, whatever was attached, moved, detached, failed or
\* restarted, until a transaction of that project goes through on top of one that
\* failed.  Then all three may break, at the next restart.
SoundUnlessTorn ==
  \A p \in Projects \ torn : Sound(mounts[p], memories) /\ Sound(stored[p], memories)

\* Every entry belongs to a memory: deleting one takes its entries along, and
\* no confirm brings them back, unless a project is torn.
NoOrphanEntry == torn = {} => \A m \in filled : memories[m] = "live"

\* The rows each handler persists are exactly those it changed: a restart changes
\* nothing for a project none of whose transactions failed since the last start,
\* unless it is torn.
RestartLosesNothing == \A p \in Projects \ (late \cup torn) : stored[p] = mounts[p]

\* A handler never spoils the engine's own mounts, torn or not and whether its
\* transaction goes through or fails: once a project has one working memory,
\* contiguous priorities and no orphan, only a restart can take that away.
OnlyRestartsSpoil ==
  [][\A p \in Projects :
       Sound(mounts[p], memories) => Sound(mounts'[p], memories') \/ Restart]_vars

\* The working memories of each project, in the engine state and in the store.
Working == [p \in Projects |-> Writables(mounts[p])]
Kept == [p \in Projects |-> Writables(stored[p])]

Abstract == INSTANCE WorkingMemory WITH working <- Working, kept <- Kept

\* The mounts implement the abstract working memory, failures and restarts
\* included: no handler appoints a second memory or learns anywhere else, a
\* memory in use is not deleted, and a restart falls back to what was written.
ImplementsWorkingMemory == Abstract!Spec
=============================================================================
